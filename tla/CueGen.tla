------------------------------- MODULE CueGen -------------------------------
(***************************************************************************)
(* Offline generation of visual cues (tools/data/gen_visual_cue.py): the   *)
(* rows are split over processes by row number modulo the number of        *)
(* shards; in each process a thread pool works on rows, and the results    *)
(* are written in row order. A row's cue is screened by rules and then by  *)
(* a judge, and generated again while it fails either; a row that never    *)
(* passes is marked to train without a cue. Requests may fail, and a shard *)
(* may be killed and started again, which begins its file anew.            *)
(***************************************************************************)
EXTENDS Integers, Sequences, FiniteSets

CONSTANTS NumRows,     \* len(df)
          NumShards,   \* --num-shards
          Concurrency, \* --concurrency
          MaxRetries,  \* --max-retries, 0 with --no-retry
          UseJudge,    \* not --no-judge
          MaxKills     \* bound: kills of shard processes

ASSUME CueAssumption ==
    /\ {NumShards, Concurrency} \subseteq Nat \ {0}
    /\ {NumRows, MaxRetries, MaxKills} \subseteq Nat
    /\ UseJudge \in BOOLEAN

VARIABLES stage,  \* per shard: "idle", "run", "done"
          work,   \* per row: the local variables of work(idx)
          out,    \* per shard: the lines of its file
          kills   \* kills so far

cueVars == <<stage, work, out, kills>>

Rows == 0..(NumRows - 1)
Shards == 0..(NumShards - 1)

\* Mutant of RowsOf: shards are counted from one.
RowsOfFromOne(s) == {r \in Rows : r % NumShards = s + 1}

\* The rows of a shard: keep.
RowsOf(s) == {r \in Rows : r % NumShards = s}

(***************************************************************************)
(* A cue is known by the attempt that produced it; flagged says whether    *)
(* detect_leak finds something in it. A judge's reply holds LEAK, or SAFE, *)
(* or neither, or the request raises.                                      *)
(***************************************************************************)
NoCue == [attempt |-> 0, flagged |-> FALSE]
Replies == {"LEAK", "SAFE", "neither", "raised"}
Idle == [st |-> "queued", cue |-> NoCue, attempts |-> 0, reply |-> "none",
         judged |-> 0, clean |-> FALSE, error |-> FALSE]

\* Mutant of JudgeLeak: a request that fails does not count as a leak.
JudgeLeakLenient(reply) == reply = "LEAK"

\* judge_leak: "LEAK" in the reply, or the request raised.
JudgeLeak(reply) == reply \in {"LEAK", "raised"}

CueInit ==
    /\ stage = [s \in Shards |-> "idle"]
    /\ work = [r \in Rows |-> Idle] /\ out = [s \in Shards |-> <<>>] /\ kills = 0

\* open(args.out, "w"), then ex.map submits every row.
Start(s) ==
    /\ stage[s] = "idle"
    /\ stage' = [stage EXCEPT ![s] = "run"]
    /\ out' = [out EXCEPT ![s] = <<>>]
    /\ UNCHANGED <<work, kills>>

Busy(s) == {r \in RowsOf(s) : work[r].st \in {"gen", "judge"}}

\* A pool thread takes the next row: the pool's queue is in row order.
Take(s, r) ==
    /\ stage[s] = "run" /\ r \in RowsOf(s) /\ work[r].st = "queued"
    /\ \A q \in RowsOf(s) : q < r => work[q].st # "queued"
    /\ Cardinality(Busy(s)) < Concurrency
    /\ work' = [work EXCEPT ![r].st = "gen"]
    /\ UNCHANGED <<stage, out, kills>>

\* The head of the retry loop, with t the row's variables after _detect.
AfterAttempt(t, ok) ==
    IF ok THEN [t EXCEPT !.st = "done", !.clean = TRUE]
    ELSE [t EXCEPT !.st = IF t.attempts <= MaxRetries THEN "gen" ELSE "done"]

\* one_request answered; the variables of the row begin anew with the cue.
Drawn(t, flagged) ==
    [t EXCEPT !.attempts = @ + 1, !.cue = [attempt |-> t.attempts + 1, flagged |-> flagged],
              !.reply = "none", !.judged = 0]

\* A cue is generated and screened by the rules; the judge is asked about it
\* only if the rules find nothing.
GenerateCue(s, r) ==
    /\ stage[s] = "run" /\ r \in RowsOf(s) /\ work[r].st = "gen"
    /\ \E flagged \in BOOLEAN :
          work' = [work EXCEPT ![r] =
                      IF ~flagged /\ UseJudge
                      THEN [Drawn(@, flagged) EXCEPT !.st = "judge"]
                      ELSE AfterAttempt(Drawn(@, flagged), ~flagged)]
    /\ UNCHANGED <<stage, out, kills>>

\* The request for a cue raises: the record says so, whatever came before.
GenerateRaises(s, r) ==
    /\ stage[s] = "run" /\ r \in RowsOf(s) /\ work[r].st = "gen"
    /\ work' = [work EXCEPT ![r] = [Idle EXCEPT !.st = "done", !.error = TRUE]]
    /\ UNCHANGED <<stage, out, kills>>

Judge(s, r) ==
    /\ stage[s] = "run" /\ r \in RowsOf(s) /\ work[r].st = "judge"
    /\ \E reply \in Replies :
          work' = [work EXCEPT ![r] =
                      AfterAttempt([@ EXCEPT !.reply = reply, !.judged = work[r].cue.attempt],
                                   ~JudgeLeak(reply))]
    /\ UNCHANGED <<stage, out, kills>>

\* The loop over ex.map: the results come in the order of the rows.
Write(s, r) ==
    /\ stage[s] = "run" /\ r \in RowsOf(s) /\ work[r].st = "done"
    /\ \A q \in RowsOf(s) : q < r => work[q].st = "written"
    /\ out' = [out EXCEPT ![s] = Append(@, [idx |-> r, rec |-> work[r]])]
    /\ work' = [work EXCEPT ![r].st = "written"]
    /\ UNCHANGED <<stage, kills>>

Close(s) ==
    /\ stage[s] = "run" /\ \A r \in RowsOf(s) : work[r].st = "written"
    /\ stage' = [stage EXCEPT ![s] = "done"]
    /\ UNCHANGED <<work, out, kills>>

\* The process is killed; someone will start the shard again.
Kill(s) ==
    /\ stage[s] = "run" /\ kills < MaxKills /\ kills' = kills + 1
    /\ stage' = [stage EXCEPT ![s] = "idle"]
    /\ work' = [r \in Rows |-> IF r \in RowsOf(s) THEN Idle ELSE work[r]]
    /\ UNCHANGED out

Run(s) ==
    \/ Start(s) \/ Close(s)
    \/ \E r \in RowsOf(s) :
          Take(s, r) \/ GenerateCue(s, r) \/ GenerateRaises(s, r) \/ Judge(s, r) \/ Write(s, r)

CueNext == \E s \in Shards : Run(s) \/ Kill(s)

CueSpec == CueInit /\ [][CueNext]_cueVars

\* Fairness: every shard is started and its threads run on.
CueFairSpec == CueSpec /\ \A s \in Shards : WF_cueVars(Run(s))

-----------------------------------------------------------------------------
(* Properties *)

Cue == [attempt : 0..(MaxRetries + 1), flagged : BOOLEAN]
Work == [st : {"queued", "gen", "judge", "done", "written"}, cue : Cue,
         attempts : 0..(MaxRetries + 1), reply : Replies \cup {"none"},
         judged : 0..(MaxRetries + 1), clean : BOOLEAN, error : BOOLEAN]

\* The type of the state.
CueTypeOK ==
    /\ stage \in [Shards -> {"idle", "run", "done"}]
    /\ work \in [Rows -> Work] /\ out \in [Shards -> Seq([idx : Rows, rec : Work])]
    /\ kills \in Nat

\* What the record t of a row says of its cue is justified.
Justified(t) ==
    IF t.clean
    THEN /\ ~t.error /\ ~t.cue.flagged /\ t.cue.attempt > 0
         /\ UseJudge => t.judged = t.cue.attempt /\ t.reply \notin {"LEAK", "raised"}
    ELSE t.error \/ t.attempts = MaxRetries + 1

(* A cue that a line calls clean is the very cue that the rules passed and *)
(* about which the judge, where there is one, was asked and did not say    *)
(* LEAK: verdicts of earlier attempts never count for it, and "failures    *)
(* count as a leak" (gen_visual_cue.py:251). A row goes without a cue only *)
(* when the allowed attempts are used up or a request for a cue raised.    *)
LinesJustified == \A s \in Shards : \A n \in 1..Len(out[s]) : Justified(out[s][n].rec)

(* "Only an explicit SAFE lets the cue through" (gen_visual_cue.py:262): a *)
(* judged line is clean only if the judge's reply on its cue said SAFE. The *)
(* code looks for the word LEAK alone, in the first five tokens.            *)
OnlySafePasses ==
    \A s \in Shards : \A n \in 1..Len(out[s]) :
        LET t == out[s][n].rec IN UseJudge /\ t.clean => t.reply = "SAFE"

(* Whatever fails or is killed, the files of the shards come to hold each  *)
(* row of the table once, in row order. The comment on the sharding says   *)
(* no overlap, no gaps.                                                    *)
NoOverlapNoGaps ==
    <>[](/\ \A s \in Shards : \A a, b \in 1..Len(out[s]) :
                a < b => out[s][a].idx < out[s][b].idx
         /\ \A r \in Rows :
                Cardinality({s \in Shards : \E n \in 1..Len(out[s]) : out[s][n].idx = r}) = 1)
=============================================================================
