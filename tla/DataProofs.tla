----------------------------- MODULE DataProofs -----------------------------
(***************************************************************************)
(* The two jobs that prepare training data.                                *)
(*                                                                         *)
(* CueGen, for any number of rows, shards, threads, retries and kills: the *)
(* records that it writes are justified, and a shard's file holds the rows *)
(* of the shard in order, all of them once the shard has ended.            *)
(*                                                                         *)
(* PassRate, for any pool, limit, seeds, samples, threads and deaths: a    *)
(* seed's file has no row twice, so that counting its lines tells whether  *)
(* it is complete, and the filter keeps exactly the rows it says it keeps. *)
(***************************************************************************)
EXTENDS CueGen, PassRate, FiniteSetTheorems, TLAPS

-----------------------------------------------------------------------------
(* The invariant *)

\* What a thread may rely on when it goes on with a row.
RowOK(t) ==
    /\ t.st = "queued" => t = Idle
    /\ t.st = "gen" => t.attempts <= MaxRetries /\ t.clean = FALSE /\ t.error = FALSE
    /\ t.st = "judge" => /\ t.attempts > 0 /\ t.cue.attempt = t.attempts
                         /\ t.cue.flagged = FALSE /\ t.clean = FALSE /\ t.error = FALSE
    /\ t.st \in {"done", "written"} => Justified(t)

RowInv == \A r \in Rows : RowOK(work[r])

\* A row is written only after all rows of its shard before it.
PrefixInv ==
    \A s \in Shards : \A q, r \in RowsOf(s) :
        r < q /\ work[q].st = "written" => work[r].st = "written"

\* A shard that is not running has its rows all before it or all behind it.
RestInv ==
    \A s \in Shards : \A r \in RowsOf(s) :
        /\ stage[s] = "idle" => work[r].st = "queued"
        /\ stage[s] = "done" => work[r].st = "written"

\* The lines of a shard are those of its rows that are written.
FileInv ==
    \A s \in Shards :
        /\ \A n \in 1..Len(out[s]) :
              /\ out[s][n].idx \in RowsOf(s)
              /\ stage[s] # "idle" => work[out[s][n].idx].st = "written"
        /\ \A r \in RowsOf(s) :
              work[r].st = "written" => \E n \in 1..Len(out[s]) : out[s][n].idx = r

\* The rows come in order.
InOrder ==
    \A s \in Shards : \A a, b \in 1..Len(out[s]) :
        a < b => out[s][a].idx < out[s][b].idx

Inv == CueTypeOK /\ RowInv /\ LinesJustified /\ PrefixInv /\ RestInv /\ FileInv /\ InOrder

-----------------------------------------------------------------------------
(* Lemmas about the operators *)

\* No row belongs to two shards.
LEMMA RowsDisjoint ==
    ASSUME NEW s \in Shards, NEW t \in Shards, s # t,
           NEW r \in RowsOf(s)
    PROVE  r \in Rows /\ r \notin RowsOf(t)
BY DEF RowsOf

\* Every row belongs to a shard.
LEMMA RowsCovered ==
    ASSUME NEW r \in Rows
    PROVE  \E s \in Shards : r \in RowsOf(s)
<1>1. r \in Int /\ NumShards \in Nat /\ NumShards > 0
  BY CueAssumption DEF Rows
<1>2. r % NumShards \in 0..(NumShards - 1)
  BY <1>1
<1> QED
  BY <1>2 DEF RowsOf, Shards

\* The record of a row that waits, or whose request raised.
LEMMA IdleRows ==
    /\ Idle \in Work /\ RowOK(Idle)
    /\ LET raised == [Idle EXCEPT !.st = "done", !.error = TRUE]
       IN  raised \in Work /\ RowOK(raised) /\ raised.st = "done"
<1>1. Idle \in Work /\ Idle.st = "queued"
  BY CueAssumption DEF Idle, NoCue, Work, Cue, Replies
<1>2. RowOK(Idle)
  BY <1>1 DEF RowOK
<1>3. [Idle EXCEPT !.st = "done", !.error = TRUE] \in Work
  BY <1>1 DEF Work
<1>4. RowOK([Idle EXCEPT !.st = "done", !.error = TRUE])
  BY DEF RowOK, Idle, Justified
<1> QED
  BY <1>1, <1>2, <1>3, <1>4 DEF Idle

\* A thread that takes a row finds nothing in its variables.
LEMMA TakenRow ==
    ASSUME NEW t \in Work, t.st = "queued", RowOK(t)
    PROVE  [t EXCEPT !.st = "gen"] \in Work /\ RowOK([t EXCEPT !.st = "gen"])
BY CueAssumption DEF RowOK, Work, Idle

\* A row's record stays as it is when its line is written.
LEMMA WrittenRow ==
    ASSUME NEW t \in Work, t.st = "done", RowOK(t)
    PROVE  /\ [t EXCEPT !.st = "written"] \in Work /\ RowOK([t EXCEPT !.st = "written"])
           /\ Justified(t)
BY CueAssumption DEF RowOK, Work, Justified

\* A new cue is numbered by its attempt, within the limit, and unjudged.
LEMMA DrawnRow ==
    ASSUME NEW t \in Work, t.st = "gen", RowOK(t), NEW flagged \in BOOLEAN
    PROVE  LET d == Drawn(t, flagged)
           IN  /\ d \in Work /\ d.st = "gen" /\ d.attempts > 0 /\ d.cue.attempt = d.attempts
               /\ d.cue.flagged = flagged /\ d.clean = FALSE /\ d.error = FALSE
<1>1. t.attempts \in 0..MaxRetries /\ t.clean = FALSE /\ t.error = FALSE
  BY CueAssumption DEF RowOK, Work
<1>2. [attempt |-> t.attempts + 1, flagged |-> flagged] \in Cue
  BY <1>1, CueAssumption DEF Cue
<1> DEFINE c == [attempt |-> t.attempts + 1, flagged |-> flagged]
           d == [t EXCEPT !.attempts = t.attempts + 1, !.cue = c,
                          !.reply = "none", !.judged = 0]
<1>3. Drawn(t, flagged) = d
  BY DEF Drawn
<1>4. c.attempt = t.attempts + 1 /\ c.flagged = flagged
  OBVIOUS
<1>5. t.attempts + 1 \in 0..(MaxRetries + 1) /\ 0 \in 0..(MaxRetries + 1) /\ t.attempts + 1 > 0
  BY <1>1, CueAssumption
<1> HIDE DEF c
<1>6. c \in Cue
  BY <1>2 DEF c
<1>7. d \in Work
  BY <1>5, <1>6 DEF Work
<1>8. /\ d.st = "gen" /\ d.attempts = t.attempts + 1 /\ d.cue = c
      /\ d.clean = FALSE /\ d.error = FALSE
  BY <1>1 DEF Work
<1> QED
  BY <1>3, <1>4, <1>5, <1>7, <1>8

\* The head of the retry loop gives up only at the limit, and passes only a
\* cue that has passed.
LEMMA AttemptedRow ==
    ASSUME NEW t \in Work, NEW ok \in BOOLEAN, t.clean = FALSE, t.error = FALSE,
           ok => t.cue.flagged = FALSE /\ t.cue.attempt > 0,
           ok /\ UseJudge => t.judged = t.cue.attempt /\ t.reply \in {"SAFE", "neither"}
    PROVE  LET a == AfterAttempt(t, ok)
           IN  a \in Work /\ RowOK(a) /\ a.st \in {"gen", "done"}
<1>1. CASE ok
  <2>1. AfterAttempt(t, ok) = [t EXCEPT !.st = "done", !.clean = TRUE]
    BY <1>1 DEF AfterAttempt
  <2>2. [t EXCEPT !.st = "done", !.clean = TRUE] \in Work
    BY DEF Work
  <2> QED
    BY <1>1, <2>1, <2>2 DEF RowOK, Justified, Work
<1>2. CASE ~ok /\ t.attempts <= MaxRetries
  <2>1. AfterAttempt(t, ok) = [t EXCEPT !.st = "gen"]
    BY <1>2 DEF AfterAttempt
  <2> QED
    BY <1>2, <2>1 DEF RowOK, Work
<1>3. CASE ~ok /\ ~(t.attempts <= MaxRetries)
  <2>1. AfterAttempt(t, ok) = [t EXCEPT !.st = "done"]
    BY <1>3 DEF AfterAttempt
  <2>2. t.attempts = MaxRetries + 1
    BY <1>3, CueAssumption DEF Work
  <2> QED
    BY <1>3, <2>1, <2>2 DEF RowOK, Justified, Work
<1> QED
  BY <1>1, <1>2, <1>3

-----------------------------------------------------------------------------
(* The steps *)

LEMMA InitInv == CueInit => Inv
<1> SUFFICES ASSUME CueInit PROVE Inv
  OBVIOUS
<1> USE DEF CueInit
<1>1. CueTypeOK
  BY IdleRows, CueAssumption DEF CueTypeOK
<1>2. RowInv
  BY IdleRows DEF RowInv
<1>3. \A s \in Shards : out[s] = <<>> /\ stage[s] = "idle"
  OBVIOUS
<1>4. \A s \in Shards : \A r \in RowsOf(s) : work[r].st = "queued"
  BY DEF RowsOf, Idle
<1> QED
  BY <1>1, <1>2, <1>3, <1>4 DEF Inv, LinesJustified, PrefixInv, RestInv, FileInv, InOrder

\* A step of a running shard that brings one row to t and writes nothing.
LEMMA RowStep ==
    ASSUME Inv, NEW s \in Shards, NEW r \in RowsOf(s), NEW t \in Work,
           stage[s] = "run", work[r].st # "written",
           RowOK(t), t.st # "written",
           work' = [work EXCEPT ![r] = t], UNCHANGED <<stage, out, kills>>
    PROVE  Inv'
<1> USE DEF Inv
<1>1. r \in Rows
  BY DEF RowsOf
<1>2. CueTypeOK'
  BY <1>1 DEF CueTypeOK
<1>3. RowInv'
  BY <1>1 DEF CueTypeOK, RowInv
<1>4. LinesJustified' /\ InOrder'
  BY DEF LinesJustified, InOrder
<1>5. \A q \in Rows : (work'[q].st = "written") <=> (work[q].st = "written")
  BY <1>1 DEF CueTypeOK
<1>6. \A u \in Shards : \A q \in RowsOf(u) : q \in Rows
  BY DEF RowsOf
<1>7. PrefixInv'
  BY <1>5, <1>6 DEF PrefixInv
<1>8. FileInv'
  BY <1>5, <1>6 DEF FileInv
<1>9. RestInv'
  <2> SUFFICES ASSUME NEW u \in Shards, NEW q \in RowsOf(u)
               PROVE  /\ stage[u] = "idle" => work'[q].st = "queued"
                      /\ stage[u] = "done" => work'[q].st = "written"
    BY DEF RestInv
  <2>1. CASE u = s
    BY <2>1
  <2>2. CASE u # s
    BY <2>2, <1>1, <1>6, RowsDisjoint DEF RestInv, CueTypeOK
  <2> QED
    BY <2>1, <2>2
<1> QED
  BY <1>2, <1>3, <1>4, <1>7, <1>8, <1>9

LEMMA TakeInv ==
    ASSUME Inv, NEW s \in Shards, NEW r \in RowsOf(s), Take(s, r) PROVE Inv'
<1> DEFINE t == [work[r] EXCEPT !.st = "gen"]
<1>1. r \in Rows /\ work[r] \in Work /\ RowOK(work[r]) /\ work[r].st = "queued"
  BY DEF Inv, RowsOf, CueTypeOK, RowInv, Take
<1>2. t \in Work /\ RowOK(t)
  BY <1>1, TakenRow
<1>3. t.st = "gen" /\ work' = [work EXCEPT ![r] = t]
  BY <1>1 DEF Take, Work, Inv, CueTypeOK
<1> QED
  BY <1>1, <1>2, <1>3, RowStep DEF Take

LEMMA GenerateInv ==
    ASSUME Inv, NEW s \in Shards, NEW r \in RowsOf(s), GenerateCue(s, r) PROVE Inv'
<1>1. r \in Rows /\ work[r] \in Work /\ RowOK(work[r]) /\ work[r].st = "gen"
  BY DEF Inv, RowsOf, CueTypeOK, RowInv, GenerateCue
<1>2. PICK flagged \in BOOLEAN :
        work' = [work EXCEPT ![r] =
                    IF ~flagged /\ UseJudge
                    THEN [Drawn(work[r], flagged) EXCEPT !.st = "judge"]
                    ELSE AfterAttempt(Drawn(work[r], flagged), ~flagged)]
  BY <1>1 DEF GenerateCue, Inv, CueTypeOK
<1> DEFINE d == Drawn(work[r], flagged)
<1>3. /\ d \in Work /\ d.st = "gen" /\ d.attempts > 0 /\ d.cue.attempt = d.attempts
      /\ d.cue.flagged = flagged /\ d.clean = FALSE /\ d.error = FALSE
  BY <1>1, DrawnRow
<1> HIDE DEF d
<1>4. CASE ~flagged /\ UseJudge
  <2> DEFINE t == [d EXCEPT !.st = "judge"]
  <2>1. t \in Work /\ RowOK(t) /\ t.st = "judge"
    BY <1>3, <1>4 DEF Work, RowOK
  <2>2. work' = [work EXCEPT ![r] = t]
    BY <1>2, <1>4 DEF d
  <2> QED
    BY <1>1, <2>1, <2>2, RowStep DEF GenerateCue
<1>5. CASE ~(~flagged /\ UseJudge)
  <2> DEFINE t == AfterAttempt(d, ~flagged)
  <2>1. t \in Work /\ RowOK(t) /\ t.st \in {"gen", "done"}
    BY <1>3, <1>5, AttemptedRow
  <2>2. work' = [work EXCEPT ![r] = t]
    BY <1>2, <1>5 DEF d
  <2> QED
    BY <1>1, <2>1, <2>2, RowStep DEF GenerateCue
<1> QED
  BY <1>4, <1>5

LEMMA GenerateRaisesInv ==
    ASSUME Inv, NEW s \in Shards, NEW r \in RowsOf(s), GenerateRaises(s, r) PROVE Inv'
<1>1. work[r].st = "gen"
  BY DEF GenerateRaises
<1> QED
  BY <1>1, IdleRows, RowStep DEF GenerateRaises

LEMMA JudgeInv ==
    ASSUME Inv, NEW s \in Shards, NEW r \in RowsOf(s), Judge(s, r) PROVE Inv'
<1>1. r \in Rows /\ work[r] \in Work /\ RowOK(work[r]) /\ work[r].st = "judge"
  BY DEF Inv, RowsOf, CueTypeOK, RowInv, Judge
<1>2. PICK reply \in Replies :
        work' = [work EXCEPT ![r] =
                    AfterAttempt([work[r] EXCEPT !.reply = reply, !.judged = work[r].cue.attempt],
                                 ~JudgeLeak(reply))]
  BY <1>1 DEF Judge, Inv, CueTypeOK
<1> DEFINE j == [work[r] EXCEPT !.reply = reply, !.judged = work[r].cue.attempt]
           ok == ~JudgeLeak(reply)
           t == AfterAttempt(j, ok)
<1>3. /\ j \in Work /\ j.clean = FALSE /\ j.error = FALSE
      /\ j.cue.flagged = FALSE /\ j.cue.attempt > 0
      /\ j.judged = j.cue.attempt /\ j.reply = reply
  BY <1>1, CueAssumption DEF Work, Cue, RowOK
<1>4. ok \in BOOLEAN /\ (ok => reply \in {"SAFE", "neither"})
  BY DEF JudgeLeak, Replies
<1>5. t \in Work /\ RowOK(t) /\ t.st \in {"gen", "done"}
  <2> HIDE DEF j, ok
  <2> QED
    BY <1>3, <1>4, AttemptedRow
<1>6. work' = [work EXCEPT ![r] = t]
  BY <1>2
<1> HIDE DEF t
<1> QED
  BY <1>1, <1>5, <1>6, RowStep DEF Judge

\* The new line is the last one, behind those of all rows before it.
LEMMA WriteInv ==
    ASSUME Inv, NEW s \in Shards, NEW r \in RowsOf(s), Write(s, r) PROVE Inv'
<1> DEFINE t == [work[r] EXCEPT !.st = "written"]
           line == [idx |-> r, rec |-> work[r]]
           m == Len(out[s])
<1>1. r \in Rows /\ work[r] \in Work /\ RowOK(work[r]) /\ work[r].st = "done"
  BY DEF Inv, RowsOf, CueTypeOK, RowInv, Write
<1>2. t \in Work /\ RowOK(t) /\ t.st = "written" /\ Justified(work[r])
  BY <1>1, WrittenRow DEF Work
<1>3. /\ work' = [work EXCEPT ![r] = t] /\ UNCHANGED <<stage, kills>>
      /\ out' = [out EXCEPT ![s] = Append(out[s], line)]
  BY <1>1 DEF Write, Inv, CueTypeOK
<1>4. line \in [idx : Rows, rec : Work] /\ line.idx = r /\ line.rec = work[r]
  BY <1>1
<1> HIDE DEF t, line
<1>5. out \in [Shards -> Seq([idx : Rows, rec : Work])] /\ work \in [Rows -> Work]
  BY DEF Inv, CueTypeOK
<1>6. /\ Len(out'[s]) = m + 1 /\ m \in Nat /\ out'[s][m + 1] = line
      /\ \A n \in 1..m : out'[s][n] = out[s][n]
  BY <1>3, <1>4, <1>5
<1>7. \A u \in Shards : u # s => out'[u] = out[u]
  BY <1>3, <1>5
<1>8. work'[r].st = "written" /\ \A q \in Rows : q # r => work'[q] = work[q]
  BY <1>1, <1>2, <1>3, <1>5
<1>9. \A u \in Shards : u # s => \A q \in RowsOf(u) : q \in Rows /\ q # r
  BY RowsDisjoint
<1>10. CueTypeOK'
  <2>1. Append(out[s], line) \in Seq([idx : Rows, rec : Work])
    <3> DEFINE L == [idx : Rows, rec : Work]
    <3>1. out[s] \in Seq(L) /\ line \in L
      BY <1>4, <1>5
    <3> HIDE DEF L
    <3> QED
      BY <3>1 DEF L
  <2>2. out' \in [Shards -> Seq([idx : Rows, rec : Work])]
    BY <2>1, <1>3, <1>5
  <2>3. work' \in [Rows -> Work]
    BY <1>1, <1>2, <1>3, <1>5
  <2> QED
    BY <2>2, <2>3, <1>3 DEF Inv, CueTypeOK
<1>11. RowInv'
  BY <1>1, <1>2, <1>3, <1>5 DEF Inv, RowInv
<1>12. LinesJustified'
  <2> SUFFICES ASSUME NEW u \in Shards, NEW n \in 1..Len(out'[u])
               PROVE  Justified(out'[u][n].rec)
    BY DEF LinesJustified
  <2>1. CASE u # s
    BY <2>1, <1>7 DEF Inv, LinesJustified
  <2>2. CASE u = s /\ n \in 1..m
    BY <2>2, <1>6 DEF Inv, LinesJustified
  <2>3. CASE u = s /\ n = m + 1
    BY <2>3, <1>2, <1>4, <1>6
  <2> QED
    BY <2>1, <2>2, <2>3, <1>6
<1>13. PrefixInv'
  <2> SUFFICES ASSUME NEW u \in Shards, NEW q \in RowsOf(u), NEW p \in RowsOf(u),
                      p < q, work'[q].st = "written"
               PROVE  work'[p].st = "written"
    BY DEF PrefixInv
  <2>1. p \in Rows /\ q \in Rows
    BY DEF RowsOf
  <2>2. CASE q = r
    <3>1. u = s
      BY <2>2, <1>9
    <3>2. work[p].st = "written"
      BY <2>2, <3>1 DEF Write
    <3> QED
      BY <3>2, <2>1, <1>8
  <2>3. CASE q # r
    <3>1. work[p].st = "written"
      BY <2>3, <2>1, <1>8 DEF Inv, PrefixInv
    <3> QED
      BY <3>1, <2>1, <1>8
  <2> QED
    BY <2>2, <2>3
<1>14. RestInv'
  <2> SUFFICES ASSUME NEW u \in Shards, NEW q \in RowsOf(u)
               PROVE  /\ stage[u] = "idle" => work'[q].st = "queued"
                      /\ stage[u] = "done" => work'[q].st = "written"
    BY <1>3 DEF RestInv
  <2>1. CASE u = s
    BY <2>1 DEF Write
  <2>2. CASE u # s
    BY <2>2, <1>8, <1>9 DEF Inv, RestInv
  <2> QED
    BY <2>1, <2>2
<1>15. FileInv'
  <2> SUFFICES ASSUME NEW u \in Shards
               PROVE  /\ \A n \in 1..Len(out'[u]) :
                            /\ out'[u][n].idx \in RowsOf(u)
                            /\ stage[u] # "idle" => work'[out'[u][n].idx].st = "written"
                      /\ \A q \in RowsOf(u) :
                            work'[q].st = "written" =>
                                \E n \in 1..Len(out'[u]) : out'[u][n].idx = q
    BY <1>3 DEF FileInv
  <2>1. CASE u # s
    BY <2>1, <1>7, <1>8, <1>9 DEF Inv, FileInv
  <2>2. CASE u = s
    <3>1. ASSUME NEW n \in 1..Len(out'[s])
          PROVE  /\ out'[s][n].idx \in RowsOf(s)
                 /\ stage[s] # "idle" => work'[out'[s][n].idx].st = "written"
      <4>1. CASE n = m + 1
        BY <4>1, <1>4, <1>6, <1>8
      <4>2. CASE n \in 1..m
        <5>1. out'[s][n] = out[s][n]
          BY <4>2, <1>6
        <5>2. /\ out[s][n].idx \in RowsOf(s)
              /\ stage[s] # "idle" => work[out[s][n].idx].st = "written"
          BY <4>2 DEF Inv, FileInv
        <5>3. out[s][n].idx \in Rows
          BY <5>2 DEF RowsOf
        <5> QED
          BY <5>1, <5>2, <5>3, <1>8
      <4> QED
        BY <4>1, <4>2, <1>6
    <3>2. ASSUME NEW q \in RowsOf(s), work'[q].st = "written"
          PROVE  \E n \in 1..Len(out'[s]) : out'[s][n].idx = q
      <4>1. CASE q = r
        <5>1. m + 1 \in 1..Len(out'[s]) /\ out'[s][m + 1].idx = q
          BY <4>1, <1>4, <1>6
        <5> QED
          BY <5>1
      <4>2. CASE q # r
        <5>1. q \in Rows /\ work[q].st = "written"
          BY <3>2, <4>2, <1>8 DEF RowsOf
        <5>2. PICK n \in 1..m : out[s][n].idx = q
          BY <5>1 DEF Inv, FileInv
        <5>3. n \in 1..Len(out'[s]) /\ out'[s][n].idx = q
          BY <5>2, <1>6
        <5> QED
          BY <5>3
      <4> QED
        BY <4>1, <4>2
    <3> QED
      BY <2>2, <3>1, <3>2
  <2> QED
    BY <2>1, <2>2
<1>16. InOrder'
  <2> SUFFICES ASSUME NEW u \in Shards, NEW a \in 1..Len(out'[u]), NEW b \in 1..Len(out'[u]),
                      a < b
               PROVE  out'[u][a].idx < out'[u][b].idx
    BY DEF InOrder
  <2>1. CASE u # s
    BY <2>1, <1>7 DEF Inv, InOrder
  <2>2. CASE u = s /\ b \in 1..m
    <3>1. a \in 1..m
      BY <2>2, <1>6
    <3> QED
      BY <2>2, <3>1, <1>6 DEF Inv, InOrder
  <2>3. CASE u = s /\ b = m + 1
    <3>1. a \in 1..m
      BY <2>3, <1>6
    <3>2. /\ out[s][a].idx \in RowsOf(s) /\ work[out[s][a].idx].st = "written"
      BY <3>1 DEF Inv, FileInv, Write
    <3>3. out[s][a].idx \in Int /\ r \in Int /\ out[s][a].idx # r
      BY <3>2, <1>1 DEF RowsOf, Rows
    <3>4. ~(r < out[s][a].idx)
      BY <3>2, <1>1 DEF Inv, PrefixInv
    <3>5. out[s][a].idx < r
      BY <3>3, <3>4
    <3> QED
      BY <3>1, <3>5, <2>3, <1>4, <1>6
  <2> QED
    BY <2>1, <2>2, <2>3, <1>6
<1> QED
  BY <1>10, <1>11, <1>12, <1>13, <1>14, <1>15, <1>16 DEF Inv

\* A started shard has an empty file and rows that all wait.
LEMMA StartInv == ASSUME Inv, NEW s \in Shards, Start(s) PROVE Inv'
<1>1. /\ stage[s] = "idle" /\ stage' = [stage EXCEPT ![s] = "run"] /\ out' = [out EXCEPT ![s] = <<>>]
      /\ work' = work /\ kills' = kills
  BY DEF Start
<1>2. CueTypeOK'
  <2>1. out' \in [Shards -> Seq([idx : Rows, rec : Work])]
    <3>1. <<>> \in Seq([idx : Rows, rec : Work])
      OBVIOUS
    <3> QED
      BY <1>1, <3>1 DEF Inv, CueTypeOK
  <2>2. stage' \in [Shards -> {"idle", "run", "done"}]
    BY <1>1 DEF Inv, CueTypeOK
  <2> QED
    BY <1>1, <2>1, <2>2 DEF Inv, CueTypeOK
<1>3. out'[s] = <<>> /\ stage'[s] = "run"
      /\ \A u \in Shards : u # s => out'[u] = out[u] /\ stage'[u] = stage[u]
  BY <1>1 DEF Inv, CueTypeOK
<1>4. \A r \in RowsOf(s) : work[r].st = "queued"
  BY <1>1 DEF Inv, RestInv
<1>5. RowInv' /\ PrefixInv'
  BY <1>1 DEF Inv, RowInv, PrefixInv
<1>6. LinesJustified' /\ InOrder'
  BY <1>3 DEF Inv, LinesJustified, InOrder
<1>7. RestInv'
  BY <1>1, <1>3 DEF Inv, RestInv
<1>8. FileInv'
  <2> SUFFICES ASSUME NEW u \in Shards
               PROVE  /\ \A n \in 1..Len(out'[u]) :
                            /\ out'[u][n].idx \in RowsOf(u)
                            /\ stage'[u] # "idle" => work[out'[u][n].idx].st = "written"
                      /\ \A q \in RowsOf(u) :
                            work[q].st = "written" =>
                                \E n \in 1..Len(out'[u]) : out'[u][n].idx = q
    BY <1>1 DEF FileInv
  <2>1. CASE u = s
    BY <2>1, <1>3, <1>4
  <2>2. CASE u # s
    BY <2>2, <1>3 DEF Inv, FileInv
  <2> QED
    BY <2>1, <2>2
<1> QED
  BY <1>2, <1>5, <1>6, <1>7, <1>8 DEF Inv

LEMMA CloseInv == ASSUME Inv, NEW s \in Shards, Close(s) PROVE Inv'
<1>1. /\ stage[s] = "run" /\ stage' = [stage EXCEPT ![s] = "done"]
      /\ work' = work /\ out' = out /\ kills' = kills
      /\ \A r \in RowsOf(s) : work[r].st = "written"
  BY DEF Close
<1>2. CueTypeOK'
  BY <1>1 DEF Inv, CueTypeOK
<1>3. stage'[s] = "done" /\ \A u \in Shards : u # s => stage'[u] = stage[u]
  BY <1>1 DEF Inv, CueTypeOK
<1>4. RowInv' /\ PrefixInv' /\ LinesJustified' /\ InOrder'
  BY <1>1 DEF Inv, RowInv, PrefixInv, LinesJustified, InOrder
<1>5. RestInv'
  BY <1>1, <1>3 DEF Inv, RestInv
<1>6. FileInv'
  BY <1>1, <1>3 DEF Inv, FileInv
<1> QED
  BY <1>2, <1>4, <1>5, <1>6 DEF Inv

\* A killed shard leaves its file and forgets its rows.
LEMMA KillInv == ASSUME Inv, NEW s \in Shards, Kill(s) PROVE Inv'
<1>1. /\ stage[s] = "run" /\ stage' = [stage EXCEPT ![s] = "idle"] /\ out' = out /\ kills' = kills + 1
      /\ work' = [r \in Rows |-> IF r \in RowsOf(s) THEN Idle ELSE work[r]]
  BY DEF Kill
<1>2. CueTypeOK'
  <2>1. work' \in [Rows -> Work]
    BY <1>1, IdleRows DEF Inv, CueTypeOK
  <2>2. stage' \in [Shards -> {"idle", "run", "done"}]
    BY <1>1 DEF Inv, CueTypeOK
  <2>3. out' \in [Shards -> Seq([idx : Rows, rec : Work])]
    BY <1>1 DEF Inv, CueTypeOK
  <2>4. kills' \in Nat
    BY <1>1 DEF Inv, CueTypeOK
  <2> QED
    BY <2>1, <2>2, <2>3, <2>4 DEF CueTypeOK
<1>3. stage'[s] = "idle" /\ \A u \in Shards : u # s => stage'[u] = stage[u]
  BY <1>1 DEF Inv, CueTypeOK
<1>4. \A r \in RowsOf(s) : work'[r] = Idle /\ work'[r].st = "queued"
  BY <1>1 DEF RowsOf, Idle
<1>5. \A u \in Shards : u # s => \A r \in RowsOf(u) : work'[r] = work[r]
  BY <1>1, RowsDisjoint
<1>6. RowInv'
  BY <1>1, IdleRows DEF Inv, RowInv
<1>7. LinesJustified' /\ InOrder'
  BY <1>1 DEF Inv, LinesJustified, InOrder
<1>8. PrefixInv'
  BY <1>4, <1>5 DEF Inv, PrefixInv
<1>9. RestInv'
  BY <1>3, <1>4, <1>5 DEF Inv, RestInv
<1>10. FileInv'
  <2> SUFFICES ASSUME NEW u \in Shards
               PROVE  /\ \A n \in 1..Len(out[u]) :
                            /\ out[u][n].idx \in RowsOf(u)
                            /\ stage'[u] # "idle" => work'[out[u][n].idx].st = "written"
                      /\ \A q \in RowsOf(u) :
                            work'[q].st = "written" =>
                                \E n \in 1..Len(out[u]) : out[u][n].idx = q
    <3>1. out' = out
      BY <1>1
    <3> QED
      BY <3>1 DEF FileInv
  <2>1. CASE u = s
    BY <2>1, <1>3, <1>4 DEF Inv, FileInv
  <2>2. CASE u # s
    BY <2>2, <1>3, <1>5 DEF Inv, FileInv
  <2> QED
    BY <2>1, <2>2
<1> QED
  BY <1>2, <1>6, <1>7, <1>8, <1>9, <1>10 DEF Inv

-----------------------------------------------------------------------------
(* The theorems *)

\* Inv is inductive: every step of work(idx), of the loop over ex.map and of
\* the operator keeps it.
THEOREM Invariance == CueSpec => []Inv
<1>1. Inv /\ [CueNext]_cueVars => Inv'
  <2> SUFFICES ASSUME Inv, [CueNext]_cueVars PROVE Inv'
    OBVIOUS
  <2>1. CASE UNCHANGED cueVars
    <3>1. stage' = stage /\ work' = work /\ out' = out /\ kills' = kills
      BY <2>1 DEF cueVars
    <3>2. CueTypeOK' /\ RowInv' /\ LinesJustified'
      BY <3>1 DEF Inv, CueTypeOK, RowInv, LinesJustified
    <3>3. PrefixInv' /\ RestInv' /\ InOrder'
      BY <3>1 DEF Inv, PrefixInv, RestInv, InOrder
    <3>4. FileInv'
      BY <3>1 DEF Inv, FileInv
    <3> QED
      BY <3>2, <3>3, <3>4 DEF Inv
  <2>2. ASSUME NEW s \in Shards, Run(s) PROVE Inv'
    BY <2>2, StartInv, CloseInv, TakeInv, GenerateInv, GenerateRaisesInv, JudgeInv, WriteInv
       DEF Run
  <2>3. ASSUME NEW s \in Shards, Kill(s) PROVE Inv'
    BY <2>3, KillInv
  <2> QED
    BY <2>1, <2>2, <2>3 DEF CueNext
<1> QED
  BY InitInv, <1>1, PTL DEF CueSpec

\* The state of threads and files is well formed in every run of
\* gen_visual_cue.py.
THEOREM TypeCorrect == CueSpec => []CueTypeOK
<1>1. Inv => CueTypeOK
  BY DEF Inv
<1> QED
  BY <1>1, Invariance, PTL

\* No line calls a cue clean that was not screened as it stands, or gives up
\* a row too early, in work(idx) of gen_visual_cue.py.
THEOREM LinesAreJustified == CueSpec => []LinesJustified
<1>1. Inv => LinesJustified
  BY DEF Inv
<1> QED
  BY <1>1, Invariance, PTL

\* The safety part of NoOverlapNoGaps: at all times a shard's file holds rows
\* of that shard only, in row order, so no row has two lines anywhere; and when
\* all shards have ended, every row of the table has a line.
FilesPartition ==
    /\ InOrder
    /\ \A s, u \in Shards : \A a \in 1..Len(out[s]), b \in 1..Len(out[u]) :
          out[s][a].idx = out[u][b].idx => s = u /\ a = b
    /\ (\A s \in Shards : stage[s] = "done") =>
          \A r \in Rows : \E s \in Shards : \E n \in 1..Len(out[s]) : out[s][n].idx = r

\* The sharding of gen_visual_cue.py has no overlap and, once every shard has
\* ended, no gap.
THEOREM ShardsPartition == CueSpec => []FilesPartition
<1>1. Inv => FilesPartition
  <2> SUFFICES ASSUME Inv PROVE FilesPartition
    OBVIOUS
  <2>1. InOrder
    BY DEF Inv
  <2>2. ASSUME NEW s \in Shards, NEW u \in Shards,
               NEW a \in 1..Len(out[s]), NEW b \in 1..Len(out[u]),
               out[s][a].idx = out[u][b].idx
        PROVE  s = u /\ a = b
    <3>1. out[s][a].idx \in RowsOf(s) /\ out[u][b].idx \in RowsOf(u)
      BY DEF Inv, FileInv
    <3>2. s = u
      BY <2>2, <3>1, RowsDisjoint
    <3>3. out[s][a].idx \in Int
      BY <3>1 DEF RowsOf, Rows
    <3>4. ~(a < b) /\ ~(b < a)
      BY <2>1, <2>2, <3>2, <3>3 DEF InOrder
    <3> QED
      BY <3>2, <3>4
  <2>3. ASSUME \A s \in Shards : stage[s] = "done", NEW r \in Rows
        PROVE  \E s \in Shards : \E n \in 1..Len(out[s]) : out[s][n].idx = r
    <3>1. PICK s \in Shards : r \in RowsOf(s)
      BY RowsCovered
    <3>2. \E n \in 1..Len(out[s]) : out[s][n].idx = r
      BY <2>3, <3>1 DEF Inv, RestInv, FileInv
    <3> QED
      BY <3>2
  <2> QED
    BY <2>1, <2>2, <2>3 DEF FilesPartition
<1> QED
  BY <1>1, Invariance, PTL

-----------------------------------------------------------------------------
(* PassRate *)

Line == Record \cup {Torn}

\* The idxs of the lines that parse.
Parsed(l) == {l[p].idx : p \in {q \in 1..Len(l) : l[q] # Torn}}

\* The lines of a file: no row of the run has two that parse, and a line
\* that parses is about the row that the seed has drawn for its idx.
Sound(l, k) ==
    /\ \A p, q \in 1..Len(l) :
          l[p] # Torn /\ l[q] # Torn /\ l[p].idx = l[q].idx => p = q
    /\ \A p \in 1..Len(l) : l[p] # Torn => l[p].row = Sampled[k][l[p].idx]

FilesSound == \A r \in Roles, k \in Seeds : Sound(Lines(r, k), k)

\* A run asks only for rows that its file does not hold, and keeps the answers
\* with the rows they are about.
FreshRun(r) ==
    chain[r] = "run" =>
        /\ seed[r] \in Seeds
        /\ todo[r] \cap Parsed(Lines(r, seed[r])) = {}
        /\ \A line \in answered[r] : line.row = Sampled[seed[r]][line.idx]

RunsFresh == \A r \in Roles : FreshRun(r)

\* The filter comes after the chains.
FilterLast == verdict # "none" => \A r \in Roles : chain[r] = "ended"

RateInv == PassTypeOK /\ FilesSound /\ RunsFresh /\ FilterLast /\ KeptExactly

\* The sample is not empty, and the whole pool when the limit allows it.
LEMMA SampleSize ==
  /\ NumIdx \in Nat \ {0}
  /\ Pool <= Limit => NumIdx = Pool
  /\ NumIdx <= Limit
  BY SizeAssumption DEF NumIdx

\* What run reads back of a file.
LEMMA DoneParsed ==
  ASSUME NEW r, NEW k
  PROVE  DoneIdxs(r, k) = Parsed(Lines(r, k))
  BY DEF DoneIdxs, LineSet, Parsed

\* A line in a file without an unterminated one.
LEMMA Terminated ==
  ASSUME NEW f \in Seq(Line), NEW x \in Line
  PROVE  Append(f, x) \o <<>> = f \o <<x>>
  <1>1. Append(f, x) \in Seq(Line) /\ f \o <<x>> \in Seq(Line)
    OBVIOUS
  <1>2. Append(f, x) = f \o <<x>>
    OBVIOUS
  <1>3. Append(f, x) \o <<>> = Append(f, x)
    BY <1>1
  <1> QED BY <1>2, <1>3

\* Writing line x behind the lines f, in place of an unterminated t.
LEMMA AddLine ==
  ASSUME NEW f \in Seq(Line), NEW t \in Seq(Line), NEW x \in Line, NEW k,
         Sound(f \o t, k),
         x # Torn => x.row = Sampled[k][x.idx] /\ x.idx \notin Parsed(f \o t)
  PROVE  /\ Sound(f \o <<x>>, k)
         /\ \A i \in Parsed(f \o <<x>>) : i \in Parsed(f \o t) \/ (x # Torn /\ i = x.idx)
  <1> DEFINE g == f \o <<x>>
             h == f \o t
  <1>1. /\ Len(g) = Len(f) + 1 /\ Len(f) \in Nat /\ Len(h) = Len(f) + Len(t) /\ Len(t) \in Nat
        /\ g[Len(f) + 1] = x
        /\ \A p \in 1..Len(f) : g[p] = f[p] /\ h[p] = f[p]
    OBVIOUS
  <1> HIDE DEF g, h
  <1>2. \A p \in 1..Len(g) : p \in 1..Len(f) \/ p = Len(f) + 1
    BY <1>1
  <1>3. \A p \in 1..Len(f) : p \in 1..Len(h) /\ p \in 1..Len(g) /\ g[p] = h[p]
    BY <1>1
  <1>4. \A p \in 1..Len(f) : g[p] # Torn => g[p].idx \in Parsed(h)
    BY <1>3 DEF Parsed
  <1>5. x # Torn => x.row = Sampled[k][x.idx] /\ x.idx \notin Parsed(h)
    BY DEF h
  <1>6. Sound(h, k)
    BY DEF h
  <1>7. ASSUME NEW p \in 1..Len(g), NEW q \in 1..Len(g), g[p] # Torn, g[q] # Torn,
               g[p].idx = g[q].idx
        PROVE  p = q
    <2>1. CASE p \in 1..Len(f) /\ q \in 1..Len(f)
      BY <1>3, <1>6, <1>7, <2>1 DEF Sound
    <2>2. CASE p \in 1..Len(f) /\ q = Len(f) + 1
      BY <1>1, <1>4, <1>5, <1>7, <2>2
    <2>3. CASE p = Len(f) + 1 /\ q \in 1..Len(f)
      BY <1>1, <1>4, <1>5, <1>7, <2>3
    <2> QED BY <1>2, <2>1, <2>2, <2>3
  <1>8. ASSUME NEW p \in 1..Len(g), g[p] # Torn
        PROVE  g[p].row = Sampled[k][g[p].idx]
    <2>1. CASE p \in 1..Len(f)
      BY <1>3, <1>6, <1>8, <2>1 DEF Sound
    <2>2. CASE p = Len(f) + 1
      BY <1>1, <1>5, <1>8, <2>2
    <2> QED BY <1>2, <2>1, <2>2
  <1>9. Sound(g, k)
    BY <1>7, <1>8 DEF Sound
  <1>10. ASSUME NEW i \in Parsed(g)
         PROVE  i \in Parsed(h) \/ (x # Torn /\ i = x.idx)
    <2>1. PICK p \in 1..Len(g) : g[p] # Torn /\ i = g[p].idx
      BY DEF Parsed
    <2> QED BY <1>1, <1>2, <1>4, <2>1
  <1> QED BY <1>9, <1>10 DEF g, h

\* Before the first launch there are no files.
LEMMA RateStarts ==
  ASSUME PassInit
  PROVE  RateInv
  <1>1. PassTypeOK
    <2>1. 1 \in 1..(NumSeeds + 1) /\ 0 \in 0..MaxFaults
      BY SizeAssumption
    <2>2. <<>> \in Seq(Record \cup {Torn})
      OBVIOUS
    <2> QED BY <2>1, <2>2 DEF PassInit, PassTypeOK
  <1>2. FilesSound
    <2>1. \A k : Sound(<<>>, k)
      BY DEF Sound
    <2>2. \A r \in Roles, k \in Seeds : Lines(r, k) = <<>>
      BY DEF PassInit, Lines
    <2> QED BY <2>1, <2>2 DEF FilesSound
  <1>3. RunsFresh
    BY DEF PassInit, RunsFresh, FreshRun
  <1>4. FilterLast /\ KeptExactly
    BY DEF PassInit, FilterLast, KeptExactly
  <1> QED BY <1>1, <1>2, <1>3, <1>4 DEF RateInv

\* Nothing but the filter happens to the pool, and nothing once it has run.
LEMMA Unfiltered ==
  ASSUME RateInv, NEW r \in Roles, Job(r) \/ Die(r) \/ Relaunch(r)
  PROVE  /\ verdict = "none" /\ verdict' = verdict /\ kept' = kept
         /\ FilterLast' /\ KeptExactly'
  <1>1. verdict' = verdict /\ kept' = kept
    BY DEF Job, Skip, StartRun, ChainEnds, Answer, WriteLine, RunEnds, Die, Relaunch
  <1>2. chain[r] # "ended" \/ verdict = "none"
    BY DEF Job, Skip, StartRun, ChainEnds, Answer, WriteLine, RunEnds, Die, Relaunch
  <1>3. verdict = "none"
    BY <1>2 DEF RateInv, FilterLast
  <1> QED BY <1>1, <1>3 DEF FilterLast, KeptExactly

\* A step that leaves the files alone.
LEMMA SameFiles ==
  ASSUME RateInv, UNCHANGED <<file, tail>>
  PROVE  /\ FilesSound'
         /\ \A r, k : Lines(r, k)' = Lines(r, k)
  <1>1. \A r, k : Lines(r, k)' = Lines(r, k)
    BY DEF Lines
  <1> QED BY <1>1 DEF RateInv, FilesSound

\* A step leaves the run of a role that it does not touch as it is.
LEMMA OtherRun ==
  ASSUME RateInv, NEW q \in Roles,
         chain'[q] = chain[q], seed'[q] = seed[q], todo'[q] = todo[q],
         answered'[q] = answered[q], file'[q] = file[q], tail'[q] = tail[q]
  PROVE  FreshRun(q)'
  <1>1. \A k : Lines(q, k)' = Lines(q, k)
    BY DEF Lines
  <1>2. FreshRun(q)
    BY DEF RateInv, RunsFresh
  <1> QED BY <1>1, <1>2 DEF FreshRun

\* The chain passes over a seed, starts its run, ends, is started again.
LEMMA SkipRate ==
  ASSUME RateInv, NEW r \in Roles, Skip(r)
  PROVE  RateInv'
  <1>1. PassTypeOK'
    <2>1. seed[r] + 1 \in 1..(NumSeeds + 1)
      BY SizeAssumption DEF Skip, Seeds
    <2> QED BY <2>1 DEF RateInv, PassTypeOK, Skip
  <1>2. FilesSound'
    BY SameFiles DEF Skip
  <1>3. \A q \in Roles : q # r => FreshRun(q)'
    BY OtherRun DEF Skip, RateInv, PassTypeOK
  <1>4. FreshRun(r)'
    BY DEF Skip, FreshRun
  <1>5. FilterLast' /\ KeptExactly'
    BY Unfiltered DEF Job
  <1> QED BY <1>1, <1>2, <1>3, <1>4, <1>5 DEF RateInv, RunsFresh

LEMMA StartRate ==
  ASSUME RateInv, NEW r \in Roles, StartRun(r)
  PROVE  RateInv'
  <1>1. PassTypeOK'
    BY DEF RateInv, PassTypeOK, StartRun
  <1>2. FilesSound'
    BY SameFiles DEF StartRun
  <1>3. \A q \in Roles : q # r => FreshRun(q)'
    BY OtherRun DEF StartRun, RateInv, PassTypeOK
  <1>4. FreshRun(r)'
    <2>1. seed'[r] = seed[r] /\ seed[r] \in Seeds
      BY DEF StartRun
    <2>2. todo'[r] = Idxs \ Parsed(Lines(r, seed[r])) /\ answered'[r] = {}
      BY DoneParsed DEF StartRun, RateInv, PassTypeOK
    <2>3. Lines(r, seed[r])' = Lines(r, seed[r])
      BY DEF StartRun, Lines
    <2> QED BY <2>1, <2>2, <2>3 DEF FreshRun
  <1>5. FilterLast' /\ KeptExactly'
    BY Unfiltered DEF Job
  <1> QED BY <1>1, <1>2, <1>3, <1>4, <1>5 DEF RateInv, RunsFresh

LEMMA ChainEndsRate ==
  ASSUME RateInv, NEW r \in Roles, ChainEnds(r)
  PROVE  RateInv'
  <1>1. PassTypeOK'
    BY DEF RateInv, PassTypeOK, ChainEnds
  <1>2. FilesSound'
    BY SameFiles DEF ChainEnds
  <1>3. \A q \in Roles : q # r => FreshRun(q)'
    BY OtherRun DEF ChainEnds, RateInv, PassTypeOK
  <1>4. FreshRun(r)'
    BY DEF ChainEnds, FreshRun, RateInv, PassTypeOK
  <1>5. FilterLast' /\ KeptExactly'
    BY Unfiltered DEF Job
  <1> QED BY <1>1, <1>2, <1>3, <1>4, <1>5 DEF RateInv, RunsFresh

LEMMA RelaunchRate ==
  ASSUME RateInv, NEW r \in Roles, Relaunch(r)
  PROVE  RateInv'
  <1>1. PassTypeOK'
    BY SizeAssumption DEF RateInv, PassTypeOK, Relaunch
  <1>2. FilesSound'
    BY SameFiles DEF Relaunch
  <1>3. \A q \in Roles : q # r => FreshRun(q)'
    BY OtherRun DEF Relaunch, RateInv, PassTypeOK
  <1>4. FreshRun(r)'
    BY DEF Relaunch, FreshRun, RateInv, PassTypeOK
  <1>5. FilterLast' /\ KeptExactly'
    BY Unfiltered
  <1> QED BY <1>1, <1>2, <1>3, <1>4, <1>5 DEF RateInv, RunsFresh

\* The run has written all its rows.
LEMMA RunEndsRate ==
  ASSUME RateInv, NEW r \in Roles, RunEnds(r)
  PROVE  RateInv'
  <1>1. PassTypeOK'
    <2>1. seed[r] \in Seeds
      BY DEF RunEnds, RateInv, RunsFresh, FreshRun
    <2>2. seed[r] + 1 \in 1..(NumSeeds + 1)
      BY <2>1, SizeAssumption DEF Seeds
    <2> QED BY <2>2 DEF RateInv, PassTypeOK, RunEnds
  <1>2. FilesSound'
    BY SameFiles DEF RunEnds
  <1>3. \A q \in Roles : q # r => FreshRun(q)'
    BY OtherRun DEF RunEnds, RateInv, PassTypeOK
  <1>4. FreshRun(r)'
    BY DEF RunEnds, FreshRun, RateInv, PassTypeOK
  <1>5. FilterLast' /\ KeptExactly'
    BY Unfiltered DEF Job
  <1> QED BY <1>1, <1>2, <1>3, <1>4, <1>5 DEF RateInv, RunsFresh

\* A request is answered or raises: its line is about the row of its idx.
LEMMA AnswerRate ==
  ASSUME RateInv, NEW r \in Roles, Answer(r)
  PROVE  RateInv'
  <1>1. PICK i \in todo[r] \ AnsweredIdxs(r), n \in 0..N, error \in BOOLEAN :
           answered' = [answered EXCEPT ![r] = @ \cup
             {[idx |-> i, row |-> Sampled[seed[r]][i], n |-> n, error |-> error]}]
    BY DEF Answer
  <1>2. /\ chain[r] = "run" /\ seed[r] \in Seeds
        /\ \A line \in answered[r] : line.row = Sampled[seed[r]][line.idx]
    BY DEF Answer, RateInv, RunsFresh, FreshRun
  <1> DEFINE x == [idx |-> i, row |-> Sampled[seed[r]][i], n |-> n, error |-> error]
  <1>3. i \in Idxs
    BY DEF RateInv, PassTypeOK
  <1>4. x \in Record /\ x.row = Sampled[seed[r]][x.idx]
    BY <1>2, <1>3, SampledAssumption DEF Record
  <1>5. answered' = [answered EXCEPT ![r] = @ \cup {x}]
    BY <1>1
  <1> HIDE DEF x
  <1>6. PassTypeOK'
    BY <1>4, <1>5 DEF RateInv, PassTypeOK, Answer
  <1>7. FilesSound'
    BY SameFiles DEF Answer
  <1>8. \A q \in Roles : q # r => FreshRun(q)'
    BY <1>5, OtherRun DEF Answer, RateInv, PassTypeOK
  <1>9. FreshRun(r)'
    <2>1. answered'[r] = answered[r] \cup {x}
      BY <1>5 DEF RateInv, PassTypeOK
    <2>2. \A line \in answered'[r] : line.row = Sampled[seed[r]][line.idx]
      BY <1>2, <1>4, <2>1
    <2>3. Lines(r, seed[r])' = Lines(r, seed[r])
      BY DEF Answer, Lines
    <2>4. seed' = seed /\ todo' = todo
      BY DEF Answer
    <2>5. FreshRun(r)
      BY DEF RateInv, RunsFresh
    <2> QED BY <1>2, <2>2, <2>3, <2>4, <2>5 DEF FreshRun
  <1>10. FilterLast' /\ KeptExactly'
    BY Unfiltered DEF Job
  <1> QED BY <1>6, <1>7, <1>8, <1>9, <1>10 DEF RateInv, RunsFresh

\* The line that the run's next line becomes may be added to the file.
LEMMA NextLine ==
  ASSUME RateInv, NEW r \in Roles, chain[r] = "run",
         NEW line, Ready(r, line), NEW x \in {Torn, Joined(r, seed[r], line)}
  PROVE  /\ line.idx \in Idxs /\ line \in Record
         /\ x \in Line
         /\ seed[r] \in Seeds
         /\ file[r][seed[r]] \in Seq(Line) /\ tail[r][seed[r]] \in Seq(Line)
         /\ Sound(file[r][seed[r]] \o tail[r][seed[r]], seed[r])
         /\ x # Torn => /\ x = line
                          /\ x.row = Sampled[seed[r]][x.idx]
                          /\ x.idx \notin Parsed(file[r][seed[r]] \o tail[r][seed[r]])
  <1>1. FreshRun(r)
    BY DEF RateInv, RunsFresh
  <1>2. seed[r] \in Seeds
    BY <1>1 DEF FreshRun
  <1>3. line \in Record /\ line.row = Sampled[seed[r]][line.idx] /\ line.idx \in todo[r]
    BY <1>1 DEF Ready, FreshRun, RateInv, PassTypeOK
  <1>4. line.idx \notin Parsed(file[r][seed[r]] \o tail[r][seed[r]])
    BY <1>1, <1>3 DEF FreshRun, Lines
  <1>5. x = Torn \/ x = line
    BY DEF Joined
  <1>6. line.idx \in Idxs
    BY <1>3 DEF Record
  <1>7. file[r][seed[r]] \in Seq(Line) /\ tail[r][seed[r]] \in Seq(Line)
    BY <1>2 DEF RateInv, PassTypeOK, Line
  <1>8. Sound(file[r][seed[r]] \o tail[r][seed[r]], seed[r])
    BY <1>2 DEF RateInv, FilesSound, Lines
  <1> QED BY <1>2, <1>3, <1>4, <1>5, <1>6, <1>7, <1>8 DEF Line

\* The next line is written, behind an unterminated one that it spoils.
LEMMA WriteRate ==
  ASSUME RateInv, NEW r \in Roles, WriteLine(r)
  PROVE  RateInv'
  <1>1. PICK line \in answered[r] :
           /\ Ready(r, line) /\ Taken(r, line)
           /\ file' = [file EXCEPT ![r][seed[r]] = Append(@, Joined(r, seed[r], line))]
           /\ tail' = [tail EXCEPT ![r][seed[r]] = <<>>]
    BY DEF WriteLine
  <1>2. PICK x : x = Joined(r, seed[r], line)
    OBVIOUS
  <1>3. PICK k : k = seed[r]
    OBVIOUS
  <1>4. chain[r] = "run" /\ chain' = chain /\ seed' = seed /\ verdict' = verdict
        /\ kept' = kept /\ faults' = faults
    BY DEF WriteLine
  <1>5. /\ line.idx \in Idxs /\ line \in Record /\ x \in Line /\ k \in Seeds
        /\ file[r][k] \in Seq(Line) /\ tail[r][k] \in Seq(Line)
        /\ Sound(file[r][k] \o tail[r][k], k)
        /\ x # Torn => /\ x = line /\ x.row = Sampled[k][x.idx]
                         /\ x.idx \notin Parsed(file[r][k] \o tail[r][k])
    BY <1>1, <1>2, <1>3, <1>4, NextLine
  <1>6. /\ file' = [file EXCEPT ![r][k] = Append(@, x)]
        /\ tail' = [tail EXCEPT ![r][k] = <<>>]
        /\ todo' = [todo EXCEPT ![r] = @ \ {line.idx}]
        /\ answered' = [answered EXCEPT ![r] = @ \ {line}]
    BY <1>1, <1>2, <1>3 DEF Taken
  <1>7. PassTypeOK
    BY DEF RateInv
  <1>8. PassTypeOK'
    <2>1. Append(file[r][k], x) \in Seq(Line) /\ <<>> \in Seq(Line)
      BY <1>5
    <2>2. /\ file' \in [Roles -> [Seeds -> Seq(Line)]]
          /\ tail' \in [Roles -> [Seeds -> Seq(Line)]]
      BY <1>5, <1>6, <1>7, <2>1 DEF PassTypeOK, Line
    <2> QED BY <1>4, <1>6, <1>7, <2>2 DEF PassTypeOK, Line
  <1>9. Lines(r, k)' = file[r][k] \o <<x>>
    <2>1. file'[r][k] = Append(file[r][k], x) /\ tail'[r][k] = <<>>
      BY <1>5, <1>6, <1>7 DEF PassTypeOK
    <2>2. Append(file[r][k], x) \o <<>> = file[r][k] \o <<x>>
      BY <1>5, Terminated
    <2> QED BY <2>1, <2>2 DEF Lines
  <1>10. \A q \in Roles, j \in Seeds :
           q # r \/ j # k => Lines(q, j)' = Lines(q, j)
    BY <1>5, <1>6, <1>7 DEF PassTypeOK, Lines
  <1>11. /\ Sound(file[r][k] \o <<x>>, k)
         /\ \A i \in Parsed(file[r][k] \o <<x>>) :
               i \in Parsed(file[r][k] \o tail[r][k]) \/ (x # Torn /\ i = x.idx)
    BY <1>5, AddLine
  <1>12. FilesSound'
    <2>1. \A q \in Roles, j \in Seeds : Sound(Lines(q, j)', j)
      BY <1>9, <1>10, <1>11 DEF RateInv, FilesSound
    <2> QED BY <2>1 DEF FilesSound
  <1>13. \A q \in Roles : q # r => FreshRun(q)'
    BY <1>4, <1>6, <1>7, OtherRun DEF PassTypeOK
  <1>14. FreshRun(r)'
    <2>1. FreshRun(r)
      BY DEF RateInv, RunsFresh
    <2>2. todo'[r] = todo[r] \ {line.idx} /\ answered'[r] \subseteq answered[r]
      BY <1>6, <1>7 DEF PassTypeOK
    <2>3. todo[r] \cap Parsed(file[r][k] \o tail[r][k]) = {}
      BY <1>3, <1>4, <2>1 DEF FreshRun, Lines
    <2>4. todo'[r] \cap Parsed(file[r][k] \o <<x>>) = {}
      BY <1>5, <1>11, <2>2, <2>3
    <2> QED BY <1>3, <1>4, <1>9, <2>1, <2>2, <2>4 DEF FreshRun
  <1>15. FilterLast' /\ KeptExactly'
    BY Unfiltered DEF Job
  <1> QED BY <1>8, <1>12, <1>13, <1>14, <1>15 DEF RateInv, RunsFresh

\* A death leaves the line under way out, in part, or whole but unterminated.
LEMMA DieRate ==
  ASSUME RateInv, NEW r \in Roles, Die(r)
  PROVE  RateInv'
  <1>1. PICK k : k = seed[r]
    OBVIOUS
  <1>2. chain[r] = "run" /\ file' = file /\ verdict' = verdict /\ kept' = kept
    BY DEF Die
  <1>3. FreshRun(r) /\ k \in Seeds
    BY <1>1, <1>2 DEF RateInv, RunsFresh, FreshRun
  <1>4. PassTypeOK
    BY DEF RateInv
  <1>5. /\ tail' \in [Roles -> [Seeds -> Seq(Line)]]
        /\ \A q \in Roles : q # r => tail'[q] = tail[q]
        /\ FilesSound'
    <2>1. CASE UNCHANGED tail
      BY <1>2, <1>4, <2>1, SameFiles DEF PassTypeOK, Line
    <2>2. CASE ~UNCHANGED tail
      <3>1. PICK line \in answered[r], part \in BOOLEAN :
              /\ Ready(r, line)
              /\ tail' = [tail EXCEPT ![r][seed[r]] =
                            <<IF part THEN Torn ELSE Joined(r, seed[r], line)>>]
        BY <2>2 DEF Die, CutWrite
      <3>2. PICK x \in {Torn, Joined(r, seed[r], line)} :
              tail' = [tail EXCEPT ![r][k] = <<x>>]
        BY <1>1, <3>1
      <3>3. /\ x \in Line /\ file[r][k] \in Seq(Line) /\ tail[r][k] \in Seq(Line)
            /\ Sound(file[r][k] \o tail[r][k], k)
            /\ x # Torn => /\ x.row = Sampled[k][x.idx]
                             /\ x.idx \notin Parsed(file[r][k] \o tail[r][k])
        BY <1>1, <1>2, <3>1, NextLine
      <3>4. <<x>> \in Seq(Line)
        BY <3>3
      <3>5. tail' \in [Roles -> [Seeds -> Seq(Line)]]
        BY <1>3, <1>4, <3>2, <3>4 DEF PassTypeOK, Line
      <3>6. \A q \in Roles : q # r => tail'[q] = tail[q]
        BY <1>4, <3>2 DEF PassTypeOK
      <3>7. Lines(r, k)' = file[r][k] \o <<x>>
        <4>1. tail'[r][k] = <<x>> /\ file'[r][k] = file[r][k]
          BY <1>2, <1>3, <1>4, <3>2 DEF PassTypeOK
        <4> QED BY <4>1 DEF Lines
      <3>8. \A q \in Roles, j \in Seeds :
              q # r \/ j # k => Lines(q, j)' = Lines(q, j)
        BY <1>2, <1>3, <1>4, <3>2 DEF PassTypeOK, Lines
      <3>9. Sound(file[r][k] \o <<x>>, k)
        BY <3>3, AddLine
      <3>10. \A q \in Roles, j \in Seeds : Sound(Lines(q, j)', j)
        BY <3>7, <3>8, <3>9 DEF RateInv, FilesSound
      <3> QED BY <3>5, <3>6, <3>10 DEF FilesSound
    <2> QED BY <2>1, <2>2
  <1>6. PassTypeOK'
    <2>1. seed[r] + 1 \in 1..(NumSeeds + 1)
      BY <1>1, <1>3, SizeAssumption DEF Seeds
    <2>2. faults' \in 0..MaxFaults
      BY <1>4, SizeAssumption DEF Die, PassTypeOK
    <2>3. /\ chain' \in [Roles -> {"chain", "run", "ended", "dead"}]
          /\ seed' \in [Roles -> 1..(NumSeeds + 1)]
      BY <1>4, <2>1 DEF Die, PassTypeOK
    <2>4. todo' \in [Roles -> SUBSET Idxs] /\ answered' \in [Roles -> SUBSET Record]
      BY <1>4 DEF Die, PassTypeOK
    <2> QED BY <1>2, <1>4, <1>5, <2>2, <2>3, <2>4 DEF PassTypeOK, Line
  <1>7. \A q \in Roles : q # r => FreshRun(q)'
    <2> SUFFICES ASSUME NEW q \in Roles, q # r PROVE FreshRun(q)'
      OBVIOUS
    <2>1. /\ chain'[q] = chain[q] /\ seed'[q] = seed[q] /\ todo'[q] = todo[q]
          /\ answered'[q] = answered[q] /\ file'[q] = file[q] /\ tail'[q] = tail[q]
      BY <1>4, <1>5 DEF Die, PassTypeOK
    <2> QED BY <2>1, OtherRun
  <1>8. FreshRun(r)'
    <2>1. chain'[r] # "run"
      BY <1>4 DEF Die, PassTypeOK
    <2> QED BY <2>1 DEF FreshRun
  <1>9. FilterLast' /\ KeptExactly'
    BY Unfiltered
  <1> QED BY <1>5, <1>6, <1>7, <1>8, <1>9 DEF RateInv, RunsFresh

\* With one seed that takes the whole pool, the record that load_counts keeps of
\* an idx is the line about that row.
LEMMA CountsOfOneSeed ==
  ASSUME RateInv, NEW r \in Roles, NumSeeds = 1, Pool <= Limit,
         Torn \notin LineSet(r, 1), NEW i
  PROVE  Counts(r, i) = {l \in LineSet(r, 1) : l.row = i}
  <1> DEFINE L == Lines(r, 1)
  <1>1. Seeds = {1}
    BY DEF Seeds
  <1>2. L \in Seq(Line)
    BY <1>1 DEF RateInv, PassTypeOK, Lines, Line
  <1>3. Sound(L, 1)
    BY <1>1 DEF RateInv, FilesSound
  <1> HIDE DEF L
  <1>4. LineSet(r, 1) = {L[p] : p \in 1..Len(L)}
    BY DEF LineSet, L
  <1>5. \A p \in 1..Len(L) : L[p] # Torn /\ L[p] \in Record
    BY <1>2, <1>4 DEF Line
  <1>6. \A p \in 1..Len(L) : L[p].row = L[p].idx
    BY <1>1, <1>3, <1>5, SampledAssumption DEF Sound, Record
  <1>7. \A p, q \in 1..Len(L) : L[p].idx = L[q].idx => p = q
    BY <1>3, <1>5 DEF Sound
  <1>8. Places(r) = {<<1, p>> : p \in 1..Len(L)}
    BY <1>1 DEF Places, L
  <1>9. \A p \in 1..Len(L) : LineAt(r, <<1, p>>) = L[p]
    BY DEF LineAt, L
  <1>10. \A p \in 1..Len(L) : ~After(<<1, p>>, <<1, p>>)
    BY <1>2 DEF After
  <1>11. ASSUME NEW l \in Counts(r, i) PROVE l \in LineSet(r, 1) /\ l.row = i
    <2>1. PICK y \in Places(r) : LineAt(r, y).idx = i /\ l = LineAt(r, y)
      BY DEF Counts
    <2> QED BY <1>4, <1>6, <1>8, <1>9, <2>1
  <1>12. ASSUME NEW l \in LineSet(r, 1), l.row = i PROVE l \in Counts(r, i)
    <2>1. PICK p \in 1..Len(L) : l = L[p]
      BY <1>4
    <2>2. <<1, p>> \in Places(r) /\ LineAt(r, <<1, p>>) = l /\ l.idx = i
      BY <1>6, <1>8, <1>9, <1>12, <2>1
    <2>3. ASSUME NEW z \in Places(r), LineAt(r, z).idx = i
          PROVE  ~After(z, <<1, p>>)
      <3>1. PICK q \in 1..Len(L) : z = <<1, q>>
        BY <1>8
      <3>2. L[q].idx = L[p].idx
        BY <1>9, <2>1, <2>2, <2>3, <3>1
      <3>3. z = <<1, p>>
        BY <1>7, <3>1, <3>2
      <3> QED BY <1>10, <3>3
    <2> QED BY <2>2, <2>3 DEF Counts
  <1> QED BY <1>11, <1>12

\* filter_by_pass_rate.py.
LEMMA FilterRate ==
  ASSUME RateInv, Filter
  PROVE  RateInv'
  <1>1. UNCHANGED <<chain, seed, todo, answered, file, tail, faults>>
    BY DEF Filter, jobVars, fileVars
  <1>2. \A q \in Roles : FreshRun(q)'
    BY <1>1, OtherRun
  <1>3. FilesSound'
    BY <1>1, SameFiles
  <1>4. PassTypeOK'
    <2>1. kept' \subseteq 0..(Pool - 1) /\ verdict' \in {"none", "raised", "kept"}
      BY DEF Filter, RateInv, PassTypeOK
    <2> QED BY <1>1, <2>1 DEF RateInv, PassTypeOK
  <1>5. FilterLast'
    BY <1>1 DEF Filter, FilterLast
  <1>6. KeptExactly'
    <2>1. ASSUME verdict' = "kept", NumSeeds = 1, Pool <= Limit
          PROVE  kept' = {i \in 0..(Pool - 1) :
                    \E s \in LineSet("student", 1), t \in LineSet("teacher", 1) :
                       s.row = i /\ t.row = i /\ t.n >= s.n /\ ~(s.n = N /\ t.n = N)}
      <3>1. 1 \in Seeds /\ "student" \in Roles /\ "teacher" \in Roles
        BY <2>1 DEF Seeds, Roles
      <3>2. /\ \A r \in Roles : Torn \notin LineSet(r, 1)
            /\ kept' = {i \in 0..(Pool - 1) :
                 \E s \in Counts("student", i), t \in Counts("teacher", i) :
                    Keeps(s.n, t.n)}
        BY <2>1, <3>1 DEF Filter
      <3>3. \A r \in Roles : \A l \in LineSet(r, 1) : l.n \in Int
        <4> SUFFICES ASSUME NEW r \in Roles, NEW l \in LineSet(r, 1) PROVE l.n \in Int
          OBVIOUS
        <4>1. Lines(r, 1) \in Seq(Line)
          BY <3>1 DEF RateInv, PassTypeOK, Lines, Line
        <4>2. l \in Line
          BY <4>1 DEF LineSet
        <4>3. N \in Nat
          BY SizeAssumption
        <4> QED BY <4>2, <4>3 DEF Line, Record, Torn
      <3>4. \A r \in Roles, i \in 0..(Pool - 1) :
               Counts(r, i) = {l \in LineSet(r, 1) : l.row = i}
        BY <2>1, <3>2, CountsOfOneSeed
      <3>5. \A s, t \in Int : Keeps(s, t) <=> t >= s /\ ~(s = N /\ t = N)
        BY DEF Keeps
      <3>6. ASSUME NEW i \in 0..(Pool - 1)
            PROVE  (\E s \in Counts("student", i), t \in Counts("teacher", i) :
                       Keeps(s.n, t.n))
                   <=> \E s \in LineSet("student", 1), t \in LineSet("teacher", 1) :
                       s.row = i /\ t.row = i /\ t.n >= s.n /\ ~(s.n = N /\ t.n = N)
        BY <3>1, <3>3, <3>4, <3>5
      <3> QED BY <3>2, <3>6
    <2>2. \A r : LineSet(r, 1)' = LineSet(r, 1)
      BY <1>1 DEF LineSet, Lines
    <2> QED BY <2>1, <2>2 DEF KeptExactly
  <1> QED BY <1>2, <1>3, <1>4, <1>5, <1>6 DEF RateInv, RunsFresh

\* A file of as many lines as the sample has rows, all of which parse, has a line
\* for each of them: the idxs of its lines are distinct.
LEMMA FullFile ==
  ASSUME RateInv
  PROVE  SkippedIsComplete
  <1> SUFFICES ASSUME NEW r \in Roles, NEW k \in Seeds,
                      Len(file[r][k]) >= NumIdx, Torn \notin LineSet(r, k)
               PROVE  Parsed(Lines(r, k)) = Idxs
    BY DoneParsed DEF SkippedIsComplete
  <1> DEFINE L == Lines(r, k)
             f == [p \in 1..Len(L) |-> L[p].idx]
  <1>1. file[r][k] \in Seq(Line) /\ tail[r][k] \in Seq(Line)
    BY DEF RateInv, PassTypeOK, Line
  <1>2. L \in Seq(Line) /\ Len(L) >= NumIdx /\ Len(L) \in Nat
    <2>1. ASSUME NEW u \in Seq(Line), NEW v \in Seq(Line), NEW n \in Nat, Len(u) >= n
          PROVE  u \o v \in Seq(Line) /\ Len(u \o v) >= n /\ Len(u \o v) \in Nat
      <3>1. Len(u \o v) = Len(u) + Len(v) /\ Len(u) \in Nat /\ Len(v) \in Nat
        OBVIOUS
      <3> QED BY <2>1, <3>1
    <2>2. NumIdx \in Nat
      BY SampleSize
    <2> QED BY <1>1, <2>1, <2>2 DEF Lines
  <1>3. Sound(L, k)
    BY DEF RateInv, FilesSound
  <1> HIDE DEF L
  <1>4. \A p \in 1..Len(L) : L[p] # Torn /\ L[p] \in Record
    BY <1>2 DEF LineSet, L, Line
  <1>5. Parsed(L) = {L[p].idx : p \in 1..Len(L)}
    BY <1>4 DEF Parsed
  <1>6. f \in [1..Len(L) -> Idxs]
    BY <1>4 DEF Record
  <1>7. f \in Injection(1..Len(L), Idxs)
    <2>1. \A p, q \in 1..Len(L) : L[p].idx = L[q].idx => p = q
      BY <1>3, <1>4 DEF Sound
    <2>2. DOMAIN f = 1..Len(L) /\ \A p \in 1..Len(L) : f[p] = L[p].idx
      OBVIOUS
    <2> HIDE DEF f
    <2> QED BY <1>6, <2>1, <2>2 DEF Injection, IsInjective
  <1>8. /\ IsFiniteSet(Idxs) /\ Cardinality(Idxs) = NumIdx
        /\ IsFiniteSet(1..Len(L)) /\ Cardinality(1..Len(L)) = Len(L)
    <2>1. NumIdx - 1 \in Int /\ NumIdx > 0 /\ NumIdx \in Int
      BY SampleSize
    <2>2. IsFiniteSet(Idxs) /\ Cardinality(Idxs) = NumIdx
      BY <2>1, FS_Interval DEF Idxs
    <2>3. IsFiniteSet(1..Len(L)) /\ Cardinality(1..Len(L)) = Len(L)
      BY <1>2, <2>1, FS_Interval
    <2> QED BY <2>2, <2>3
  <1>9. f \in Surjection(1..Len(L), Idxs)
    <2> HIDE DEF f
    <2>1. /\ Cardinality(1..Len(L)) <= Cardinality(Idxs)
          /\ (Cardinality(1..Len(L)) = Cardinality(Idxs)) <=> f \in Surjection(1..Len(L), Idxs)
      BY <1>7, <1>8, FS_Injection
    <2>2. Len(L) = NumIdx
      BY <1>2, <1>8, <2>1, SampleSize
    <2> QED BY <1>8, <2>1, <2>2
  <1>10. \A i \in Idxs : \E p \in 1..Len(L) : L[p].idx = i
    BY <1>9 DEF Surjection
  <1> QED BY <1>4, <1>5, <1>10 DEF L, Record

\* Every step of the scripts keeps the invariant.
LEMMA RateStep ==
  ASSUME RateInv, [PassNext]_passVars
  PROVE  RateInv'
  <1>1. ASSUME NEW r \in Roles, Job(r) PROVE RateInv'
    BY <1>1, SkipRate, StartRate, ChainEndsRate, AnswerRate, WriteRate, RunEndsRate DEF Job
  <1>2. ASSUME NEW r \in Roles, Die(r) \/ Relaunch(r) PROVE RateInv'
    BY <1>2, DieRate, RelaunchRate
  <1>3. CASE Filter
    BY <1>3, FilterRate
  <1>4. CASE UNCHANGED passVars
    <2>1. UNCHANGED <<chain, seed, todo, answered, file, tail, verdict, kept, faults>>
      BY <1>4 DEF passVars, jobVars, fileVars
    <2>2. PassTypeOK'
      BY <2>1 DEF RateInv, PassTypeOK
    <2>3. FilesSound'
      BY <2>1, SameFiles
    <2>4. \A q \in Roles : FreshRun(q)'
      BY <2>1, OtherRun
    <2>5. FilterLast'
      BY <2>1 DEF RateInv, FilterLast
    <2>6. KeptExactly'
      <3>1. \A r : LineSet(r, 1)' = LineSet(r, 1)
        BY <2>1 DEF LineSet, Lines
      <3> QED BY <2>1, <3>1 DEF RateInv, KeptExactly
    <2> QED BY <2>2, <2>3, <2>4, <2>5, <2>6 DEF RateInv, RunsFresh
  <1> QED BY <1>1, <1>2, <1>3, <1>4 DEF PassNext

\* RateInv holds whatever the requests answer and wherever the scripts die, for
\* any pool, limit, number of seeds, samples and threads.
THEOREM RateInvariance ==
  PassSpec => []RateInv
  <1>1. PassInit => RateInv
    BY RateStarts
  <1>2. RateInv /\ [PassNext]_passVars => RateInv'
    BY RateStep
  <1> QED BY <1>1, <1>2, PTL DEF PassSpec

\* The state of the pass-rate chains has its type.
THEOREM RateTypeCorrect ==
  PassSpec => []PassTypeOK
  <1>1. RateInv => PassTypeOK
    BY DEF RateInv
  <1> QED BY <1>1, RateInvariance, PTL

\* chain_passrate.sh may take a file of parsable lines for complete when it has
\* enough of them.
THEOREM SkippedFilesAreComplete ==
  PassSpec => []SkippedIsComplete
  <1>1. RateInv => SkippedIsComplete
    BY FullFile
  <1> QED BY <1>1, RateInvariance, PTL

\* filter_by_pass_rate.py keeps exactly the rows it says it keeps, when one seed
\* covers the whole pool.
THEOREM FilterIsExact ==
  PassSpec => []KeptExactly
  <1>1. RateInv => KeptExactly
    BY DEF RateInv
  <1> QED BY <1>1, RateInvariance, PTL

\* A row of a run whose line the file holds is not asked for.
NoRowAskedAgain ==
    \A r \in Roles : chain[r] = "run" => todo[r] \cap DoneIdxs(r, seed[r]) = {}

\* However often the chain is killed and started again, pass_rate_vllm.py spends no
\* request on a row whose line the seed's file has.
THEOREM RowsAskedOnce ==
  PassSpec => []NoRowAskedAgain
  <1>1. RateInv => NoRowAskedAgain
    BY DoneParsed DEF RateInv, RunsFresh, FreshRun, NoRowAskedAgain
  <1> QED BY <1>1, RateInvariance, PTL

\* When every seed takes the whole pool, the record that load_counts keeps of an
\* idx, from whichever seed, is about the row of that number.
LEMMA CountsAreOwn ==
  ASSUME RateInv, Pool <= Limit, NEW r \in Roles, NEW i,
         \A k \in Seeds : Torn \notin LineSet(r, k), NEW l \in Counts(r, i)
  PROVE  \E k \in Seeds : l \in LineSet(r, k) /\ l.row = i /\ l.n \in Int
  <1>1. PICK y \in Places(r) : LineAt(r, y).idx = i /\ l = LineAt(r, y)
    BY DEF Counts
  <1>0. PICK k \in Seeds : y \in {<<k, p>> : p \in 1..Len(Lines(r, k))}
    BY <1>1 DEF Places
  <1>2. PICK p \in 1..Len(Lines(r, k)) : y = <<k, p>>
    BY <1>0
  <1> DEFINE L == Lines(r, k)
  <1>3. L \in Seq(Line)
    BY DEF RateInv, PassTypeOK, Lines, Line
  <1>4. Sound(L, k)
    BY DEF RateInv, FilesSound
  <1>5. l = L[p] /\ l.idx = i /\ l \in LineSet(r, k)
    BY <1>1, <1>2 DEF LineAt, LineSet
  <1> HIDE DEF L
  <1>6. p \in 1..Len(L)
    BY DEF L
  <1>7. l \in Record
    BY <1>3, <1>5, <1>6 DEF Line
  <1>8. l # Torn
    BY <1>5
  <1>9. l.row = Sampled[k][i]
    BY <1>4, <1>5, <1>6, <1>8 DEF Sound
  <1>10. l.row = i /\ l.n \in Int
    BY <1>5, <1>7, <1>9, SampledAssumption, SizeAssumption DEF Record
  <1> QED BY <1>5, <1>10

\* When every seed takes the whole pool, filter_by_pass_rate.py keeps a row only on
\* answers about that row, for any number of seeds: what the seeds mix up
\* when each draws its own sample comes from the sampling alone.
THEOREM WholePoolIsKeptByOwnAnswers ==
  ASSUME Pool <= Limit
  PROVE  PassSpec => []KeptByOwnAnswers
  <1>1. PassInit => KeptByOwnAnswers
    BY DEF PassInit, KeptByOwnAnswers
  <1>2. ASSUME RateInv, KeptByOwnAnswers, [PassNext]_passVars
        PROVE  KeptByOwnAnswers'
    <2>1. ASSUME NEW r \in Roles, Job(r) \/ Die(r) \/ Relaunch(r)
          PROVE  KeptByOwnAnswers'
      BY <1>2, <2>1, Unfiltered DEF KeptByOwnAnswers
    <2>2. CASE Filter
      <3>1. UNCHANGED <<file, tail>>
        BY <2>2 DEF Filter, fileVars
      <3>2. \A r, k : LineSet(r, k)' = LineSet(r, k)
        BY <3>1 DEF LineSet, Lines
      <3>3. ASSUME verdict' = "kept", NEW i \in kept'
            PROVE  \E j, k \in Seeds :
                     \E s \in LineSet("student", j), t \in LineSet("teacher", k) :
                        s.row = i /\ t.row = i /\ t.n >= s.n /\ ~(s.n = N /\ t.n = N)
        <4>1. /\ \A r \in Roles, k \in Seeds : Torn \notin LineSet(r, k)
              /\ \E s \in Counts("student", i), t \in Counts("teacher", i) :
                    Keeps(s.n, t.n)
          BY <2>2, <3>3 DEF Filter
        <4>2. PICK s \in Counts("student", i), t \in Counts("teacher", i) :
                 Keeps(s.n, t.n)
          BY <4>1
        <4>3. "student" \in Roles /\ "teacher" \in Roles
          BY DEF Roles
        <4>4. PICK j \in Seeds : s \in LineSet("student", j) /\ s.row = i /\ s.n \in Int
          BY <1>2, <4>1, <4>3, CountsAreOwn
        <4>5. PICK k \in Seeds : t \in LineSet("teacher", k) /\ t.row = i /\ t.n \in Int
          BY <1>2, <4>1, <4>3, CountsAreOwn
        <4>6. t.n >= s.n /\ ~(s.n = N /\ t.n = N)
          BY <4>2, <4>4, <4>5 DEF Keeps
        <4> QED BY <4>4, <4>5, <4>6
      <3> QED BY <3>2, <3>3 DEF KeptByOwnAnswers
    <2>3. CASE UNCHANGED passVars
      <3>1. UNCHANGED <<file, tail, verdict, kept>>
        BY <2>3 DEF passVars, fileVars
      <3>2. \A r, k : LineSet(r, k)' = LineSet(r, k)
        BY <3>1 DEF LineSet, Lines
      <3> QED BY <1>2, <3>1, <3>2 DEF KeptByOwnAnswers
    <2> QED BY <1>2, <2>1, <2>2, <2>3 DEF PassNext
  <1>3. RateInv /\ KeptByOwnAnswers /\ [PassNext]_passVars => KeptByOwnAnswers'
    BY <1>2
  <1> QED BY <1>1, <1>3, RateInvariance, PTL DEF PassSpec
=============================================================================
