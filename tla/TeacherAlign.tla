---------------------------- MODULE TeacherAlign ----------------------------
(***************************************************************************)
(* How the log-probabilities that a teacher server returns for one student *)
(* response travel to the place that uses them: the server's left shift    *)
(* (extract_prompt_logprobs), the alignment to the student's sequence      *)
(* (compute_teacher_logprobs_single), the padding to the batch's width     *)
(* (_pad_teacher_outputs), the trainer's cue gate, which slices the padded *)
(* rows, and the actor's loss, which slices the unpadded ones.             *)
(*                                                                         *)
(* A log-probability is abstracted to the token it belongs to: <<r, j>> is *)
(* the one of response token j of batch row r, <<r, 0>> the one of some    *)
(* prompt token of r, and Zero the 0.0 that stands for no token at all.    *)
(***************************************************************************)
EXTENDS Integers, Sequences

CONSTANTS NumRows,        \* rows of the batch
          PromptWidth,    \* rollout_config.prompt_length
          ResponseWidth,  \* rollout_config.response_length
          TeacherWidth    \* bound: longest prompt as the teacher tokenizes it

ASSUME WidthAssumption ==
  /\ NumRows \in Nat \ {0}
  /\ PromptWidth \in Nat \ {0}
  /\ ResponseWidth \in Nat \ {0}
  /\ TeacherWidth \in Nat \ {0}

VARIABLES
  shape,    \* per row: P, R the student's lengths, T the teacher's prompt lengths
  served,   \* per row and view: the list the server returned, <<>> before
  padded,   \* per row and view: the row padded to the batch's width, <<>> before
  gate,     \* per row and view: the response columns the gate scores
  flat,     \* teacher_logprobs without padding, all rows one after the other
  offsets,  \* where each unpadded row ends in flat
  loss      \* per row: the teacher columns of the loss, <<>> before

alignVars == <<shape, served, padded, gate, flat, offsets, loss>>

Rows == 1..NumRows

\* Two passes over the same response: under the teacher's own prompt (denser
\* frames, an appended cue, another chat template) and under the student's.
Views == {"teacher", "nocue"}

Tok(r, j) == <<r, j>>
Zero == <<0, 0>>
Entries == (Rows \X (0..ResponseWidth)) \cup {Zero}
Zeros(n) == [i \in 1..n |-> Zero]

Shapes == [P : 1..PromptWidth, R : 1..ResponseWidth, T : [Views -> 1..TeacherWidth]]
None == [v \in Views |-> <<>>]

-----------------------------------------------------------------------------
(* The conversions. *)

\* Mutant of Extract: no dummy at the end, as if the response went on.
ExtractUnended(r, T, R) ==
  [i \in 1..(T + R) |-> IF i < T THEN Tok(r, 0) ELSE Tok(r, i + 1 - T)]

\* extract_prompt_logprobs: vLLM has no value for the first token, so the list
\* starts at the second and ends with a dummy; entry i belongs to token i + 1.
Extract(r, T, R) ==
  [i \in 1..(T + R) |-> IF i = T + R THEN Zero
                        ELSE IF i < T THEN Tok(r, 0)
                        ELSE Tok(r, i + 1 - T)]

\* Mutant of Align: the first R entries instead of the last R.
AlignHead(row, P, R) ==
  IF Len(row) = P + R
    THEN row
    ELSE [i \in 1..(P + R) |-> IF i <= P THEN Zero ELSE row[i - P]]

\* Mutant of Align: the list as the server returned it, whatever its length.
AlignNever(row, P, R) == row

\* compute_teacher_logprobs_single: when the lengths differ, the last R entries
\* behind P zeros; otherwise the list as it is.
Align(row, P, R) ==
  IF Len(row) = P + R
    THEN row
    ELSE [i \in 1..(P + R) |-> IF i <= P THEN Zero ELSE row[Len(row) - R + (i - P)]]

\* _pad_teacher_outputs: left padding before the prompt, right padding after
\* the response.
PadOutputs(row, P, R) == Zeros(PromptWidth - P) \o row \o Zeros(ResponseWidth - R)

\* The slice [:, prompt_width : prompt_width + response_len] of the gates.
GateSlice(row) == SubSeq(row, PromptWidth + 1, PromptWidth + ResponseWidth)

\* left_right_2_no_padding: the positions whose attention mask is set.
Unpadded(row, P, R) == SubSeq(row, PromptWidth - P + 1, PromptWidth + R)

\* Mutant of LossSlice: the response's own positions, without the left shift.
LossSliceUnshifted(values, offset, R) ==
  SubSeq(values, offset - R + 1, offset) \o Zeros(ResponseWidth - R)

\* no_padding_2_padding: values[seq_offset - resp_len - 1 : seq_offset - 1],
\* padded on the right to the response width.
LossSlice(values, offset, R) ==
  SubSeq(values, offset - R, offset - 1) \o Zeros(ResponseWidth - R)

-----------------------------------------------------------------------------
AlignInit ==
  /\ shape \in [Rows -> Shapes]
  /\ served = [r \in Rows |-> None]
  /\ padded = [r \in Rows |-> None]
  /\ gate = [r \in Rows |-> None]
  /\ flat = <<>>
  /\ offsets = <<>>
  /\ loss = [r \in Rows |-> <<>>]

\* A teacher server answers the pass `v' of row r. The no-cue pass is asked for
\* once the teacher pass has returned; rows are scored concurrently.
Serve(r, v) ==
  /\ served[r][v] = <<>>
  /\ v = "nocue" => served[r]["teacher"] # <<>>
  /\ served' = [served EXCEPT ![r][v] = Extract(r, shape[r].T[v], shape[r].R)]
  /\ UNCHANGED <<shape, padded, gate, flat, offsets, loss>>

\* The tail of compute_teacher_logprobs_single and _agent_loop_postprocess.
Postprocess(r) ==
  /\ \A v \in Views : served[r][v] # <<>> /\ padded[r][v] = <<>>
  /\ padded' = [padded EXCEPT ![r] =
                  [v \in Views |-> PadOutputs(Align(served[r][v], shape[r].P, shape[r].R),
                                              shape[r].P, shape[r].R)]]
  /\ UNCHANGED <<shape, served, gate, flat, offsets, loss>>

\* The batch is stacked; compute_cue_gate_weights slices both views.
ComputeGate ==
  /\ gate = [r \in Rows |-> None]
  /\ \A r \in Rows, v \in Views : padded[r][v] # <<>>
  /\ gate' = [r \in Rows |-> [v \in Views |-> GateSlice(padded[r][v])]]
  /\ UNCHANGED <<shape, served, padded, flat, offsets, loss>>

\* left_right_2_no_padding takes the next row of the batch.
UnpadRow ==
  LET r == Len(offsets) + 1
      row == Unpadded(padded[r]["teacher"], shape[r].P, shape[r].R)
  IN  /\ gate # [q \in Rows |-> None]
      /\ r \in Rows
      /\ flat' = flat \o row
      /\ offsets' = Append(offsets, Len(flat) + Len(row))
      /\ UNCHANGED <<shape, served, padded, gate, loss>>

\* no_padding_2_padding takes one row of the flat values.
SliceRow(r) ==
  /\ Len(offsets) = NumRows
  /\ loss[r] = <<>>
  /\ \A q \in 1..(r - 1) : loss[q] # <<>>
  /\ loss' = [loss EXCEPT ![r] = LossSlice(flat, offsets[r], shape[r].R)]
  /\ UNCHANGED <<shape, served, padded, gate, flat, offsets>>

AlignNext ==
  \/ \E r \in Rows : \/ \E v \in Views : Serve(r, v)
                     \/ Postprocess(r)
                     \/ SliceRow(r)
  \/ ComputeGate
  \/ UnpadRow

AlignSpec == AlignInit /\ [][AlignNext]_alignVars

-----------------------------------------------------------------------------
(* Properties. *)

\* The type of the state: lengths are those of the widths, entries are tokens
\* of the batch's rows.
AlignTypeOK ==
  /\ shape \in [Rows -> Shapes]
  /\ served \in [Rows -> [Views -> Seq(Entries)]]
  /\ padded \in [Rows -> [Views -> Seq(Entries)]]
  /\ gate \in [Rows -> [Views -> Seq(Entries)]]
  /\ flat \in Seq(Entries)
  /\ offsets \in Seq(Nat)
  /\ loss \in [Rows -> Seq(Entries)]

\* _postprocess can torch.cat the rows: whatever length the teacher's prompt
\* has, every padded row of every view has the batch's one width.
RowsStack ==
  \A r \in Rows, v \in Views :
    padded[r][v] # <<>> => Len(padded[r][v]) = PromptWidth + ResponseWidth

\* The reverse-KL estimator pairs tokens correctly: column j of a row's loss
\* holds the teacher's log-probability of that row's response token j, whatever
\* rows precede it in the flat values; padded columns hold none. The first
\* column is claimed only for a teacher prompt as long as the student's.
LossAligned ==
  \A r \in Rows :
    loss[r] # <<>> =>
      /\ Len(loss[r]) = ResponseWidth
      /\ \A j \in 1..ResponseWidth :
           IF j > shape[r].R THEN loss[r][j] = Zero
           ELSE j > 1 \/ shape[r].T["teacher"] = shape[r].P => loss[r][j] = Tok(r, j)

\* The cue gate subtracts like from like: in every column the two views hold the
\* log-probability of the same token of the same row, although the two prompts
\* are tokenized to different lengths and aligned along different paths.
GateViewsAgree ==
  \A r \in Rows :
    gate[r] # None => gate[r]["teacher"] = gate[r]["nocue"]

\* "only the response portion is used for the distillation loss, and it must
\* line up with the student's response tokens" (teacher_manager.py:140-142):
\* for any teacher prompt, column j of the loss belongs to response token j.
ResponseLinesUp ==
  \A r \in Rows : loss[r] # <<>> =>
    \A j \in 1..shape[r].R : loss[r][j] = Tok(r, j)
=============================================================================
