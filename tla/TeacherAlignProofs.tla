------------------------- MODULE TeacherAlignProofs -------------------------
(***************************************************************************)
(* Proofs about TeacherAlign for every number of rows and every width.     *)
(*                                                                         *)
(* The conversions are first described element by element (ExtractShape,   *)
(* AlignShape, PadShape). The inductive invariant then says that every     *)
(* variable holds what the conversions make of the row's shape, and that   *)
(* flat holds, before each offset, the aligned row that ends there.        *)
(***************************************************************************)
EXTENDS TeacherAlign, TLAPS, SequenceTheorems

\* What row r's view v is after alignment and after padding.
Source(r, v) == Extract(r, shape[r].T[v], shape[r].R)
Aligned(r, v) == Align(Source(r, v), shape[r].P, shape[r].R)
Framed(r, v) == PadOutputs(Aligned(r, v), shape[r].P, shape[r].R)

\* The response part of an aligned row: token j + 1 in position j.
NextTokens(A, r, P, R) == \A j \in 1..(R - 1) : A[P + j] = Tok(r, j + 1)

\* The inductive invariant: each stage holds the conversions' result, the gate
\* is computed from complete rows only, and flat holds the aligned rows.
StageInv ==
  /\ \A r \in Rows, v \in Views : served[r][v] \in {<<>>, Source(r, v)}
  /\ \A r \in Rows, v \in Views : padded[r][v] \in {<<>>, Framed(r, v)}
  /\ \A r \in Rows : gate[r] \in {None, [v \in Views |-> GateSlice(Framed(r, v))]}
  /\ gate # [r \in Rows |-> None] => \A r \in Rows, v \in Views : padded[r][v] = Framed(r, v)

FlatInv ==
  /\ Len(offsets) <= NumRows
  /\ \A i \in 1..Len(offsets) :
       LET n == shape[i].P + shape[i].R
       IN  /\ n <= offsets[i]
           /\ offsets[i] <= Len(flat)
           /\ \A k \in 1..n : flat[offsets[i] - n + k] = Aligned(i, "teacher")[k]

IInv == AlignTypeOK /\ StageInv /\ FlatInv /\ LossAligned

-----------------------------------------------------------------------------
(* The conversions, element by element. *)

\* Zeros(n) is n times Zero.
LEMMA ZerosShape ==
  ASSUME NEW n \in Nat
  PROVE  /\ Zeros(n) \in Seq(Entries)
         /\ Len(Zeros(n)) = n
         /\ \A i \in 1..n : Zeros(n)[i] = Zero
BY DEF Zeros, Entries

\* extract_prompt_logprobs returns one entry per token of the teacher's
\* sequence; response token j sits one position to the left of the token.
LEMMA ExtractShape ==
  ASSUME NEW r \in Rows, NEW T \in Nat \ {0}, NEW R \in 1..ResponseWidth
  PROVE  /\ Extract(r, T, R) \in Seq(Entries)
         /\ Len(Extract(r, T, R)) = T + R
         /\ Extract(r, T, R)[T + R] = Zero
         /\ \A j \in 1..R : Extract(r, T, R)[T - 1 + j] = Tok(r, j)
<1> DEFINE E == Extract(r, T, R)
<1>0. R \in Nat /\ ResponseWidth \in Nat /\ R >= 1 /\ T >= 1
  BY WidthAssumption
<1>1. \A i \in 1..(T + R) : E[i] \in Entries
  <2> TAKE i \in 1..(T + R)
  <2>1. CASE i = T + R
    BY <2>1, <1>0 DEF Extract, Entries
  <2>2. CASE i < T
    <3>1. E[i] = Tok(r, 0)
      BY <2>2, <1>0 DEF Extract
    <3>2. 0 \in 0..ResponseWidth
      BY <1>0
    <3> QED
      BY <3>1, <3>2 DEF Entries, Tok
  <2>3. CASE i # T + R /\ ~(i < T)
    <3>1. E[i] = Tok(r, i + 1 - T)
      BY <2>3, <1>0 DEF Extract
    <3>2. i + 1 - T \in 0..ResponseWidth
      BY <2>3, <1>0
    <3> QED
      BY <3>1, <3>2 DEF Entries, Tok
  <2> QED
    BY <2>1, <2>2, <2>3
<1>2. E = [i \in 1..(T + R) |-> E[i]]
  BY DEF Extract
<1>3. T + R \in Nat
  BY <1>0
<1>4. E \in Seq(Entries) /\ Len(E) = T + R
  BY <1>1, <1>2, <1>3
<1>5. E[T + R] = Zero
  BY <1>0 DEF Extract
<1>6. ASSUME NEW j \in 1..R PROVE E[T - 1 + j] = Tok(r, j)
  <2>1. /\ T - 1 + j \in 1..(T + R)
        /\ T - 1 + j # T + R
        /\ ~(T - 1 + j < T)
        /\ (T - 1 + j) + 1 - T = j
    BY <1>0
  <2> QED
    BY <2>1 DEF Extract
<1> QED
  BY <1>4, <1>5, <1>6

\* Along both paths of compute_teacher_logprobs_single the response part of the
\* result is the same: token j + 1 in column j, and the dummy last. Only a
\* prompt of the student's length leaves the first token in front of it.
LEMMA AlignShape ==
  ASSUME NEW r \in Rows, NEW T \in Nat \ {0}, NEW R \in 1..ResponseWidth,
         NEW P \in Nat \ {0}
  PROVE  /\ Align(Extract(r, T, R), P, R) \in Seq(Entries)
         /\ Len(Align(Extract(r, T, R), P, R)) = P + R
         /\ Align(Extract(r, T, R), P, R)[P + R] = Zero
         /\ NextTokens(Align(Extract(r, T, R), P, R), r, P, R)
         /\ T = P => Align(Extract(r, T, R), P, R)[P] = Tok(r, 1)
<1> DEFINE E == Extract(r, T, R)
           A == Align(E, P, R)
<1>0. R \in Nat /\ R >= 1 /\ T >= 1 /\ P >= 1 /\ P + R \in Nat /\ T + R \in Nat
  BY WidthAssumption
<1>1. /\ E \in Seq(Entries)
      /\ Len(E) = T + R
      /\ E[T + R] = Zero
      /\ \A j \in 1..R : E[T - 1 + j] = Tok(r, j)
  BY ExtractShape
<1> HIDE DEF E
<1>2. CASE T = P
  <2>1. A = E
    BY <1>0, <1>1, <1>2 DEF Align
  <2>2. ASSUME NEW j \in 1..(R - 1) PROVE A[P + j] = Tok(r, j + 1)
    <3>1. j + 1 \in 1..R /\ T - 1 + (j + 1) = P + j
      BY <1>0, <1>2
    <3> QED
      BY <1>1, <2>1, <3>1
  <2>3. A[P] = Tok(r, 1)
    <3>1. 1 \in 1..R /\ T - 1 + 1 = P
      BY <1>0, <1>2
    <3> QED
      BY <1>1, <2>1, <3>1
  <2>4. A \in Seq(Entries) /\ Len(A) = P + R /\ A[P + R] = Zero
    BY <1>1, <1>2, <2>1
  <2> QED
    BY <2>2, <2>3, <2>4 DEF E, NextTokens
<1>3. CASE T # P
  <2>1. A = [i \in 1..(P + R) |-> IF i <= P THEN Zero ELSE E[T + R - R + (i - P)]]
    BY <1>0, <1>1, <1>3 DEF Align
  <2>2. \A i \in 1..(P + R) : A[i] \in Entries
    <3> TAKE i \in 1..(P + R)
    <3>1. CASE i <= P
      BY <2>1, <3>1 DEF Entries
    <3>2. CASE ~(i <= P)
      <4>1. T + R - R + (i - P) \in 1..Len(E)
        BY <1>0, <1>1, <3>2
      <4> QED
        BY <1>1, <2>1, <3>2, <4>1
    <3> QED
      BY <3>1, <3>2
  <2>3. A \in Seq(Entries) /\ Len(A) = P + R
    BY <1>0, <2>1, <2>2
  <2>4. A[P + R] = Zero
    <3>1. P + R \in 1..(P + R) /\ ~(P + R <= P) /\ T + R - R + ((P + R) - P) = T + R
      BY <1>0
    <3> QED
      BY <1>1, <2>1, <3>1
  <2>5. ASSUME NEW j \in 1..(R - 1) PROVE A[P + j] = Tok(r, j + 1)
    <3>1. /\ P + j \in 1..(P + R)
          /\ ~(P + j <= P)
          /\ j + 1 \in 1..R
          /\ T + R - R + ((P + j) - P) = T - 1 + (j + 1)
      BY <1>0
    <3> QED
      BY <1>1, <2>1, <3>1
  <2> QED
    BY <1>3, <2>3, <2>4, <2>5 DEF E, NextTokens
<1> QED
  BY <1>2, <1>3 DEF E

\* _pad_teacher_outputs gives the batch's width, with the aligned row between
\* the two paddings.
LEMMA PadShape ==
  ASSUME NEW A \in Seq(Entries), NEW P \in 1..PromptWidth, NEW R \in 1..ResponseWidth,
         Len(A) = P + R
  PROVE  LET F == PadOutputs(A, P, R)
         IN  /\ F \in Seq(Entries)
             /\ Len(F) = PromptWidth + ResponseWidth
             /\ \A k \in 1..(P + R) : F[PromptWidth - P + k] = A[k]
             /\ \A j \in (R + 1)..ResponseWidth : F[PromptWidth + j] = Zero
<1> DEFINE L == Zeros(PromptWidth - P)
           Z == Zeros(ResponseWidth - R)
<1>0. /\ PromptWidth \in Nat /\ ResponseWidth \in Nat /\ P \in Nat /\ R \in Nat
      /\ PromptWidth - P \in Nat /\ ResponseWidth - R \in Nat
  BY WidthAssumption
<1>1. /\ L \in Seq(Entries) /\ Len(L) = PromptWidth - P
      /\ Z \in Seq(Entries) /\ Len(Z) = ResponseWidth - R
      /\ \A i \in 1..(ResponseWidth - R) : Z[i] = Zero
  BY <1>0, ZerosShape
<1> HIDE DEF L, Z
<1> DEFINE B == L \o A
<1>2. /\ B \in Seq(Entries)
      /\ Len(B) = Len(L) + Len(A)
      /\ \A i \in 1..(Len(L) + Len(A)) : B[i] = IF i <= Len(L) THEN L[i] ELSE A[i - Len(L)]
  BY <1>1, ConcatProperties
<1>3. PadOutputs(A, P, R) = (L \o A) \o Z
  BY DEF PadOutputs, L, Z
<1> HIDE DEF B
<1>4. B \in Seq(Entries) /\ Len(B) = PromptWidth + R
  BY <1>0, <1>1, <1>2
<1>5. ASSUME NEW k \in 1..(P + R) PROVE B[PromptWidth - P + k] = A[k]
  <2>1. /\ PromptWidth - P + k \in 1..(Len(L) + Len(A))
        /\ ~(PromptWidth - P + k <= Len(L))
        /\ PromptWidth - P + k - Len(L) = k
    BY <1>0, <1>1
  <2> QED
    BY <1>0, <1>1, <1>2, <2>1
<1> DEFINE C == B \o Z
<1>6. /\ C \in Seq(Entries)
      /\ Len(C) = Len(B) + Len(Z)
      /\ \A i \in 1..(Len(B) + Len(Z)) : C[i] = IF i <= Len(B) THEN B[i] ELSE Z[i - Len(B)]
  BY <1>1, <1>4, ConcatProperties
<1>7. PadOutputs(A, P, R) = C
  BY <1>3 DEF B
<1> HIDE DEF C
<1>8. ASSUME NEW k \in 1..(P + R) PROVE C[PromptWidth - P + k] = A[k]
  <2>1. /\ PromptWidth - P + k \in 1..(Len(B) + Len(Z))
        /\ PromptWidth - P + k <= Len(B)
    BY <1>0, <1>1, <1>4
  <2>2. C[PromptWidth - P + k] = B[PromptWidth - P + k]
    BY <1>6, <2>1
  <2> QED
    BY <1>5, <2>2
<1>9. ASSUME NEW j \in (R + 1)..ResponseWidth PROVE C[PromptWidth + j] = Zero
  <2>1. /\ PromptWidth + j \in 1..(Len(B) + Len(Z))
        /\ ~(PromptWidth + j <= Len(B))
        /\ PromptWidth + j - Len(B) \in 1..(ResponseWidth - R)
    BY <1>0, <1>1, <1>4
  <2>2. C[PromptWidth + j] = Z[PromptWidth + j - Len(B)]
    BY <1>0, <1>4, <1>6, <2>1
  <2> QED
    BY <1>1, <2>1, <2>2
<1>10. Len(C) = PromptWidth + ResponseWidth
  BY <1>0, <1>1, <1>4, <1>6
<1> QED
  BY <1>6, <1>7, <1>8, <1>9, <1>10

\* A slice of a sequence of entries, element by element.
LEMMA SliceShape ==
  ASSUME NEW s \in Seq(Entries), NEW m \in Nat \ {0}, NEW n \in Nat,
         m <= n + 1, n <= Len(s)
  PROVE  /\ SubSeq(s, m, n) \in Seq(Entries)
         /\ Len(SubSeq(s, m, n)) = n - m + 1
         /\ \A i \in 1..(n - m + 1) : SubSeq(s, m, n)[i] = s[m + i - 1]
<1>1. \A i \in m..n : s[i] \in Entries
  BY ElementOfSeq
<1>2. /\ SubSeq(s, m, n) \in Seq(Entries)
      /\ Len(SubSeq(s, m, n)) = IF m <= n THEN n - m + 1 ELSE 0
      /\ \A i \in 1..(n - m + 1) : SubSeq(s, m, n)[i] = s[m + i - 1]
  BY <1>1, SubSeqProperties
<1>3. n - m + 1 = IF m <= n THEN n - m + 1 ELSE 0
  OBVIOUS
<1> QED
  BY <1>2, <1>3

\* What a row of the state goes through, by its shape.
LEMMA RowShape ==
  ASSUME shape \in [Rows -> Shapes], NEW r \in Rows, NEW v \in Views
  PROVE  LET P == shape[r].P
             R == shape[r].R
         IN  /\ P \in 1..PromptWidth
             /\ R \in 1..ResponseWidth
             /\ Source(r, v) \in Seq(Entries)
             /\ Source(r, v) # <<>>
             /\ Aligned(r, v) \in Seq(Entries)
             /\ Len(Aligned(r, v)) = P + R
             /\ Aligned(r, v)[P + R] = Zero
             /\ \A j \in 1..(R - 1) : Aligned(r, v)[P + j] = Tok(r, j + 1)
             /\ shape[r].T[v] = P => Aligned(r, v)[P] = Tok(r, 1)
             /\ Framed(r, v) \in Seq(Entries)
             /\ Len(Framed(r, v)) = PromptWidth + ResponseWidth
             /\ Framed(r, v) # <<>>
             /\ \A k \in 1..(P + R) : Framed(r, v)[PromptWidth - P + k] = Aligned(r, v)[k]
             /\ \A j \in (R + 1)..ResponseWidth : Framed(r, v)[PromptWidth + j] = Zero
<1> DEFINE P == shape[r].P
           R == shape[r].R
           T == shape[r].T[v]
<1>1. P \in 1..PromptWidth /\ R \in 1..ResponseWidth /\ T \in 1..TeacherWidth
  BY DEF Shapes
<1>2. P \in Nat \ {0} /\ R \in Nat /\ T \in Nat \ {0} /\ T + R # 0
      /\ PromptWidth + ResponseWidth # 0
  BY <1>1, WidthAssumption
<1> HIDE DEF P, R, T
<1>3. Source(r, v) = Extract(r, T, R) /\ Aligned(r, v) = Align(Extract(r, T, R), P, R)
      /\ Framed(r, v) = PadOutputs(Aligned(r, v), P, R)
  BY DEF Source, Aligned, Framed, P, R, T
<1>4. Source(r, v) \in Seq(Entries) /\ Len(Source(r, v)) = T + R
  BY <1>1, <1>2, <1>3, ExtractShape
<1>5. /\ Aligned(r, v) \in Seq(Entries)
      /\ Len(Aligned(r, v)) = P + R
      /\ Aligned(r, v)[P + R] = Zero
      /\ NextTokens(Aligned(r, v), r, P, R)
      /\ T = P => Aligned(r, v)[P] = Tok(r, 1)
  <2>1. P \in Nat \ {0} /\ T \in Nat \ {0} /\ R \in 1..ResponseWidth
    BY <1>1, <1>2
  <2> DEFINE A == Align(Extract(r, T, R), P, R)
  <2>2. A \in Seq(Entries)
    BY <2>1, AlignShape
  <2>3. Len(A) = P + R
    BY <2>1, AlignShape
  <2>4. A[P + R] = Zero
    BY <2>1, AlignShape
  <2>5. NextTokens(A, r, P, R)
    BY <2>1, AlignShape
  <2>6. T = P => A[P] = Tok(r, 1)
    BY <2>1, AlignShape
  <2> HIDE DEF A
  <2> QED
    BY <1>3, <2>2, <2>3, <2>4, <2>5, <2>6 DEF A
<1>6. /\ Framed(r, v) \in Seq(Entries)
      /\ Len(Framed(r, v)) = PromptWidth + ResponseWidth
      /\ \A k \in 1..(P + R) : Framed(r, v)[PromptWidth - P + k] = Aligned(r, v)[k]
      /\ \A j \in (R + 1)..ResponseWidth : Framed(r, v)[PromptWidth + j] = Zero
  BY <1>1, <1>3, <1>5, PadShape
<1>7. Source(r, v) # <<>> /\ Framed(r, v) # <<>>
  BY <1>2, <1>4, <1>6, EmptySeq
<1> QED
  BY <1>1, <1>4, <1>5, <1>6, <1>7 DEF P, R, T, NextTokens

\* The columns the gate scores depend on the row's response length alone: the
\* next response token, and 0.0 from the last token on.
LEMMA GateColumns ==
  ASSUME shape \in [Rows -> Shapes], NEW r \in Rows, NEW v \in Views
  PROVE  /\ GateSlice(Framed(r, v)) \in Seq(Entries)
         /\ Len(GateSlice(Framed(r, v))) = ResponseWidth
         /\ \A j \in 1..ResponseWidth :
              GateSlice(Framed(r, v))[j] = IF j < shape[r].R THEN Tok(r, j + 1) ELSE Zero
<1> DEFINE P == shape[r].P
           R == shape[r].R
           F == Framed(r, v)
           A == Aligned(r, v)
<1>1. /\ P \in 1..PromptWidth
      /\ R \in 1..ResponseWidth
      /\ A[P + R] = Zero
      /\ \A j \in 1..(R - 1) : A[P + j] = Tok(r, j + 1)
      /\ F \in Seq(Entries)
      /\ Len(F) = PromptWidth + ResponseWidth
      /\ \A k \in 1..(P + R) : F[PromptWidth - P + k] = A[k]
      /\ \A j \in (R + 1)..ResponseWidth : F[PromptWidth + j] = Zero
  BY RowShape
<1> HIDE DEF P, R, F, A
<1>2. PromptWidth \in Nat /\ ResponseWidth \in Nat /\ P \in Nat /\ R \in Nat
      /\ 1 <= P /\ P <= PromptWidth /\ 1 <= R /\ R <= ResponseWidth
  BY <1>1, WidthAssumption
<1>3. /\ GateSlice(F) \in Seq(Entries)
      /\ Len(GateSlice(F)) = ResponseWidth
      /\ \A j \in 1..ResponseWidth : GateSlice(F)[j] = F[PromptWidth + j]
  <2> DEFINE m == PromptWidth + 1
             n == PromptWidth + ResponseWidth
  <2>1. m \in Nat \ {0} /\ n \in Nat /\ m <= n + 1 /\ n <= Len(F)
    BY <1>1, <1>2
  <2>2. n - m + 1 = ResponseWidth /\ \A j \in 1..ResponseWidth : m + j - 1 = PromptWidth + j
    BY <1>2
  <2> HIDE DEF m, n
  <2>3. /\ SubSeq(F, m, n) \in Seq(Entries)
        /\ Len(SubSeq(F, m, n)) = n - m + 1
        /\ \A i \in 1..(n - m + 1) : SubSeq(F, m, n)[i] = F[m + i - 1]
    BY <1>1, <2>1, SliceShape
  <2>4. GateSlice(F) = SubSeq(F, m, n)
    BY DEF GateSlice, m, n
  <2> QED
    BY <2>2, <2>3, <2>4
<1>4. ASSUME NEW j \in 1..ResponseWidth
      PROVE  F[PromptWidth + j] = IF j < R THEN Tok(r, j + 1) ELSE Zero
  <2>1. CASE j < R
    <3>1. j \in 1..(R - 1) /\ P + j \in 1..(P + R) /\ PromptWidth - P + (P + j) = PromptWidth + j
      BY <1>2, <2>1
    <3>2. F[PromptWidth - P + (P + j)] = A[P + j]
      BY <1>1, <3>1
    <3> QED
      BY <1>1, <2>1, <3>1, <3>2
  <2>2. CASE j = R
    <3>1. P + R \in 1..(P + R) /\ PromptWidth - P + (P + R) = PromptWidth + j
      BY <1>2, <2>2
    <3>2. F[PromptWidth - P + (P + R)] = A[P + R]
      BY <1>1, <3>1
    <3> QED
      BY <1>1, <1>2, <2>2, <3>1, <3>2
  <2>3. CASE j > R
    <3>1. j \in (R + 1)..ResponseWidth /\ ~(j < R)
      BY <1>2, <2>3
    <3>2. F[PromptWidth + j] = Zero
      BY <1>1, <3>1
    <3> QED
      BY <3>1, <3>2
  <2> QED
    BY <1>2, <2>1, <2>2, <2>3
<1> QED
  BY <1>3, <1>4 DEF F, R

-----------------------------------------------------------------------------
(* The invariant. *)

\* AlignInit establishes the invariant: nothing is served, sliced or computed.
LEMMA InitInv == AlignInit => IInv
<1> SUFFICES ASSUME AlignInit PROVE IInv
  OBVIOUS
<1>1. <<>> \in Seq(Entries) /\ <<>> \in Seq(Nat) /\ Len(<<>>) = 0
  BY EmptySeq
<1>2. AlignTypeOK
  BY <1>1 DEF AlignInit, AlignTypeOK, None
<1>3. StageInv
  BY DEF AlignInit, StageInv, None
<1>4. FlatInv
  BY <1>1, WidthAssumption DEF AlignInit, FlatInv
<1>5. LossAligned
  BY DEF AlignInit, LossAligned
<1> QED
  BY <1>2, <1>3, <1>4, <1>5 DEF IInv

\* A server's answer is the extraction of its own row.
LEMMA ServeInv ==
  ASSUME IInv, NEW r \in Rows, NEW v \in Views, Serve(r, v)
  PROVE  IInv'
<1>1. AlignTypeOK /\ StageInv /\ FlatInv /\ LossAligned
  BY DEF IInv
<1>2. shape' = shape /\ padded' = padded /\ gate' = gate /\ flat' = flat
      /\ offsets' = offsets /\ loss' = loss
  BY DEF Serve
<1>3. served' = [served EXCEPT ![r][v] = Source(r, v)]
  BY DEF Serve, Source
<1>4. Source(r, v) \in Seq(Entries)
  BY <1>1, RowShape DEF AlignTypeOK
<1>5. AlignTypeOK'
  BY <1>1, <1>2, <1>3, <1>4 DEF AlignTypeOK
<1>6. StageInv'
  <2>1. \A q \in Rows, u \in Views : served'[q][u] \in {<<>>, Source(q, u)}
    BY <1>1, <1>3 DEF StageInv, AlignTypeOK
  <2> QED
    BY <1>1, <1>2, <2>1 DEF StageInv, Source, Framed, Aligned
<1>7. FlatInv' /\ LossAligned'
  BY <1>1, <1>2 DEF FlatInv, LossAligned, Aligned, Source
<1> QED
  BY <1>5, <1>6, <1>7 DEF IInv

\* Post-processing frames both views of one row.
LEMMA PostprocessInv ==
  ASSUME IInv, NEW r \in Rows, Postprocess(r)
  PROVE  IInv'
<1>1. AlignTypeOK /\ StageInv /\ FlatInv /\ LossAligned
  BY DEF IInv
<1>2. shape' = shape /\ served' = served /\ gate' = gate /\ flat' = flat
      /\ offsets' = offsets /\ loss' = loss
  BY DEF Postprocess
<1>3. padded' = [padded EXCEPT ![r] = [v \in Views |-> Framed(r, v)]]
  <2>1. \A v \in Views : served[r][v] = Source(r, v)
    BY <1>1 DEF StageInv, Postprocess
  <2> QED
    BY <2>1 DEF Postprocess, Framed, Aligned
<1>4. \A v \in Views : Framed(r, v) \in Seq(Entries)
  BY <1>1, RowShape DEF AlignTypeOK
<1>5. AlignTypeOK'
  BY <1>1, <1>2, <1>3, <1>4 DEF AlignTypeOK
<1>6. StageInv'
  <2>1. \A q \in Rows, u \in Views :
          /\ padded'[q][u] \in {<<>>, Framed(q, u)}
          /\ padded[q][u] = Framed(q, u) => padded'[q][u] = Framed(q, u)
    BY <1>1, <1>3 DEF StageInv, AlignTypeOK
  <2> QED
    BY <1>1, <1>2, <2>1 DEF StageInv, Source, Framed, Aligned
<1>7. FlatInv' /\ LossAligned'
  BY <1>1, <1>2 DEF FlatInv, LossAligned, Aligned, Source
<1> QED
  BY <1>5, <1>6, <1>7 DEF IInv

\* The gate slices framed rows.
LEMMA GateInv ==
  ASSUME IInv, ComputeGate
  PROVE  IInv'
<1>1. AlignTypeOK /\ StageInv /\ FlatInv /\ LossAligned
  BY DEF IInv
<1>2. shape' = shape /\ served' = served /\ padded' = padded /\ flat' = flat
      /\ offsets' = offsets /\ loss' = loss
  BY DEF ComputeGate
<1>3. \A r \in Rows, v \in Views : padded[r][v] = Framed(r, v)
  BY <1>1 DEF StageInv, ComputeGate
<1>4. gate' = [r \in Rows |-> [v \in Views |-> GateSlice(Framed(r, v))]]
  BY <1>3 DEF ComputeGate
<1>5. \A r \in Rows, v \in Views : GateSlice(Framed(r, v)) \in Seq(Entries)
  BY <1>1, GateColumns DEF AlignTypeOK
<1>6. AlignTypeOK'
  BY <1>1, <1>2, <1>4, <1>5 DEF AlignTypeOK
<1>7. StageInv'
  <2>1. \A r \in Rows : gate'[r] = [v \in Views |-> GateSlice(Framed(r, v))]
    BY <1>4
  <2> QED
    BY <1>1, <1>2, <1>3, <2>1 DEF StageInv, Source, Framed, Aligned
<1>8. FlatInv' /\ LossAligned'
  BY <1>1, <1>2 DEF FlatInv, LossAligned, Aligned, Source
<1> QED
  BY <1>6, <1>7, <1>8 DEF IInv

\* Unpadding appends the next row's aligned entries and records where they end.
LEMMA UnpadInv ==
  ASSUME IInv, UnpadRow
  PROVE  IInv'
<1> DEFINE r == Len(offsets) + 1
           P == shape[r].P
           R == shape[r].R
           n == P + R
           F == Framed(r, "teacher")
           A == Aligned(r, "teacher")
           row == Unpadded(F, P, R)
<1>1. AlignTypeOK /\ StageInv /\ FlatInv /\ LossAligned
  BY DEF IInv
<1>2. shape' = shape /\ served' = served /\ padded' = padded /\ gate' = gate /\ loss' = loss
  BY DEF UnpadRow
<1>3. r \in Rows /\ "teacher" \in Views
  BY DEF UnpadRow, Views
<1>4. padded[r]["teacher"] = F
  BY <1>1, <1>3 DEF StageInv, UnpadRow
<1>5. flat' = flat \o row /\ offsets' = Append(offsets, Len(flat) + Len(row))
  BY <1>4 DEF UnpadRow
<1>6. /\ P \in 1..PromptWidth
      /\ R \in 1..ResponseWidth
      /\ F \in Seq(Entries)
      /\ Len(F) = PromptWidth + ResponseWidth
      /\ \A k \in 1..(P + R) : F[PromptWidth - P + k] = A[k]
  BY <1>1, <1>3, RowShape DEF AlignTypeOK
<1>7. /\ flat \in Seq(Entries) /\ Len(flat) \in Nat
      /\ offsets \in Seq(Nat) /\ Len(offsets) \in Nat
  BY <1>1, LenProperties DEF AlignTypeOK
<1>8. \A i \in 1..Len(offsets) :
        /\ shape[i].P + shape[i].R <= offsets[i]
        /\ offsets[i] <= Len(flat)
        /\ \A k \in 1..(shape[i].P + shape[i].R) :
             flat[offsets[i] - (shape[i].P + shape[i].R) + k] = Aligned(i, "teacher")[k]
  BY <1>1 DEF FlatInv
<1>9. \A i \in 1..Len(offsets) : shape[i].P + shape[i].R \in Nat /\ offsets[i] \in Nat
  <2> TAKE i \in 1..Len(offsets)
  <2>1. i \in Rows
    BY <1>3, <1>7, WidthAssumption DEF Rows
  <2>2. shape[i].P \in 1..PromptWidth /\ shape[i].R \in 1..ResponseWidth
    BY <1>1, <2>1 DEF AlignTypeOK, Shapes
  <2>3. offsets[i] \in Nat
    BY <1>7, ElementOfSeq
  <2> QED
    BY <2>2, <2>3, WidthAssumption
<1> HIDE DEF P, R, F, A, row, r
<1>10. PromptWidth \in Nat /\ ResponseWidth \in Nat /\ P \in Nat /\ R \in Nat
       /\ 1 <= P /\ P <= PromptWidth /\ 1 <= R /\ R <= ResponseWidth /\ r \in Nat
       /\ r = Len(offsets) + 1 /\ n \in Nat
  BY <1>3, <1>6, <1>7, WidthAssumption DEF Rows, r
<1>11. /\ row \in Seq(Entries)
       /\ Len(row) = n
       /\ \A k \in 1..n : row[k] = A[k]
  <2> DEFINE a == PromptWidth - P + 1
             b == PromptWidth + R
  <2>1. a \in Nat \ {0} /\ b \in Nat /\ a <= b + 1 /\ b <= Len(F) /\ b - a + 1 = n
    BY <1>6, <1>10
  <2>2. \A k \in 1..n : a + k - 1 = PromptWidth - P + k
    BY <1>10
  <2> HIDE DEF a, b
  <2>3. /\ SubSeq(F, a, b) \in Seq(Entries)
        /\ Len(SubSeq(F, a, b)) = b - a + 1
        /\ \A i \in 1..(b - a + 1) : SubSeq(F, a, b)[i] = F[a + i - 1]
    BY <1>6, <2>1, SliceShape
  <2>4. row = SubSeq(F, a, b)
    BY DEF Unpadded, row, a, b
  <2> QED
    BY <1>6, <2>1, <2>2, <2>3, <2>4
<1> HIDE DEF n
<1>12. /\ flat' \in Seq(Entries)
       /\ Len(flat') = Len(flat) + n
       /\ \A i \in 1..(Len(flat) + n) :
            flat'[i] = IF i <= Len(flat) THEN flat[i] ELSE row[i - Len(flat)]
  BY <1>5, <1>7, <1>11, ConcatProperties
<1>13. /\ offsets' \in Seq(Nat)
       /\ Len(offsets') = r
       /\ \A i \in 1..Len(offsets) : offsets'[i] = offsets[i]
       /\ offsets'[r] = Len(flat) + n
  <2>1. Len(flat) + n \in Nat
    BY <1>7, <1>10
  <2>2. offsets' = Append(offsets, Len(flat) + n)
    BY <1>5, <1>11
  <2> QED
    BY <1>7, <1>10, <2>1, <2>2, AppendProperties
<1>14. AlignTypeOK'
  BY <1>1, <1>2, <1>12, <1>13 DEF AlignTypeOK
<1>15. StageInv' /\ LossAligned'
  BY <1>1, <1>2 DEF StageInv, LossAligned, Source, Framed, Aligned
<1>16. FlatInv'
  <2>1. ASSUME NEW i \in 1..Len(offsets')
        PROVE  /\ shape[i].P + shape[i].R <= offsets'[i]
               /\ offsets'[i] <= Len(flat')
               /\ \A k \in 1..(shape[i].P + shape[i].R) :
                    flat'[offsets'[i] - (shape[i].P + shape[i].R) + k] = Aligned(i, "teacher")[k]
    <3>1. CASE i = r
      <4>1. shape[i].P + shape[i].R = n /\ Aligned(i, "teacher") = A
        BY <3>1 DEF n, P, R, A
      <4>2. offsets'[i] = Len(flat) + n
        BY <1>13, <3>1
      <4>3. ASSUME NEW k \in 1..n PROVE flat'[offsets'[i] - n + k] = A[k]
        <5>1. /\ offsets'[i] - n + k = Len(flat) + k
              /\ Len(flat) + k \in 1..(Len(flat) + n)
              /\ ~(Len(flat) + k <= Len(flat))
              /\ Len(flat) + k - Len(flat) = k
          BY <1>7, <1>10, <4>2
        <5>2. flat'[Len(flat) + k] = row[k]
          BY <1>12, <5>1
        <5> QED
          BY <1>11, <5>1, <5>2
      <4>4. n <= offsets'[i] /\ offsets'[i] <= Len(flat')
        BY <1>7, <1>10, <1>12, <4>2
      <4> QED
        BY <4>1, <4>3, <4>4
    <3>2. CASE i # r
      <4> DEFINE m == shape[i].P + shape[i].R
      <4>1. i \in 1..Len(offsets) /\ offsets'[i] = offsets[i]
        BY <1>7, <1>10, <1>13, <3>2
      <4>2. /\ m <= offsets[i]
            /\ offsets[i] <= Len(flat)
            /\ m \in Nat /\ offsets[i] \in Nat
            /\ \A k \in 1..m : flat[offsets[i] - m + k] = Aligned(i, "teacher")[k]
        BY <1>8, <1>9, <4>1
      <4> HIDE DEF m
      <4>3. ASSUME NEW k \in 1..m PROVE flat'[offsets[i] - m + k] = flat[offsets[i] - m + k]
        <5>1. offsets[i] - m + k \in 1..(Len(flat) + n) /\ offsets[i] - m + k <= Len(flat)
          BY <1>7, <1>10, <4>2
        <5> QED
          BY <1>12, <5>1
      <4>4. m <= offsets'[i] /\ offsets'[i] <= Len(flat')
        BY <1>7, <1>10, <1>12, <4>1, <4>2
      <4>5. \A k \in 1..m : flat'[offsets'[i] - m + k] = Aligned(i, "teacher")[k]
        BY <4>1, <4>2, <4>3
      <4> QED
        BY <4>4, <4>5 DEF m
    <3> QED
      BY <3>1, <3>2
  <2>2. Len(offsets') <= NumRows
    BY <1>3, <1>13 DEF Rows
  <2> QED
    BY <1>2, <2>1, <2>2 DEF FlatInv, Aligned, Source
<1> QED
  BY <1>14, <1>15, <1>16 DEF IInv

\* The loss slices, before an offset, the columns of the row that ends there.
LEMMA SliceInv ==
  ASSUME IInv, NEW r \in Rows, SliceRow(r)
  PROVE  IInv'
<1> DEFINE P == shape[r].P
           R == shape[r].R
           A == Aligned(r, "teacher")
           off == offsets[r]
           S == SubSeq(flat, off - R, off - 1)
           Z == Zeros(ResponseWidth - R)
<1>1. AlignTypeOK /\ StageInv /\ FlatInv /\ LossAligned
  BY DEF IInv
<1>2. shape' = shape /\ served' = served /\ padded' = padded /\ gate' = gate
      /\ flat' = flat /\ offsets' = offsets
  BY DEF SliceRow
<1>3. r \in 1..Len(offsets) /\ "teacher" \in Views
  BY DEF SliceRow, Rows, Views
<1>4. loss' = [loss EXCEPT ![r] = S \o Z]
  BY DEF SliceRow, LossSlice
<1>5. /\ P \in 1..PromptWidth
      /\ R \in 1..ResponseWidth
      /\ \A j \in 1..(R - 1) : A[P + j] = Tok(r, j + 1)
      /\ shape[r].T["teacher"] = P => A[P] = Tok(r, 1)
  BY <1>1, <1>3, RowShape DEF AlignTypeOK
<1>6. /\ P + R <= off
      /\ off <= Len(flat)
      /\ \A k \in 1..(P + R) : flat[off - (P + R) + k] = A[k]
  BY <1>1, <1>3 DEF FlatInv
<1>7. flat \in Seq(Entries) /\ Len(flat) \in Nat /\ off \in Nat
  BY <1>1, <1>3, LenProperties, ElementOfSeq DEF AlignTypeOK
<1> HIDE DEF P, R, A, off, S, Z
<1>8. PromptWidth \in Nat /\ ResponseWidth \in Nat /\ P \in Nat /\ R \in Nat
      /\ 1 <= P /\ P <= PromptWidth /\ 1 <= R /\ R <= ResponseWidth
  BY <1>5, WidthAssumption
<1>9. /\ S \in Seq(Entries)
      /\ Len(S) = R
      /\ \A j \in 1..R : S[j] = A[P + (j - 1)]
  <2> DEFINE a == off - R
             b == off - 1
  <2>1. a \in Nat \ {0} /\ b \in Nat /\ a <= b + 1 /\ b <= Len(flat) /\ b - a + 1 = R
    BY <1>6, <1>7, <1>8
  <2>2. \A j \in 1..R : /\ a + j - 1 = off - (P + R) + (P + (j - 1))
                        /\ P + (j - 1) \in 1..(P + R)
    BY <1>7, <1>8
  <2>3. S = SubSeq(flat, a, b)
    BY DEF S
  <2> HIDE DEF a, b
  <2>4. /\ SubSeq(flat, a, b) \in Seq(Entries)
        /\ Len(SubSeq(flat, a, b)) = b - a + 1
        /\ \A i \in 1..(b - a + 1) : SubSeq(flat, a, b)[i] = flat[a + i - 1]
    BY <1>7, <2>1, SliceShape
  <2>5. ASSUME NEW j \in 1..R PROVE S[j] = A[P + (j - 1)]
    <3>1. S[j] = flat[a + j - 1]
      BY <2>1, <2>3, <2>4
    <3>2. flat[off - (P + R) + (P + (j - 1))] = A[P + (j - 1)]
      BY <1>6, <2>2
    <3> QED
      BY <2>2, <3>1, <3>2
  <2> QED
    BY <2>1, <2>3, <2>4, <2>5
<1>10. /\ Z \in Seq(Entries)
       /\ Len(Z) = ResponseWidth - R
       /\ \A i \in 1..(ResponseWidth - R) : Z[i] = Zero
  BY <1>8, ZerosShape DEF Z
<1> DEFINE L == S \o Z
<1>11. /\ L \in Seq(Entries)
       /\ Len(L) = Len(S) + Len(Z)
       /\ \A j \in 1..(Len(S) + Len(Z)) : L[j] = IF j <= Len(S) THEN S[j] ELSE Z[j - Len(S)]
  BY <1>9, <1>10, ConcatProperties
<1>12. loss' = [loss EXCEPT ![r] = L]
  BY <1>4
<1> HIDE DEF L
<1>13. Len(L) = ResponseWidth
  BY <1>8, <1>9, <1>10, <1>11
<1>14. ASSUME NEW j \in 1..ResponseWidth
       PROVE  IF j > R THEN L[j] = Zero
              ELSE j > 1 \/ shape[r].T["teacher"] = P => L[j] = Tok(r, j)
  <2>1. j \in 1..(Len(S) + Len(Z)) /\ Len(S) = R
    BY <1>8, <1>9, <1>10
  <2>2. L[j] = IF j <= R THEN S[j] ELSE Z[j - R]
    BY <1>11, <2>1
  <2>3. CASE j > R
    <3>1. j - R \in 1..(ResponseWidth - R) /\ ~(j <= R)
      BY <1>8, <2>3
    <3> QED
      BY <1>10, <2>2, <2>3, <3>1
  <2>4. CASE j <= R /\ j > 1
    <3>1. j - 1 \in 1..(R - 1) /\ j \in 1..R /\ (j - 1) + 1 = j /\ ~(j > R)
      BY <1>8, <2>4
    <3>2. A[P + (j - 1)] = Tok(r, (j - 1) + 1)
      BY <1>5, <3>1
    <3> QED
      BY <1>9, <2>2, <2>4, <3>1, <3>2
  <2>5. CASE j = 1
    <3>1. j \in 1..R /\ P + (j - 1) = P /\ ~(j > R) /\ j <= R /\ ~(j > 1)
      BY <1>8, <2>5
    <3> QED
      BY <1>5, <1>9, <2>2, <2>5, <3>1
  <2> QED
    BY <1>8, <2>3, <2>4, <2>5
<1>15. AlignTypeOK'
  BY <1>1, <1>2, <1>11, <1>12 DEF AlignTypeOK
<1>16. StageInv' /\ FlatInv'
  BY <1>1, <1>2 DEF StageInv, FlatInv, Source, Framed, Aligned
<1>17. LossAligned'
  <2>1. loss'[r] = L /\ \A q \in Rows : q # r => loss'[q] = loss[q]
    BY <1>1, <1>12 DEF AlignTypeOK
  <2>2. ASSUME NEW q \in Rows, loss'[q] # <<>>
        PROVE  /\ Len(loss'[q]) = ResponseWidth
               /\ \A j \in 1..ResponseWidth :
                    IF j > shape[q].R THEN loss'[q][j] = Zero
                    ELSE j > 1 \/ shape[q].T["teacher"] = shape[q].P => loss'[q][j] = Tok(q, j)
    <3>1. CASE q = r
      BY <1>13, <1>14, <2>1, <3>1 DEF P, R
    <3>2. CASE q # r
      BY <1>1, <2>1, <2>2, <3>2 DEF LossAligned
    <3> QED
      BY <3>1, <3>2
  <2> QED
    BY <1>2, <2>2 DEF LossAligned
<1> QED
  BY <1>15, <1>16, <1>17 DEF IInv

\* The invariant holds throughout.
THEOREM Invariance == AlignSpec => []IInv
<1>1. IInv /\ [AlignNext]_alignVars => IInv'
  <2> SUFFICES ASSUME IInv, [AlignNext]_alignVars PROVE IInv'
    OBVIOUS
  <2>1. CASE \E r \in Rows, v \in Views : Serve(r, v)
    BY <2>1, ServeInv
  <2>2. CASE \E r \in Rows : Postprocess(r)
    BY <2>2, PostprocessInv
  <2>3. CASE \E r \in Rows : SliceRow(r)
    BY <2>3, SliceInv
  <2>4. CASE ComputeGate
    BY <2>4, GateInv
  <2>5. CASE UnpadRow
    BY <2>5, UnpadInv
  <2>6. CASE UNCHANGED alignVars
    BY <2>6 DEF alignVars, IInv, AlignTypeOK, StageInv, FlatInv, LossAligned, Source, Framed, Aligned
  <2> QED
    BY <2>1, <2>2, <2>3, <2>4, <2>5, <2>6 DEF AlignNext
<1> QED
  BY <1>1, InitInv, PTL DEF AlignSpec

\* Every list the pipeline builds holds entries of the batch's rows.
THEOREM TypeCorrect == AlignSpec => []AlignTypeOK
BY Invariance, PTL DEF IInv

\* The rows of every view have the batch's width, so torch.cat accepts them.
THEOREM RowsAlwaysStack == AlignSpec => []RowsStack
<1>1. IInv => RowsStack
  <2> SUFFICES ASSUME IInv, NEW r \in Rows, NEW v \in Views, padded[r][v] # <<>>
               PROVE  Len(padded[r][v]) = PromptWidth + ResponseWidth
    BY DEF RowsStack
  <2>1. padded[r][v] = Framed(r, v)
    BY DEF IInv, StageInv
  <2> QED
    BY <2>1, RowShape DEF IInv, AlignTypeOK
<1> QED
  BY <1>1, Invariance, PTL

\* The distillation loss pairs teacher and student tokens of the same row, for
\* every batch size and width (the first column: for equal prompt lengths).
THEOREM LossIsAligned == AlignSpec => []LossAligned
BY Invariance, PTL DEF IInv

\* The cue gate compares the two views token by token.
THEOREM GateComparesLikeWithLike == AlignSpec => []GateViewsAgree
<1>1. IInv => GateViewsAgree
  <2> SUFFICES ASSUME IInv, NEW r \in Rows, gate[r] # None
               PROVE  gate[r]["teacher"] = gate[r]["nocue"]
    BY DEF GateViewsAgree
  <2> DEFINE G(v) == GateSlice(Framed(r, v))
  <2>1. gate[r] = [v \in Views |-> G(v)] /\ "teacher" \in Views /\ "nocue" \in Views
    BY DEF IInv, StageInv, Views
  <2>2. shape \in [Rows -> Shapes]
    BY DEF IInv, AlignTypeOK
  <2>3. \A v \in Views : /\ G(v) \in Seq(Entries)
                         /\ Len(G(v)) = ResponseWidth
                         /\ \A j \in 1..ResponseWidth :
                              G(v)[j] = IF j < shape[r].R THEN Tok(r, j + 1) ELSE Zero
    BY <2>2, GateColumns
  <2> HIDE DEF G
  <2>4. Len(G("teacher")) = Len(G("nocue"))
        /\ \A j \in 1..Len(G("teacher")) : G("teacher")[j] = G("nocue")[j]
    BY <2>1, <2>3
  <2>5. G("teacher") = G("nocue")
    BY <2>1, <2>3, <2>4, SeqEqual
  <2> QED
    BY <2>1, <2>5
<1> QED
  BY <1>1, Invariance, PTL
=============================================================================
