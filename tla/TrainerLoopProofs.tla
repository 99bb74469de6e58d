------------------------- MODULE TrainerLoopProofs -------------------------
(***************************************************************************)
(* Proofs about TrainerLoop, for every length of the epochs, every save    *)
(* frequency, warmup and number of launches. BaseInv gives the type of the *)
(* state and OnPolicy. RunInv, for managers that never keep exactly one    *)
(* checkpoint, gives TrackedConsistent, FailsOnlyTorn and the refinement   *)
(* of DurableRun.                                                          *)
(***************************************************************************)
EXTENDS TrainerLoop, TLAPS

-----------------------------------------------------------------------------
(* The base invariant: types, the position in the data, the servers.       *)

\* global_steps is the place of the present batch in the data: between two
\* steps it is one ahead of the batches drawn, inside a step it counts them.
Position ==
    /\ pc = "loop" => step - 1 = epoch * StepsPerEpoch + loader.pos
    /\ pc \notin {"down", "done", "failed", "loop"} =>
          /\ step = epoch * StepsPerEpoch + loader.pos
          /\ loader.pos > 0 /\ epoch < TotalEpochs

\* The servers are awake and hold the actor's weights whenever the loop can
\* draw a batch.
Synced ==
    /\ pc \in {"loop", "end"} => awake /\ rollout = w["actor"]
    /\ pc = "update" => gen.awake /\ gen.weights = w["actor"]

\* The folder that the tracker names has the dataloader's state of its step.
TrackedData ==
    /\ tracker.st # "absent" =>
          /\ tracker.step \in Steps
          /\ disk[tracker.step].data.st = "whole"
          /\ disk[tracker.step].data.val.pos = PosOf(tracker.step)
    /\ pc \in {"track", "torn"} => disk[step].data = [st |-> "whole", val |-> loader]

BaseInv == TypeOK /\ Position /\ Synced /\ TrackedData

-----------------------------------------------------------------------------
(* The invariant of the run.                                               *)

\* Both managers keep every checkpoint (0) or at least two. With one, the
\* rotation removes the tracked shard before the tracker names the new one.
KeepsOlder == \A p \in Parts : MaxKeep[p] # 1

\* The last batch behind weights is the one the dataloader stands at.
EndsAt(wp, b) == wp # <<>> => Last(wp) = b

\* The weights in memory are those of an uninterrupted run.
Memory ==
    /\ pc = "loop" => \A p \in Parts :
          /\ TrainedThrough(p, w[p], step - 1)
          /\ loader.pos > 0 => EndsAt(w[p], loader)
    /\ pc = "update" => \A p \in Parts :
          /\ TrainedThrough(p, w[p], step - 1)
          /\ loader.pos > 1 /\ w[p] # <<>> => Last(w[p]).order = loader.order
    /\ pc \notin {"down", "done", "failed", "loop", "update"} => \A p \in Parts :
          TrainedThrough(p, w[p], step) /\ EndsAt(w[p], loader)
    /\ ~Running => w = None

\* A folder is whole and of one moment, step n.
FolderGood(f, n) ==
    /\ \A p \in Parts :
          /\ f.part[p].st = "whole" /\ TrainedThrough(p, f.part[p].val, n)
          /\ EndsAt(f.part[p].val, f.data.val)
    /\ f.data.st = "whole" /\ f.data.val.pos = PosOf(n)

\* What the tracker names can be resumed from, its tearing included.
Tracked == tracker.st # "absent" => FolderGood(disk[tracker.step], tracker.step)

\* The tracker lags behind the step until the save rewrites it.
Behind ==
    /\ Running /\ tracker.st = "torn" => pc = "torn"
    /\ pc \in {"loop", "update", "actor", "actor_open", "critic", "critic_open", "data", "track"}
          /\ tracker.st # "absent" => tracker.step < step
    /\ pc = "torn" => tracker.step = step /\ tracker.st = "torn"
    /\ pc \in {"sync", "end"} /\ tracker.st # "absent" => tracker.step <= step
    /\ pc = "failed" => tracker.st = "torn"

\* The parts that the present save has written.
Written == {p \in Parts : \/ pc \in {"data", "track", "torn"}
                          \/ p = "actor" /\ pc \in {"critic", "critic_open"}}

\* A manager's newest path is the step being saved if its part is written,
\* and otherwise the tracked one: that one is never rotated away.
Paths ==
    /\ \A p \in Written : /\ disk[step].part[p] = Whole(w[p])
                          /\ saved[p] # <<>> /\ Last(saved[p]) = step
    /\ \A p \in Parts \ Written : saved[p] # <<>> =>
          tracker.st = "whole" /\ tracker.step = Last(saved[p])

RunInv == BaseInv /\ Memory /\ Tracked /\ Behind /\ Paths

-----------------------------------------------------------------------------
(* Steps, epochs and positions.                                            *)

\* Multiplication by a natural number is monotone.
LEMMA MulMono == \A a, b, k \in Nat : a <= b => a * k <= b * k
  BY Z3

\* What // and % return, as _load_checkpoint and fit use them on global_steps.
LEMMA DivMod == ASSUME NEW n \in Nat, NEW k \in Nat \ {0}
  PROVE /\ n \div k \in Nat
        /\ n % k \in 0..(k - 1)
        /\ n = (n \div k) * k + (n % k)
  BY Z3

\* Quotient and remainder are unique.
LEMMA RemUnique ==
  ASSUME NEW k \in Nat \ {0}, NEW a \in Nat, NEW b \in Nat,
         NEW x \in 0..(k - 1), NEW y \in 0..(k - 1), a * k + x = b * k + y
  PROVE  a = b /\ x = y
<1>1. ASSUME NEW c \in Nat, NEW d \in Nat, NEW u \in 0..(k - 1), NEW v \in 0..(k - 1),
             c * k + u = d * k + v
      PROVE  ~(c < d)
  <2>1. SUFFICES ASSUME c < d PROVE FALSE
    OBVIOUS
  <2>2. (c + 1) * k <= d * k
    BY <2>1, MulMono
  <2>3. (c + 1) * k = c * k + k
    BY Z3
  <2> DEFINE C == c * k
             D == d * k
  <2>4. C \in Nat /\ D \in Nat /\ C + k <= D /\ C + u = D + v
    BY <1>1, <2>2, <2>3
  <2> HIDE DEF C, D
  <2> QED BY <2>4
<1>2. ~(a < b) /\ ~(b < a)
  BY <1>1
<1>3. a = b
  BY <1>2
<1> DEFINE A == a * k
<1>4. A \in Nat /\ A + x = A + y
  BY <1>3
<1> HIDE DEF A
<1> QED BY <1>3, <1>4

\* The place of batch j of epoch e: its step is a folder of the disk, and its
\* position is the step's (global_steps // len(train_dataloader)).
LEMMA Place ==
  ASSUME NEW e \in Nat, NEW j \in 1..StepsPerEpoch, e < TotalEpochs
  PROVE  /\ e * StepsPerEpoch + j \in Steps
         /\ e * StepsPerEpoch + j > 0
         /\ PosOf(e * StepsPerEpoch + j) = j
<1> DEFINE K == StepsPerEpoch
           E == e * K
<1>0. K \in Nat \ {0} /\ TotalEpochs \in Nat \ {0}
  BY TrainerAssumption
<1>1. (e + 1) * K <= TotalEpochs * K /\ (e + 1) * K = E + K /\ E \in Nat
      /\ TotalEpochs * K = K * TotalEpochs
  BY <1>0, MulMono
<1>2. (E + j) - 1 \in Nat /\ (E + j) - 1 = e * K + (j - 1) /\ j - 1 \in 0..(K - 1)
  BY <1>0, <1>1
<1>3. ((E + j) - 1) % K = j - 1
  <2> DEFINE m == (E + j) - 1
             q == m \div K
             r == m % K
  <2>1. q \in Nat /\ r \in 0..(K - 1) /\ m = q * K + r
    BY <1>2, <1>0, DivMod
  <2>2. m = e * K + (j - 1)
    BY <1>2
  <2> HIDE DEF m, q, r, K
  <2>3. r = j - 1
    BY <2>1, <2>2, <1>0, <1>2, RemUnique
  <2> QED BY <2>3 DEF m, r
<1>4. PosOf(E + j) = j
  BY <1>3, <1>0 DEF PosOf
<1>5. K * TotalEpochs \in Nat /\ E + K <= K * TotalEpochs
  BY <1>0, <1>1
<1> DEFINE M == K * TotalEpochs
<1>6. E + j \in 0..M /\ E + j > 0
  <2> HIDE DEF E, M
  <2> QED BY <1>5, <1>1, <1>0 DEF M
<1> QED BY <1>4, <1>6 DEF Steps

\* A step that is no epoch boundary has its remainder as position.
LEMMA PosInside ==
  ASSUME NEW n \in Nat, n % StepsPerEpoch # 0
  PROVE  PosOf(n) = n % StepsPerEpoch
<1> DEFINE K == StepsPerEpoch
           q == n \div K
           r == n % K
<1>0. K \in Nat \ {0}
  BY TrainerAssumption
<1>1. q \in Nat /\ r \in 1..(K - 1) /\ n = q * K + r
  BY <1>0, DivMod
<1> DEFINE Q == q * K
           m == n - 1
           q2 == m \div K
           r2 == m % K
<1>2. Q \in Nat /\ m \in Nat /\ m = Q + (r - 1) /\ r - 1 \in 0..(K - 1)
  BY <1>0, <1>1
<1>3. q2 \in Nat /\ r2 \in 0..(K - 1) /\ m = q2 * K + r2
  BY <1>0, <1>2, DivMod
<1>4. r2 = r - 1
  <2>1. m = q * K + (r - 1)
    BY <1>2
  <2> HIDE DEF q, r, q2, r2, m, K
  <2> QED BY <2>1, <1>3, <1>0, <1>1, <1>2, RemUnique
<1> QED BY <1>4, <1>1, <1>0 DEF PosOf

\* Inside a step, global_steps names a folder and has the batch's position.
LEMMA StepPlace ==
  ASSUME TypeOK, Position, pc \notin {"down", "done", "failed", "loop"}
  PROVE  step \in Steps /\ step > 0 /\ PosOf(step) = loader.pos
         /\ loader \in Batch
<1>1. loader.pos \in 1..StepsPerEpoch /\ epoch \in Nat /\ epoch < TotalEpochs
      /\ step = epoch * StepsPerEpoch + loader.pos
  BY TrainerAssumption DEF TypeOK, Position
<1>2. loader \in Batch
  BY <1>1 DEF TypeOK, Batch
<1> QED BY <1>1, <1>2, Place

-----------------------------------------------------------------------------
(* The base invariant is inductive.                                        *)

\* The actor is always a part.
LEMMA ActorPart == "actor" \in Parts /\ Parts \subseteq {"actor", "critic"}
  BY TrainerAssumption DEF Parts

\* The empty state of the process has its types (Reset, and before a launch).
LEMMA EmptyType ==
  /\ Fresh \in [order : Nat \ {0}, pos : 0..StepsPerEpoch]
  /\ None \in [Parts -> Seq(Batch)] /\ None \in [Parts -> Seq(Nat)]
  /\ <<>> \in Seq(Batch) /\ <<>> \in Seq(Nat)
  /\ NoFolder \in Folder
  /\ Absent \in [st : {"absent", "partial", "whole"}, val : Seq(Batch)]
  /\ Partial \in [st : {"absent", "partial", "whole"}, val : Seq(Batch)]
<1>1. Fresh \in [order : Nat \ {0}, pos : 0..StepsPerEpoch]
  BY TrainerAssumption DEF Fresh
<1>2. <<>> \in Seq(Batch) /\ <<>> \in Seq(Nat)
  OBVIOUS
<1>3. Absent \in [st : {"absent", "partial", "whole"}, val : Seq(Batch)]
      /\ Partial \in [st : {"absent", "partial", "whole"}, val : Seq(Batch)]
  BY <1>2 DEF Absent, Partial
<1>4. NoFolder \in Folder
  BY <1>1, <1>3 DEF NoFolder, Folder
<1> QED BY <1>1, <1>2, <1>3, <1>4 DEF None

\* A write of one part by a checkpoint manager: the type of the disk, and
\* what stays (save_checkpoint of one worker group).
LEMMA DiskWithStays ==
  ASSUME TypeOK, NEW p \in Parts, NEW kept,
         NEW f \in [st : {"absent", "partial", "whole"}, val : Seq(Batch)]
  PROVE  /\ DiskWith(p, f, kept) \in [Steps -> Folder]
         /\ \A n \in Steps : DiskWith(p, f, kept)[n].data = disk[n].data
         /\ \A n \in Steps : \A q \in Parts \ {p} :
               DiskWith(p, f, kept)[n].part[q] = disk[n].part[q]
         /\ \A n \in Steps : n = step => DiskWith(p, f, kept)[n].part[p] = f
         /\ \A n \in Steps : n # step /\ n \notin Removed(p, kept) =>
               DiskWith(p, f, kept)[n] = disk[n]
<1> DEFINE R == Removed(p, kept)
<1> HIDE DEF R
<1>1. DiskWith(p, f, kept) =
        [n \in Steps |-> IF n = step THEN [disk[n] EXCEPT !.part[p] = f]
                         ELSE IF n \in R THEN [disk[n] EXCEPT !.part[p] = Absent]
                         ELSE disk[n]]
  BY DEF DiskWith, R
<1>2. ASSUME NEW d \in Folder, NEW g \in [st : {"absent", "partial", "whole"}, val : Seq(Batch)]
      PROVE  /\ [d EXCEPT !.part[p] = g] \in Folder
             /\ [d EXCEPT !.part[p] = g].data = d.data
             /\ [d EXCEPT !.part[p] = g].part[p] = g
             /\ \A q \in Parts \ {p} : [d EXCEPT !.part[p] = g].part[q] = d.part[q]
  BY DEF Folder
<1>3. \A n \in Steps : disk[n] \in Folder
  BY DEF TypeOK
<1>4. Absent \in [st : {"absent", "partial", "whole"}, val : Seq(Batch)]
  BY EmptyType
<1>5. ASSUME NEW n \in Steps
      PROVE  /\ DiskWith(p, f, kept)[n] \in Folder
             /\ DiskWith(p, f, kept)[n].data = disk[n].data
             /\ \A q \in Parts \ {p} : DiskWith(p, f, kept)[n].part[q] = disk[n].part[q]
             /\ n = step => DiskWith(p, f, kept)[n].part[p] = f
             /\ n # step /\ n \notin R => DiskWith(p, f, kept)[n] = disk[n]
  <2>1. CASE n = step
    <3>1. DiskWith(p, f, kept)[n] = [disk[n] EXCEPT !.part[p] = f]
      BY <1>1, <2>1
    <3> QED BY <3>1, <1>2, <1>3, <2>1
  <2>2. CASE n # step /\ n \in R
    <3>1. DiskWith(p, f, kept)[n] = [disk[n] EXCEPT !.part[p] = Absent]
      BY <1>1, <2>2
    <3> QED BY <3>1, <1>2, <1>3, <1>4, <2>2
  <2>3. CASE n # step /\ n \notin R
    <3>1. DiskWith(p, f, kept)[n] = disk[n]
      BY <1>1, <2>3
    <3> QED BY <3>1, <1>3, <2>3
  <2> QED BY <2>1, <2>2, <2>3
<1>6. DiskWith(p, f, kept) \in [Steps -> Folder]
  <2>1. \A n \in Steps : DiskWith(p, f, kept)[n] \in Folder
    BY <1>5
  <2>2. DiskWith(p, f, kept) = [n \in Steps |-> DiskWith(p, f, kept)[n]]
    BY <1>1
  <2> QED BY <2>1, <2>2
<1> QED BY <1>5, <1>6 DEF R

\* The paths that a manager keeps are steps.
LEMMA KeptType ==
  ASSUME TypeOK, NEW p \in Parts
  PROVE  Capacity(p) \in Seq(Nat) /\ Registered(p) \in Seq(Nat)
<1>0. saved[p] \in Seq(Nat) /\ step \in Nat /\ MaxKeep[p] \in Nat
  BY TrainerAssumption DEF TypeOK
<1>1. ASSUME NEW s \in Seq(Nat), NEW n \in 1..Len(s)
      PROVE  Suffix(s, n) \in Seq(Nat)
  BY DEF Suffix
<1>2. Capacity(p) \in Seq(Nat)
  <2>1. CASE MaxKeep[p] > 1 /\ Len(saved[p]) >= MaxKeep[p]
    <3>1. MaxKeep[p] - 1 \in 1..Len(saved[p])
      BY <1>0, <2>1
    <3> QED BY <1>0, <1>1, <2>1, <3>1 DEF Capacity
  <2>2. CASE ~(MaxKeep[p] > 1 /\ Len(saved[p]) >= MaxKeep[p])
    BY <1>0, <2>2 DEF Capacity
  <2> QED BY <2>1, <2>2
<1>3. Registered(p) \in Seq(Nat)
  <2> DEFINE all == Append(saved[p], step)
  <2>0. all \in Seq(Nat)
    BY <1>0
  <2>1. CASE MaxKeep[p] > 0 /\ Len(all) > MaxKeep[p]
    <3>1. MaxKeep[p] \in 1..Len(all)
      BY <1>0, <2>0, <2>1
    <3>2. Registered(p) = Suffix(all, MaxKeep[p])
      BY <2>1 DEF Registered
    <3> QED BY <2>0, <1>1, <3>1, <3>2
  <2>2. CASE ~(MaxKeep[p] > 0 /\ Len(all) > MaxKeep[p])
    <3>1. Registered(p) = all
      BY <2>2 DEF Registered
    <3> QED BY <3>1, <2>0
  <2> QED BY <2>1, <2>2
<1> QED BY <1>2, <1>3

\* A process that has ended, or failed to load, holds nothing.
LEMMA ResetBase ==
  ASSUME BaseInv, Reset, pc' \in {"down", "done", "failed"},
         UNCHANGED <<disk, tracker>>, launches' \in Nat
  PROVE  BaseInv'
<1>1. TypeOK'
  BY EmptyType DEF BaseInv, TypeOK, Reset, PCs
<1>2. Position' /\ Synced'
  BY DEF Position, Synced
<1>3. TrackedData'
  BY DEF BaseInv, TrackedData
<1> QED BY <1>1, <1>2, <1>3 DEF BaseInv

\* What a launch that resumes from step n starts with.
LEMMA ResumeBase ==
  ASSUME BaseInv, NEW n \in Nat, NEW weights \in [Parts -> Seq(Batch)],
         NEW data \in [order : Nat \ {0}, pos : 0..StepsPerEpoch],
         data.pos = n % StepsPerEpoch,
         Resume(n, weights, data), UNCHANGED <<disk, tracker>>, launches' \in Nat
  PROVE  BaseInv'
<1>0. /\ n \div StepsPerEpoch \in Nat
      /\ n = (n \div StepsPerEpoch) * StepsPerEpoch + (n % StepsPerEpoch)
  BY TrainerAssumption, DivMod
<1>1. TypeOK'
  <2>1. pc' \in PCs /\ step' \in Nat /\ epoch' \in Nat /\ launches' \in Nat
    BY <1>0 DEF Resume, PCs
  <2>2. w' \in [Parts -> Seq(Batch)] /\ rollout' \in Seq(Batch)
    BY ActorPart DEF Resume
  <2>3. loader' \in [order : Nat \ {0}, pos : 0..StepsPerEpoch] /\ awake' \in BOOLEAN
        /\ gen' \in [weights : Seq(Batch), awake : BOOLEAN] /\ saved' \in [Parts -> Seq(Nat)]
    BY EmptyType DEF Resume
  <2> QED BY <2>1, <2>2, <2>3 DEF BaseInv, TypeOK
<1>2. Position'
  <2>1. step' - 1 = n /\ epoch' = n \div StepsPerEpoch /\ loader'.pos = n % StepsPerEpoch /\ pc' = "loop"
    BY DEF Resume
  <2> QED BY <1>0, <2>1 DEF Position
<1>3. Synced'
  BY DEF Synced, Resume
<1>4. TrackedData'
  BY DEF BaseInv, TrackedData, Resume
<1> QED BY <1>1, <1>2, <1>3, <1>4 DEF BaseInv

\* What a launch that can load its tracked folder resumes with: the folder's
\* weights, and the dataloader at the place of the tracked step.
LEMMA LoadedBase ==
  ASSUME BaseInv, ~FromScratch, ~LoadFails
  PROVE  /\ tracker.st = "whole" /\ tracker.step \in Steps /\ tracker.step \in Nat
         /\ [p \in Parts |-> disk[tracker.step].part[p].val] \in [Parts -> Seq(Batch)]
         /\ LoaderAt(tracker.step) \in [order : Nat \ {0}, pos : 0..StepsPerEpoch]
         /\ LoaderAt(tracker.step).pos = tracker.step % StepsPerEpoch
<1>1. tracker.st = "whole"
  BY DEF BaseInv, TypeOK, FromScratch, LoadFails
<1>2. /\ tracker.step \in Steps /\ tracker.step \in Nat /\ disk[tracker.step] \in Folder
      /\ disk[tracker.step].data.st = "whole"
      /\ disk[tracker.step].data.val.pos = PosOf(tracker.step)
  BY <1>1 DEF BaseInv, TypeOK, TrackedData
<1>3. [p \in Parts |-> disk[tracker.step].part[p].val] \in [Parts -> Seq(Batch)]
  BY <1>2 DEF Folder
<1>4. CASE tracker.step % StepsPerEpoch = 0
  BY <1>1, <1>2, <1>3, <1>4, EmptyType DEF LoaderAt, Fresh
<1>5. CASE tracker.step % StepsPerEpoch # 0
  <2>1. LoaderAt(tracker.step) = disk[tracker.step].data.val
    BY <1>2, <1>5 DEF LoaderAt
  <2>2. PosOf(tracker.step) = tracker.step % StepsPerEpoch
    BY <1>2, <1>5, PosInside
  <2> QED BY <1>1, <1>2, <1>3, <2>1, <2>2 DEF Folder
<1> QED BY <1>4, <1>5

\* A launch keeps the base invariant (_load_checkpoint, update_weights).
LEMMA LaunchBase == BaseInv /\ Launch => BaseInv'
<1> SUFFICES ASSUME BaseInv, Launch PROVE BaseInv'
  OBVIOUS
<1>0. launches' \in Nat /\ UNCHANGED <<disk, tracker>>
  BY DEF Launch, BaseInv, TypeOK
<1>1. CASE FromScratch /\ Resume(0, None, Fresh)
  <2>1. 0 % StepsPerEpoch = 0 /\ Fresh.pos = 0
    BY TrainerAssumption, Z3 DEF Fresh
  <2> QED BY <1>0, <1>1, <2>1, EmptyType, ResumeBase
<1>2. CASE /\ ~FromScratch /\ ~LoadFails
           /\ Resume(tracker.step, [p \in Parts |-> disk[tracker.step].part[p].val],
                     LoaderAt(tracker.step))
  BY <1>0, <1>2, LoadedBase, ResumeBase
<1>3. CASE LoadFails /\ pc' = "failed" /\ Reset
  BY <1>0, <1>3, ResetBase
<1> QED BY <1>1, <1>2, <1>3 DEF Launch

\* Drawing a batch, or a new iterator, keeps the base invariant.
LEMMA LoopBase == BaseInv /\ (Generate \/ NextEpoch \/ EndOfEpochs) => BaseInv'
<1> SUFFICES ASSUME BaseInv, Generate \/ NextEpoch \/ EndOfEpochs PROVE BaseInv'
  OBVIOUS
<1>0. /\ StepsPerEpoch \in Nat \ {0} /\ epoch \in Nat /\ step \in Nat
      /\ loader \in [order : Nat \ {0}, pos : 0..StepsPerEpoch]
  BY TrainerAssumption DEF BaseInv, TypeOK
<1>1. CASE Generate
  <2>1. loader' \in [order : Nat \ {0}, pos : 0..StepsPerEpoch] /\ loader'.pos = loader.pos + 1
    BY <1>0, <1>1 DEF Generate
  <2>2. TypeOK'
    BY <1>1, <2>1 DEF BaseInv, TypeOK, Generate, PCs
  <2>3. step' = epoch' * StepsPerEpoch + loader'.pos
    <3> DEFINE E == epoch * StepsPerEpoch
    <3>1. E \in Nat /\ step - 1 = E + loader.pos /\ step' = step /\ epoch' * StepsPerEpoch = E
      BY <1>0, <1>1 DEF BaseInv, Position, Generate
    <3> HIDE DEF E
    <3> QED BY <1>0, <2>1, <3>1
  <2>4. Position'
    BY <1>0, <1>1, <2>1, <2>3 DEF Position, Generate
  <2>5. Synced'
    BY <1>1 DEF BaseInv, Synced, Generate
  <2>6. TrackedData'
    BY <1>1 DEF BaseInv, TrackedData, Generate
  <2> QED BY <2>2, <2>4, <2>5, <2>6 DEF BaseInv
<1>2. CASE NextEpoch
  <2>1. loader' \in [order : Nat \ {0}, pos : 0..StepsPerEpoch] /\ loader'.pos = 0
    BY <1>0, <1>2 DEF NextEpoch
  <2>2. TypeOK'
    BY <1>0, <1>2, <2>1 DEF BaseInv, TypeOK, NextEpoch, PCs
  <2>3. Position'
    <3>1. (epoch + 1) * StepsPerEpoch = epoch * StepsPerEpoch + StepsPerEpoch
      BY <1>0
    <3>2. step - 1 = epoch * StepsPerEpoch + StepsPerEpoch
      BY <1>2 DEF BaseInv, Position, NextEpoch
    <3> QED BY <1>2, <2>1, <3>1, <3>2, <1>0 DEF Position, NextEpoch
  <2>4. Synced'
    BY <1>2 DEF BaseInv, Synced, NextEpoch
  <2>5. TrackedData'
    BY <1>2 DEF BaseInv, TrackedData, NextEpoch
  <2> QED BY <2>2, <2>3, <2>4, <2>5 DEF BaseInv
<1>3. CASE EndOfEpochs
  BY <1>3, ResetBase DEF EndOfEpochs, BaseInv, TypeOK
<1> QED BY <1>1, <1>2, <1>3

\* The updates, the weight sync and the end of a step keep it.
LEMMA UpdateBase ==
  BaseInv /\ (UpdateCritic \/ UpdateActor \/ SyncWeights \/ EndStep) => BaseInv'
<1> SUFFICES ASSUME BaseInv, UpdateCritic \/ UpdateActor \/ SyncWeights \/ EndStep PROVE BaseInv'
  OBVIOUS
<1> USE DEF BaseInv
<1>1. ASSUME pc = "update", NEW p \in Parts PROVE Trained(p) \in Seq(Batch)
  <2>1. loader \in Batch
    BY <1>1, StepPlace
  <2> QED BY <2>1 DEF Trained, TypeOK
<1>2. CASE UpdateCritic
  <2>1. w' \in [Parts -> Seq(Batch)] /\ w'["actor"] = w["actor"]
    BY <1>1, <1>2, ActorPart DEF UpdateCritic, TypeOK
  <2>2. TypeOK'
    BY <1>2, <2>1, ActorPart DEF TypeOK, UpdateCritic, PCs
  <2>3. Position'
    BY <1>2 DEF Position, UpdateCritic
  <2>4. Synced'
    BY <1>2, <2>1 DEF Synced, UpdateCritic
  <2>5. TrackedData'
    BY <1>2 DEF TrackedData, UpdateCritic
  <2> QED BY <2>2, <2>3, <2>4, <2>5
<1>3. CASE UpdateActor
  <2>0. pc' \in {"actor", "sync"}
    BY <1>3 DEF UpdateActor
  <2>1. w' \in [Parts -> Seq(Batch)]
    BY <1>1, <1>3 DEF UpdateActor
  <2>2. TypeOK'
    BY <1>3, <2>0, <2>1 DEF TypeOK, UpdateActor, PCs
  <2>3. Position'
    BY <1>3, <2>0 DEF Position, UpdateActor
  <2>4. Synced'
    BY <2>0 DEF Synced
  <2>5. TrackedData'
    BY <1>3, <2>0 DEF TrackedData, UpdateActor
  <2> QED BY <2>2, <2>3, <2>4, <2>5
<1>4. CASE SyncWeights
  <2>1. TypeOK'
    BY <1>4, ActorPart DEF TypeOK, SyncWeights, PCs
  <2>2. Position'
    BY <1>4 DEF Position, SyncWeights
  <2>3. Synced'
    BY <1>4 DEF Synced, SyncWeights
  <2>4. TrackedData'
    BY <1>4 DEF TrackedData, SyncWeights
  <2> QED BY <2>1, <2>2, <2>3, <2>4
<1>5. CASE EndStep /\ IsLast
  BY <1>5, ResetBase DEF EndStep, TypeOK
<1>6. CASE EndStep /\ ~IsLast
  <2>1. TypeOK'
    BY <1>6 DEF TypeOK, EndStep, PCs
  <2>2. Position'
    <3>1. step = epoch * StepsPerEpoch + loader.pos /\ step' - 1 = step /\ pc' = "loop"
          /\ UNCHANGED <<epoch, loader>>
      BY <1>6 DEF Position, EndStep, TypeOK
    <3> QED BY <3>1 DEF Position
  <2>3. Synced'
    BY <1>6 DEF Synced, EndStep
  <2>4. TrackedData'
    BY <1>6 DEF TrackedData, EndStep
  <2> QED BY <2>1, <2>2, <2>3, <2>4
<1> QED BY <1>2, <1>3, <1>4, <1>5, <1>6

\* The steps of _save_checkpoint keep it: none touches the state of another
\* step's dataloader.
LEMMA SaveBase ==
  ASSUME BaseInv,
         \/ \E p \in Parts : OpenShards(p) \/ CloseShards(p)
         \/ SaveData \/ TruncateTracker \/ WriteTracker
  PROVE  BaseInv'
<1> USE DEF BaseInv
<1>1. ASSUME NEW p \in Parts, NEW kept \in Seq(Nat),
             NEW f \in [st : {"absent", "partial", "whole"}, val : Seq(Batch)],
             pc \in {"actor", "actor_open", "critic", "critic_open"},
             pc' \in {"actor_open", "critic", "critic_open", "data"},
             saved' = [saved EXCEPT ![p] = kept], disk' = DiskWith(p, f, kept),
             UNCHANGED <<step, epoch, loader, w, rollout, awake, gen, tracker, launches>>
      PROVE  BaseInv'
  <2>1. disk' \in [Steps -> Folder] /\ \A n \in Steps : disk'[n].data = disk[n].data
    BY <1>1, DiskWithStays
  <2>2. saved' \in [Parts -> Seq(Nat)]
    BY <1>1 DEF TypeOK
  <2>3. TypeOK'
    BY <1>1, <2>1, <2>2 DEF TypeOK, PCs
  <2>4. Position' /\ Synced'
    BY <1>1 DEF Position, Synced
  <2>5. TrackedData'
    BY <1>1, <2>1 DEF TrackedData
  <2> QED BY <2>3, <2>4, <2>5
<1>2. ASSUME NEW p \in Parts, OpenShards(p) PROVE BaseInv'
  <2>1. pc \in {"actor", "critic"} /\ pc' \in {"actor_open", "critic_open"}
    BY <1>2, ActorPart DEF OpenShards, Open
  <2> QED BY <1>1, <1>2, <2>1, KeptType, EmptyType DEF OpenShards
<1>3. ASSUME NEW p \in Parts, CloseShards(p) PROVE BaseInv'
  <2>1. pc \in {"actor_open", "critic_open"} /\ pc' \in {"critic", "data"}
    BY <1>3, ActorPart DEF CloseShards, Open, AfterSave
  <2>2. Whole(w[p]) \in [st : {"absent", "partial", "whole"}, val : Seq(Batch)]
    BY DEF Whole, TypeOK
  <2> QED BY <1>1, <1>3, <2>1, <2>2, KeptType DEF CloseShards
<1>4. CASE SaveData
  <2>0. step \in Steps /\ PosOf(step) = loader.pos /\ disk \in [Steps -> Folder]
        /\ loader \in [order : Nat \ {0}, pos : 0..StepsPerEpoch]
    BY <1>4, StepPlace DEF SaveData, TypeOK
  <2>1. disk' \in [Steps -> Folder]
    <3> DEFINE d == [st |-> "whole", val |-> loader]
               g == [disk[step] EXCEPT !.data = d]
    <3>1. disk' = [disk EXCEPT ![step] = g]
      BY <1>4 DEF SaveData
    <3>2. d \in [st : {"absent", "whole"}, val : [order : Nat \ {0}, pos : 0..StepsPerEpoch]]
      BY <2>0
    <3>3. disk[step] \in Folder
      BY <2>0
    <3>4. g \in Folder
      <4> HIDE DEF d
      <4> QED BY <3>2, <3>3 DEF Folder
    <3> HIDE DEF g
    <3> QED BY <3>1, <3>4, <2>0
  <2>2. /\ disk'[step].data = [st |-> "whole", val |-> loader]
        /\ \A n \in Steps \ {step} : disk'[n] = disk[n]
    BY <1>4, <2>0 DEF SaveData, Folder
  <2>3. TypeOK'
    BY <1>4, <2>1 DEF TypeOK, SaveData, volatile, PCs
  <2>4. Position' /\ Synced'
    BY <1>4 DEF Position, Synced, SaveData, volatile
  <2>5. TrackedData'
    BY <1>4, <2>0, <2>2 DEF TrackedData, SaveData, volatile
  <2> QED BY <2>3, <2>4, <2>5
<1>5. CASE TruncateTracker
  <2>0. step \in Steps /\ PosOf(step) = loader.pos
    BY <1>5, StepPlace DEF TruncateTracker
  <2>1. TypeOK'
    BY <1>5 DEF TypeOK, TruncateTracker, volatile, PCs
  <2>2. Position' /\ Synced'
    BY <1>5 DEF Position, Synced, TruncateTracker, volatile
  <2>3. TrackedData'
    BY <1>5, <2>0 DEF TrackedData, TruncateTracker, volatile
  <2> QED BY <2>1, <2>2, <2>3
<1>6. CASE WriteTracker
  <2>0. step \in Steps /\ PosOf(step) = loader.pos
    BY <1>6, StepPlace DEF WriteTracker
  <2>1. TypeOK'
    BY <1>6 DEF TypeOK, WriteTracker, volatile, PCs
  <2>2. Position' /\ Synced'
    BY <1>6 DEF Position, Synced, WriteTracker, volatile
  <2>3. TrackedData'
    BY <1>6, <2>0 DEF TrackedData, WriteTracker, volatile
  <2> QED BY <2>1, <2>2, <2>3
<1> QED BY <1>2, <1>3, <1>4, <1>5, <1>6

\* The first launch starts from nothing.
LEMMA InitBase == Init => BaseInv
<1> SUFFICES ASSUME Init PROVE BaseInv
  OBVIOUS
<1>1. TypeOK
  BY EmptyType DEF Init, TypeOK, PCs
<1>2. Position /\ Synced /\ TrackedData
  BY DEF Init, Position, Synced, TrackedData
<1> QED BY <1>1, <1>2 DEF BaseInv

\* Every step of the job, and stuttering, keeps the base invariant.
LEMMA StepBase == BaseInv /\ [Next]_vars => BaseInv'
<1> SUFFICES ASSUME BaseInv, [Next]_vars PROVE BaseInv'
  OBVIOUS
<1>1. CASE Progress
  BY <1>1, LaunchBase, LoopBase, UpdateBase, SaveBase DEF Progress
<1>2. CASE Crash
  BY <1>2, ResetBase DEF Crash, BaseInv, TypeOK
<1>3. CASE UNCHANGED vars
  BY <1>3 DEF vars, BaseInv, TypeOK, Position, Synced, TrackedData
<1> QED BY <1>1, <1>2, <1>3 DEF Next

\* The type of the trainer's state, for every bound and every crash.
THEOREM TypeSafety == Spec => []TypeOK
<1>1. BaseInv => TypeOK
  BY DEF BaseInv
<1> QED BY <1>1, InitBase, StepBase, PTL DEF Spec

\* Every batch is answered by servers that are awake and hold the weights the
\* update starts from, through warmup, saves, epochs, crashes and resumes.
THEOREM ServersOnPolicy == Spec => []OnPolicy
<1>1. BaseInv => OnPolicy
  BY DEF BaseInv, Synced, OnPolicy
<1> QED BY <1>1, InitBase, StepBase, PTL DEF Spec

-----------------------------------------------------------------------------
(* Weights of an uninterrupted run.                                        *)

\* Before the first step there are no weights, and Skipped is a number.
LEMMA TrainedNothing ==
  ASSUME NEW p \in Parts
  PROVE  TrainedThrough(p, <<>>, 0) /\ Skipped(p) \in Nat
<1>1. Skipped(p) \in Nat
  BY TrainerAssumption DEF Skipped
<1> QED BY <1>1 DEF TrainedThrough

\* One more update with the batch that comes next (update_actor, update_critic).
LEMMA TrainedMore ==
  ASSUME NEW p \in Parts, NEW wp \in Seq(Batch), NEW n \in Nat, n >= Skipped(p),
         TrainedThrough(p, wp, n), NEW b \in Batch, b.pos = PosOf(n + 1),
         b.pos > 1 /\ wp # <<>> => b.order = Last(wp).order
  PROVE  /\ TrainedThrough(p, Append(wp, b), n + 1)
         /\ Last(Append(wp, b)) = b /\ Append(wp, b) # <<>>
         /\ Len(wp) + Skipped(p) = n
<1>0. Skipped(p) \in Nat
  BY TrainedNothing
<1> DEFINE a == Append(wp, b)
           L == Len(wp)
<1>1. L \in Nat /\ L + Skipped(p) = n /\ (n + 1) - Skipped(p) = L + 1 /\ n + 1 > Skipped(p)
  BY <1>0 DEF TrainedThrough
<1>2. Len(a) = L + 1 /\ a[L + 1] = b /\ \A i \in 1..L : a[i] = wp[i]
  OBVIOUS
<1>3. L > 0 <=> wp # <<>>
  OBVIOUS
<1>4. \A i \in 1..L : /\ wp[i].pos = PosOf(i + Skipped(p))
                      /\ wp[i].pos > 1 /\ i > 1 => wp[i].order = wp[i - 1].order
  BY DEF TrainedThrough
<1> HIDE DEF a
<1>5. ASSUME NEW i \in 1..(L + 1)
      PROVE  /\ a[i].pos = PosOf(i + Skipped(p))
             /\ a[i].pos > 1 /\ i > 1 => a[i].order = a[i - 1].order
  <2>1. CASE i \in 1..L
    <3>1. i > 1 => i - 1 \in 1..L
      BY <1>1
    <3> QED BY <1>2, <1>4, <2>1, <3>1
  <2>2. CASE i = L + 1
    <3>1. i + Skipped(p) = n + 1
      BY <1>0, <1>1, <2>2
    <3>2. i > 1 => L \in 1..L /\ i - 1 = L /\ wp # <<>>
      BY <1>1, <1>3, <2>2
    <3> QED BY <1>2, <2>2, <3>1, <3>2 DEF Last
  <2> QED BY <1>1, <2>1, <2>2
<1>6. TrainedThrough(p, a, n + 1)
  BY <1>1, <1>2, <1>5 DEF TrainedThrough
<1> QED BY <1>1, <1>2, <1>6 DEF a, Last

\* A step of the warmup leaves the actor as it is.
LEMMA TrainedSkip ==
  ASSUME NEW p \in Parts, NEW wp \in Seq(Batch), NEW n \in Nat, n < Skipped(p),
         TrainedThrough(p, wp, n)
  PROVE  TrainedThrough(p, wp, n + 1) /\ wp = <<>>
<1>0. Skipped(p) \in Nat
  BY TrainedNothing
<1>1. Len(wp) = 0
  BY <1>0 DEF TrainedThrough
<1> QED BY <1>0, <1>1 DEF TrainedThrough

-----------------------------------------------------------------------------
(* Rotation.                                                               *)

\* The end of a sequence of paths.
LEMMA SuffixIs ==
  ASSUME NEW s \in Seq(Nat), NEW n \in 1..Len(s)
  PROVE  /\ Suffix(s, n) \in Seq(Nat) /\ Len(Suffix(s, n)) = n
         /\ \A i \in 1..n : Suffix(s, n)[i] = s[(Len(s) - n) + i]
  BY DEF Suffix

\* A path that stays is not removed.
LEMMA KeptStays ==
  ASSUME NEW p, NEW kept, NEW i \in 1..Len(kept)
  PROVE  kept[i] \notin Removed(p, kept)
  BY DEF Removed

\* A manager that keeps two checkpoints or more, or all, never removes the
\* newest one: not when it makes room (ensure_checkpoint_capacity) and not
\* when it registers the next (register_checkpoint).
LEMMA NewestStays ==
  ASSUME TypeOK, KeepsOlder, NEW p \in Parts
  PROVE  /\ saved[p] = <<>> => Capacity(p) = <<>> /\ Removed(p, Capacity(p)) = {}
                               /\ Removed(p, Registered(p)) = {}
         /\ saved[p] # <<>> =>
               /\ Capacity(p) # <<>> /\ Last(Capacity(p)) = Last(saved[p])
               /\ Last(saved[p]) \notin Removed(p, Capacity(p))
               /\ Last(saved[p]) \notin Removed(p, Registered(p))
         /\ Registered(p) # <<>> /\ Last(Registered(p)) = step
<1> DEFINE s == saved[p]
           M == MaxKeep[p]
           L == Len(s)
           all == Append(s, step)
<1>0. s \in Seq(Nat) /\ L \in Nat /\ step \in Nat /\ M \in Nat /\ M # 1
  BY TrainerAssumption DEF TypeOK, KeepsOlder
<1>1. all \in Seq(Nat) /\ Len(all) = L + 1 /\ all[L + 1] = step /\ \A i \in 1..L : all[i] = s[i]
  BY <1>0
<1>2. Capacity(p) = IF M > 1 /\ L >= M THEN Suffix(s, M - 1) ELSE s
  BY DEF Capacity
<1>3. Registered(p) = IF M > 0 /\ Len(all) > M THEN Suffix(all, M) ELSE all
  BY DEF Registered
<1>4. Capacity(p) \in Seq(Nat) /\ Registered(p) \in Seq(Nat)
  BY KeptType
<1>5. (s = <<>> <=> L = 0) /\ Last(s) = s[L]
  BY <1>0 DEF Last
<1>6. s = <<>> => \A kept : Removed(p, kept) = {}
  BY DEF Removed
<1> HIDE DEF all, s, M, L
<1>7. s = <<>> => Capacity(p) = <<>>
  BY <1>0, <1>2, <1>5
<1>8. ASSUME s # <<>>
      PROVE  /\ Capacity(p) # <<>> /\ Last(Capacity(p)) = Last(s)
             /\ Last(s) \notin Removed(p, Capacity(p))
  <2>1. CASE M > 1 /\ L >= M
    <3>1. M - 1 \in 1..L /\ Capacity(p) = Suffix(s, M - 1) /\ (L - (M - 1)) + (M - 1) = L
      BY <1>0, <1>2, <2>1
    <3>2. Len(Capacity(p)) = M - 1 /\ Capacity(p)[M - 1] = s[L]
      <4>1. M - 1 \in 1..Len(s)
        BY <3>1 DEF L
      <4>2. Len(Suffix(s, M - 1)) = M - 1
            /\ \A i \in 1..(M - 1) : Suffix(s, M - 1)[i] = s[(Len(s) - (M - 1)) + i]
        BY <1>0, <4>1, SuffixIs
      <4>3. M - 1 \in 1..(M - 1) /\ Len(s) = L
        BY <1>0, <3>1 DEF L
      <4> QED BY <3>1, <4>2, <4>3
    <3>3. Capacity(p) # <<>> /\ M - 1 \in 1..Len(Capacity(p))
      BY <1>0, <1>4, <3>1, <3>2
    <3> QED BY <3>2, <3>3, <1>5, KeptStays DEF Last
  <2>2. CASE ~(M > 1 /\ L >= M)
    <3>1. Capacity(p) = s /\ L \in 1..Len(Capacity(p))
      BY <1>0, <1>2, <2>2, <1>5, <1>8 DEF L
    <3> QED BY <3>1, <1>5, <1>8, KeptStays DEF L
  <2> QED BY <2>1, <2>2
<1>9. /\ Registered(p) # <<>> /\ Last(Registered(p)) = step
      /\ s # <<>> => Last(s) \notin Removed(p, Registered(p))
  <2>1. CASE M > 0 /\ Len(all) > M
    <3>1. M \in 1..Len(all) /\ M - 1 \in 1..M /\ Registered(p) = Suffix(all, M)
          /\ (Len(all) - M) + M = L + 1 /\ (Len(all) - M) + (M - 1) = L
      BY <1>0, <1>1, <1>3, <2>1
    <3>2. Len(Registered(p)) = M /\ Registered(p)[M] = all[L + 1]
          /\ Registered(p)[M - 1] = all[L]
      <4>1. M \in 1..Len(all)
        BY <3>1
      <4>2. Len(Suffix(all, M)) = M
            /\ \A i \in 1..M : Suffix(all, M)[i] = all[(Len(all) - M) + i]
        BY <1>1, <4>1, SuffixIs
      <4>3. M \in 1..M
        BY <1>0, <3>1
      <4> QED BY <3>1, <4>2, <4>3
    <3>3. Registered(p) # <<>> /\ Last(Registered(p)) = step
      BY <1>0, <1>1, <1>4, <3>1, <3>2 DEF Last
    <3>4. ASSUME s # <<>> PROVE Last(s) \notin Removed(p, Registered(p))
      <4>1. L \in 1..L /\ Registered(p)[M - 1] = s[L]
        BY <1>0, <1>1, <1>5, <3>2, <3>4
      <4>2. M - 1 \in 1..Len(Registered(p))
        BY <3>1, <3>2
      <4> QED BY <4>1, <4>2, <1>5, KeptStays
    <3> QED BY <3>3, <3>4
  <2>2. CASE ~(M > 0 /\ Len(all) > M)
    <3>1. Registered(p) = all
      BY <1>3, <2>2
    <3>2. Registered(p) # <<>> /\ Last(Registered(p)) = step
      BY <1>0, <1>1, <3>1 DEF Last
    <3>3. ASSUME s # <<>> PROVE Last(s) \notin Removed(p, Registered(p))
      <4>1. L \in 1..Len(all) /\ all[L] = s[L]
        BY <1>0, <1>1, <1>5, <3>3
      <4> QED BY <4>1, <3>1, <1>5, KeptStays
    <3> QED BY <3>2, <3>3
  <2> QED BY <2>1, <2>2
<1> QED BY <1>6, <1>7, <1>8, <1>9 DEF s

-----------------------------------------------------------------------------
(* The invariant of the run is inductive.                                  *)

\* The part of RunInv that BaseInv does not have.
Durability == Memory /\ Tracked /\ Behind /\ Paths

\* Outside of a save no part is written.
LEMMA NothingWritten ==
  ASSUME pc \notin {"critic", "critic_open", "data", "track", "torn"}
  PROVE  Written = {}
  BY DEF Written

\* A process that has ended, or failed to load, leaves the files as they are.
LEMMA ResetRun ==
  ASSUME RunInv, Reset, UNCHANGED <<disk, tracker>>,
         pc' \in {"down", "done", "failed"}, pc' = "failed" => tracker.st = "torn"
  PROVE  Durability'
<1>1. Memory'
  BY DEF Memory, Reset, Running
<1>2. Tracked'
  BY DEF RunInv, Tracked, FolderGood, EndsAt, TrainedThrough
<1>3. Behind'
  BY DEF Behind, Running
<1>4. Paths'
  <2>1. Written' = {} /\ saved' = None
    BY DEF Written, Reset
  <2> QED BY <2>1 DEF Paths, None
<1> QED BY <1>1, <1>2, <1>3, <1>4 DEF Durability

\* A launch that resumes from step n with weights of an uninterrupted run.
LEMMA ResumeRun ==
  ASSUME RunInv, NEW n \in Nat, NEW weights \in [Parts -> Seq(Batch)], NEW data,
         \A p \in Parts : /\ TrainedThrough(p, weights[p], n)
                          /\ data.pos > 0 => EndsAt(weights[p], data),
         tracker.st # "absent" => tracker.st = "whole" /\ tracker.step = n,
         Resume(n, weights, data), UNCHANGED <<disk, tracker>>
  PROVE  Durability'
<1>0. pc' = "loop" /\ step' = n + 1 /\ w' = weights /\ loader' = data /\ saved' = None
      /\ step' - 1 = n
  BY DEF Resume
<1>1. Memory'
  BY <1>0 DEF Memory, Running, TrainedThrough, EndsAt
<1>2. Tracked'
  BY DEF RunInv, Tracked, FolderGood, EndsAt, TrainedThrough
<1>3. Behind'
  BY <1>0 DEF Behind, Running
<1>4. Paths'
  <2>1. Written' = {}
    BY <1>0 DEF Written
  <2> QED BY <1>0, <2>1 DEF Paths, None
<1> QED BY <1>1, <1>2, <1>3, <1>4 DEF Durability

\* The tracked folder exists and its parts are whole.
LEMMA TrackedLoads ==
  ASSUME RunInv
  PROVE  /\ FromScratch => tracker.st = "absent"
         /\ LoadFails => tracker.st = "torn"
<1>1. ASSUME tracker.st = "whole"
      PROVE  /\ disk[tracker.step].data.st = "whole"
             /\ \A p \in Parts : disk[tracker.step].part[p].st = "whole"
  BY <1>1 DEF RunInv, Tracked, FolderGood
<1> QED BY <1>1 DEF FromScratch, LoadFails, Exists

\* A launch goes on from the tracked checkpoint.
LEMMA LaunchRun == RunInv /\ Launch => Durability'
<1> SUFFICES ASSUME RunInv, Launch PROVE Durability'
  OBVIOUS
<1>0. UNCHANGED <<disk, tracker>>
  BY DEF Launch
<1>1. CASE FromScratch /\ Resume(0, None, Fresh)
  <2>1. tracker.st = "absent"
    BY <1>1, TrackedLoads
  <2>2. Fresh.pos = 0 /\ \A p \in Parts : None[p] = <<>>
    BY DEF Fresh, None
  <2>3. \A p \in Parts : TrainedThrough(p, None[p], 0) /\ (Fresh.pos > 0 => EndsAt(None[p], Fresh))
    BY <2>2, TrainedNothing
  <2> QED BY <1>0, <1>1, <2>1, <2>3, EmptyType, ResumeRun
<1>2. CASE /\ ~FromScratch /\ ~LoadFails
           /\ Resume(tracker.step, [p \in Parts |-> disk[tracker.step].part[p].val],
                     LoaderAt(tracker.step))
  <2> DEFINE f == disk[tracker.step]
             weights == [p \in Parts |-> f.part[p].val]
             data == LoaderAt(tracker.step)
  <2>1. /\ tracker.st = "whole" /\ tracker.step \in Nat
        /\ weights \in [Parts -> Seq(Batch)]
    BY <1>2, LoadedBase DEF RunInv
  <2>2. FolderGood(f, tracker.step)
    BY <2>1 DEF RunInv, Tracked
  <2>3. data.pos > 0 => data = f.data.val
    BY <2>2 DEF LoaderAt, FolderGood, Fresh
  <2>4. \A p \in Parts : /\ TrainedThrough(p, weights[p], tracker.step)
                         /\ data.pos > 0 => EndsAt(weights[p], data)
    <3> HIDE DEF data, f
    <3> QED BY <2>2, <2>3 DEF FolderGood
  <2>5. Resume(tracker.step, weights, data)
    BY <1>2
  <2> HIDE DEF weights, data
  <2> QED BY <1>0, <2>1, <2>4, <2>5, ResumeRun
<1>3. CASE LoadFails /\ pc' = "failed" /\ Reset
  BY <1>0, <1>3, TrackedLoads, ResetRun
<1> QED BY <1>1, <1>2, <1>3 DEF Launch

\* A step that leaves files, paths and global_steps alone, outside of a save.
LEMMA FilesSame ==
  ASSUME RunInv, UNCHANGED <<step, saved, disk, tracker>>,
         \/ pc = "loop" /\ pc' \in {"loop", "update"}
         \/ pc = "update" /\ pc' \in {"end", "actor", "sync"}
         \/ pc = "sync" /\ pc' = "end"
  PROVE  Tracked' /\ Behind' /\ Paths'
<1>1. Tracked'
  BY DEF RunInv, Tracked, FolderGood, EndsAt, TrainedThrough
<1>2. Behind'
  BY DEF RunInv, BaseInv, TypeOK, Behind, Running
<1>3. Paths'
  <2>1. Written = {} /\ Written' = {}
    BY DEF Written
  <2> QED BY <2>1 DEF RunInv, Paths
<1> QED BY <1>1, <1>2, <1>3

\* Drawing a batch, or a new iterator.
LEMMA LoopRun == RunInv /\ (Generate \/ NextEpoch \/ EndOfEpochs) => Durability'
<1> SUFFICES ASSUME RunInv, Generate \/ NextEpoch \/ EndOfEpochs PROVE Durability'
  OBVIOUS
<1>1. CASE Generate
  <2>1. Tracked' /\ Behind' /\ Paths'
    BY <1>1, FilesSame DEF Generate
  <2>2. /\ pc = "loop" /\ pc' = "update" /\ UNCHANGED <<w, step>>
        /\ loader'.order = loader.order /\ loader'.pos = loader.pos + 1
        /\ loader.pos \in Nat
    BY <1>1 DEF Generate, RunInv, BaseInv, TypeOK
  <2>3. \A p \in Parts : /\ TrainedThrough(p, w[p], step - 1)
                         /\ loader.pos > 0 => EndsAt(w[p], loader)
    BY <2>2 DEF RunInv, Memory
  <2>4. Memory'
    BY <2>2, <2>3 DEF Memory, Running, TrainedThrough, EndsAt, Last
  <2> QED BY <2>1, <2>4 DEF Durability
<1>2. CASE NextEpoch
  <2>1. Tracked' /\ Behind' /\ Paths'
    BY <1>2, FilesSame DEF NextEpoch
  <2>2. pc = "loop" /\ pc' = "loop" /\ UNCHANGED <<w, step>> /\ loader'.pos = 0
    BY <1>2 DEF NextEpoch
  <2>3. Memory'
    BY <2>2 DEF RunInv, Memory, Running, TrainedThrough
  <2> QED BY <2>1, <2>3 DEF Durability
<1>3. CASE EndOfEpochs
  <2>1. Reset /\ pc' = "done" /\ UNCHANGED <<disk, tracker>>
    BY <1>3 DEF EndOfEpochs
  <2>2. pc' \in {"down", "done", "failed"} /\ (pc' = "failed" => tracker.st = "torn")
    BY <2>1
  <2> QED BY <2>1, <2>2, ResetRun
<1> QED BY <1>1, <1>2, <1>3

\* An update trains on the batch of its step, the actor not during the warmup.
LEMMA UpdateTrains ==
  ASSUME RunInv, pc = "update", NEW p \in Parts
  PROVE  /\ p = "critic" \/ Warmup <= step =>
               /\ TrainedThrough(p, Trained(p), step)
               /\ EndsAt(Trained(p), loader)
               /\ Len(w[p]) + Skipped(p) = step - 1
         /\ p = "actor" /\ Warmup > step =>
               TrainedThrough(p, w[p], step) /\ w[p] = <<>>
<1>0. /\ step \in Nat /\ step > 0 /\ PosOf(step) = loader.pos /\ loader \in Batch
      /\ w[p] \in Seq(Batch) /\ step - 1 \in Nat /\ (step - 1) + 1 = step
      /\ Warmup \in Nat /\ Skipped(p) \in Nat
  BY StepPlace, TrainerAssumption, TrainedNothing DEF RunInv, BaseInv, TypeOK
<1>1. /\ TrainedThrough(p, w[p], step - 1)
      /\ loader.pos > 1 /\ w[p] # <<>> => Last(w[p]).order = loader.order
  BY DEF RunInv, Memory
<1>2. ASSUME p = "critic" \/ Warmup <= step
      PROVE  /\ TrainedThrough(p, Trained(p), step)
             /\ EndsAt(Trained(p), loader)
             /\ Len(w[p]) + Skipped(p) = step - 1
  <2>1. step - 1 >= Skipped(p)
    BY <1>0, <1>2 DEF Skipped
  <2>2. /\ TrainedThrough(p, Append(w[p], loader), (step - 1) + 1)
        /\ Last(Append(w[p], loader)) = loader
        /\ Len(w[p]) + Skipped(p) = step - 1
    BY <1>0, <1>1, <2>1, TrainedMore
  <2> QED BY <1>0, <2>2 DEF Trained, EndsAt
<1>3. ASSUME p = "actor", Warmup > step
      PROVE  TrainedThrough(p, w[p], step) /\ w[p] = <<>>
  <2>1. step - 1 < Skipped(p)
    BY <1>0, <1>3 DEF Skipped
  <2>2. TrainedThrough(p, w[p], (step - 1) + 1) /\ w[p] = <<>>
    BY <1>0, <1>1, <2>1, TrainedSkip
  <2> QED BY <1>0, <2>2
<1> QED BY <1>2, <1>3

\* The updates, the weight sync and the end of a step.
LEMMA UpdateRun ==
  RunInv /\ (UpdateCritic \/ UpdateActor \/ SyncWeights \/ EndStep) => Durability'
<1> SUFFICES ASSUME RunInv, UpdateCritic \/ UpdateActor \/ SyncWeights \/ EndStep
    PROVE Durability'
  OBVIOUS
<1>0. Parts \subseteq {"actor", "critic"} /\ Warmup \in Nat /\ step \in Nat
  BY ActorPart, TrainerAssumption DEF RunInv, BaseInv, TypeOK
<1>1. CASE UpdateCritic
  <2>1. Tracked' /\ Behind' /\ Paths'
    BY <1>1, FilesSame DEF UpdateCritic
  <2>2. ASSUME NEW p \in Parts PROVE TrainedThrough(p, w'[p], step) /\ EndsAt(w'[p], loader)
    <3>1. CASE p = "critic"
      BY <1>1, <3>1, UpdateTrains DEF UpdateCritic
    <3>2. CASE p = "actor"
      <4>1. w'[p] = w[p]
        BY <1>1, <3>2 DEF UpdateCritic
      <4> QED BY <1>1, <3>2, <4>1, UpdateTrains DEF UpdateCritic, EndsAt
    <3> QED BY <1>0, <3>1, <3>2
  <2>3. pc' = "end" /\ UNCHANGED <<step, loader>>
    BY <1>1 DEF UpdateCritic
  <2>4. Memory'
    BY <2>2, <2>3 DEF Memory, Running, TrainedThrough, EndsAt
  <2> QED BY <2>1, <2>4 DEF Durability
<1>2. CASE UpdateActor
  <2>0. pc = "update" /\ pc' \in {"actor", "sync"} /\ UNCHANGED <<step, loader, saved, disk, tracker>>
    BY <1>2 DEF UpdateActor
  <2>1. Tracked' /\ Behind' /\ Paths'
    BY <2>0, FilesSame
  <2>2. ASSUME NEW p \in Parts PROVE TrainedThrough(p, w'[p], step) /\ EndsAt(w'[p], loader)
    <3>1. w'[p] = Trained(p) /\ Warmup <= step
      BY <1>2 DEF UpdateActor
    <3> QED BY <2>0, <3>1, UpdateTrains
  <2>3. Memory'
    BY <2>0, <2>2 DEF Memory, Running, TrainedThrough, EndsAt
  <2> QED BY <2>1, <2>3 DEF Durability
<1>3. CASE SyncWeights
  <2>1. Tracked' /\ Behind' /\ Paths'
    BY <1>3, FilesSame DEF SyncWeights
  <2>2. pc = "sync" /\ pc' = "end" /\ UNCHANGED <<step, loader, w>>
    BY <1>3 DEF SyncWeights
  <2>3. Memory'
    BY <2>2 DEF RunInv, Memory, Running, TrainedThrough, EndsAt
  <2> QED BY <2>1, <2>3 DEF Durability
<1>4. CASE EndStep /\ IsLast
  <2>1. Reset /\ pc' = "done" /\ UNCHANGED <<disk, tracker>>
    BY <1>4 DEF EndStep
  <2>2. pc' \in {"down", "done", "failed"} /\ (pc' = "failed" => tracker.st = "torn")
    BY <2>1
  <2> QED BY <2>1, <2>2, ResetRun
<1>5. CASE EndStep /\ ~IsLast
  <2>0. pc = "end" /\ pc' = "loop" /\ step' = step + 1 /\ step' - 1 = step
        /\ UNCHANGED <<loader, w, saved, disk, tracker>>
    BY <1>0, <1>5 DEF EndStep
  <2>1. Memory'
    <3>1. \A p \in Parts : TrainedThrough(p, w[p], step) /\ EndsAt(w[p], loader)
      BY <2>0 DEF RunInv, Memory
    <3> QED BY <2>0, <3>1 DEF Memory, Running, TrainedThrough, EndsAt
  <2>2. Tracked'
    BY <2>0 DEF RunInv, Tracked, FolderGood, EndsAt, TrainedThrough
  <2>3. Behind'
    BY <2>0 DEF RunInv, BaseInv, TypeOK, Behind, Running
  <2>4. Paths'
    <3>1. Written = {} /\ Written' = {}
      BY <2>0 DEF Written
    <3> QED BY <2>0, <3>1 DEF RunInv, Paths
  <2> QED BY <2>1, <2>2, <2>3, <2>4 DEF Durability
<1> QED BY <1>1, <1>2, <1>3, <1>4, <1>5

\* A checkpoint manager writes its part of the present step and rotates: the
\* tracked folder and what the save has written so far stay.
LEMMA ShardsRun ==
  ASSUME RunInv, KeepsOlder, NEW p \in Parts \ Written, NEW kept,
         NEW f \in [st : {"absent", "partial", "whole"}, val : Seq(Batch)],
         kept \in {Capacity(p), Registered(p)},
         pc \in {"actor", "actor_open", "critic", "critic_open"},
         pc' \in {"actor_open", "critic", "critic_open", "data"},
         disk' = DiskWith(p, f, kept), UNCHANGED <<step, loader, w, tracker>>
  PROVE  /\ Memory' /\ Tracked' /\ Behind'
         /\ disk'[step].part[p] = f
         /\ \A q \in Parts \ {p} : disk'[step].part[q] = disk[step].part[q]
<1>0. TypeOK /\ step \in Steps
  BY StepPlace DEF RunInv, BaseInv
<1>1. Memory'
  BY DEF RunInv, Memory, Running, TrainedThrough, EndsAt
<1>2. ASSUME tracker.st # "absent"
      PROVE  tracker.step \in Steps /\ disk'[tracker.step] = disk[tracker.step]
  <2>1. tracker.step \in Steps /\ tracker.step # step
    BY <1>2 DEF RunInv, BaseInv, TrackedData, Behind, TypeOK
  <2>2. tracker.step \notin Removed(p, kept)
    <3>1. CASE saved[p] = <<>>
      BY <1>0, <3>1, NewestStays
    <3>2. CASE saved[p] # <<>>
      <4>1. tracker.step = Last(saved[p])
        BY <3>2 DEF RunInv, Paths
      <4> QED BY <1>0, <3>2, <4>1, NewestStays
    <3> QED BY <3>1, <3>2
  <2> QED BY <1>0, <2>1, <2>2, DiskWithStays
<1>3. Tracked'
  <2>1. SUFFICES ASSUME tracker.st # "absent"
                 PROVE  FolderGood(disk'[tracker.step], tracker.step)
    BY DEF Tracked, FolderGood, EndsAt, TrainedThrough
  <2> QED BY <1>2, <2>1 DEF RunInv, Tracked
<1>4. Behind'
  BY DEF RunInv, Behind, Running
<1>5. /\ disk'[step].part[p] = f
      /\ \A q \in Parts \ {p} : disk'[step].part[q] = disk[step].part[q]
  BY <1>0, DiskWithStays
<1> QED BY <1>1, <1>3, <1>4, <1>5

\* Making room for a part and opening its files.
LEMMA OpenRun ==
  ASSUME RunInv, KeepsOlder, NEW p \in Parts, OpenShards(p)
  PROVE  Durability'
<1>1. /\ pc \in {"actor", "critic"} /\ pc' \in {"actor_open", "critic_open"}
      /\ Written' = Written /\ p \notin Written
  BY ActorPart DEF OpenShards, Open, Written
<1>2. /\ saved' = [saved EXCEPT ![p] = Capacity(p)] /\ disk' = DiskWith(p, Partial, Capacity(p))
      /\ UNCHANGED <<step, loader, w, tracker>> /\ saved \in [Parts -> Seq(Nat)] /\ TypeOK
  BY DEF OpenShards, RunInv, BaseInv, TypeOK
<1>3. /\ Memory' /\ Tracked' /\ Behind'
      /\ \A q \in Parts \ {p} : disk'[step].part[q] = disk[step].part[q]
  BY <1>1, <1>2, ShardsRun, EmptyType
<1>4. /\ saved[p] = <<>> => saved'[p] = <<>>
      /\ saved[p] # <<>> => saved'[p] # <<>> /\ Last(saved'[p]) = Last(saved[p])
      /\ \A q \in Parts \ {p} : saved'[q] = saved[q]
  BY <1>2, NewestStays
<1>5. Paths'
  <2>1. ASSUME NEW q \in Written
        PROVE  disk'[step].part[q] = Whole(w[q]) /\ saved'[q] # <<>> /\ Last(saved'[q]) = step
    <3>1. q \in Parts \ {p}
      BY <1>1 DEF Written
    <3> QED BY <3>1, <1>3, <1>4 DEF RunInv, Paths
  <2>2. ASSUME NEW q \in Parts \ Written, saved'[q] # <<>>
        PROVE  tracker.st = "whole" /\ tracker.step = Last(saved'[q])
    <3>1. saved[q] # <<>> /\ Last(saved'[q]) = Last(saved[q])
      BY <2>2, <1>4
    <3> QED BY <3>1 DEF RunInv, Paths
  <2> QED BY <1>1, <1>2, <2>1, <2>2 DEF Paths, Whole
<1> QED BY <1>3, <1>5 DEF Durability

\* Registering a written part.
LEMMA CloseRun ==
  ASSUME RunInv, KeepsOlder, NEW p \in Parts, CloseShards(p)
  PROVE  Durability'
<1>1. /\ pc \in {"actor_open", "critic_open"} /\ pc' \in {"critic", "data"}
      /\ Written' = Written \cup {p} /\ p \notin Written
  <2>1. pc = "critic_open" => UseCritic
    BY TrainerAssumption DEF CloseShards, Open, Parts
  <2>2. CASE p = "actor" /\ UseCritic
    BY <2>2 DEF CloseShards, Open, AfterSave, Written, Parts
  <2>3. CASE p = "actor" /\ ~UseCritic
    BY <2>3 DEF CloseShards, Open, AfterSave, Written, Parts
  <2>4. CASE p = "critic"
    BY <2>4, TrainerAssumption DEF CloseShards, Open, AfterSave, Written, Parts
  <2> QED BY <2>2, <2>3, <2>4, ActorPart
<1>2. /\ saved' = [saved EXCEPT ![p] = Registered(p)]
      /\ disk' = DiskWith(p, Whole(w[p]), Registered(p))
      /\ UNCHANGED <<step, loader, w, tracker>> /\ saved \in [Parts -> Seq(Nat)] /\ TypeOK
      /\ Whole(w[p]) \in [st : {"absent", "partial", "whole"}, val : Seq(Batch)]
  BY DEF CloseShards, RunInv, BaseInv, TypeOK, Whole
<1>3. /\ Memory' /\ Tracked' /\ Behind' /\ disk'[step].part[p] = Whole(w[p])
      /\ \A q \in Parts \ {p} : disk'[step].part[q] = disk[step].part[q]
  BY <1>1, <1>2, ShardsRun
<1>4. /\ saved'[p] # <<>> /\ Last(saved'[p]) = step
      /\ \A q \in Parts \ {p} : saved'[q] = saved[q]
  BY <1>2, NewestStays
<1>5. Paths'
  <2>1. ASSUME NEW q \in Written'
        PROVE  disk'[step].part[q] = Whole(w[q]) /\ saved'[q] # <<>> /\ Last(saved'[q]) = step
    <3>1. CASE q = p
      BY <3>1, <1>3, <1>4
    <3>2. CASE q # p
      <4>1. q \in Written /\ q \in Parts \ {p}
        BY <1>1, <3>2 DEF Written
      <4> QED BY <4>1, <1>3, <1>4 DEF RunInv, Paths
    <3> QED BY <3>1, <3>2
  <2>2. ASSUME NEW q \in Parts \ Written', saved'[q] # <<>>
        PROVE  tracker.st = "whole" /\ tracker.step = Last(saved'[q])
    <3>1. q \in Parts \ Written /\ q # p /\ saved'[q] = saved[q]
      BY <1>1, <1>4
    <3> QED BY <2>2, <3>1 DEF RunInv, Paths
  <2> QED BY <1>2, <2>1, <2>2 DEF Paths, Whole
<1> QED BY <1>3, <1>5 DEF Durability

\* The dataloader's state and the tracker file.
LEMMA TrackRun ==
  ASSUME RunInv, SaveData \/ TruncateTracker \/ WriteTracker
  PROVE  Durability'
<1>0. /\ pc \in {"data", "track", "torn"} /\ UNCHANGED <<step, loader, w, saved>>
      /\ step \in Steps /\ PosOf(step) = loader.pos /\ Written = Parts
      /\ disk \in [Steps -> Folder]
  BY StepPlace DEF SaveData, TruncateTracker, WriteTracker, volatile, RunInv, BaseInv, TypeOK, Written
<1>1. Memory'
  <2>1. pc' \in {"track", "torn", "sync"}
    BY DEF SaveData, TruncateTracker, WriteTracker
  <2>2. \A p \in Parts : TrainedThrough(p, w[p], step) /\ EndsAt(w[p], loader)
    BY <1>0 DEF RunInv, Memory
  <2> QED BY <1>0, <2>1, <2>2 DEF Memory, Running, TrainedThrough, EndsAt
<1>2. \A p \in Parts : /\ disk[step].part[p] = Whole(w[p])
                       /\ saved[p] # <<>> /\ Last(saved[p]) = step
  BY <1>0 DEF RunInv, Paths
<1>3. CASE SaveData
  <2>1. /\ \A p \in Parts : disk'[step].part[p] = disk[step].part[p]
        /\ \A n \in Steps \ {step} : disk'[n] = disk[n]
    BY <1>0, <1>3 DEF SaveData, Folder
  <2>2. tracker.st # "absent" => tracker.step \in Steps \ {step}
    BY <1>3 DEF RunInv, BaseInv, TypeOK, TrackedData, Behind, SaveData
  <2>3. Tracked'
    <3>1. tracker' = tracker
      BY <1>3 DEF SaveData
    <3>2. tracker.st # "absent" => disk'[tracker.step] = disk[tracker.step]
      BY <2>1, <2>2
    <3> QED BY <3>1, <3>2 DEF RunInv, Tracked
  <2>4. Behind'
    BY <1>3, <1>0 DEF RunInv, Behind, Running, SaveData
  <2>5. Paths'
    <3>1. Written' = Parts /\ UNCHANGED tracker
      BY <1>3 DEF Written, SaveData
    <3> QED BY <1>0, <1>2, <2>1, <3>1 DEF Paths, Whole
  <2> QED BY <1>1, <2>3, <2>4, <2>5 DEF Durability
<1>4. CASE TruncateTracker
  <2>1. /\ disk' = disk /\ tracker'.st = "torn" /\ tracker'.step = step /\ pc' = "torn"
        /\ disk[step].data = [st |-> "whole", val |-> loader]
    BY <1>4 DEF TruncateTracker, RunInv, BaseInv, TrackedData
  <2>2. FolderGood(disk[step], step)
    <3>1. \A p \in Parts : TrainedThrough(p, w[p], step) /\ EndsAt(w[p], loader)
      BY <1>0 DEF RunInv, Memory
    <3>2. \A p \in Parts : disk[step].part[p].st = "whole" /\ disk[step].part[p].val = w[p]
      <4>1. \A v : Whole(v).st = "whole" /\ Whole(v).val = v
        BY DEF Whole
      <4> QED BY <1>2, <4>1
    <3> QED BY <1>0, <2>1, <3>1, <3>2 DEF FolderGood
  <2>3. Tracked'
    <3>1. disk'[tracker'.step] = disk[step] /\ tracker'.step = step
      BY <2>1
    <3> QED BY <2>2, <3>1 DEF Tracked, FolderGood, EndsAt, TrainedThrough
  <2>4. Behind'
    BY <1>0, <2>1 DEF Behind, Running
  <2>5. Paths'
    <3>1. Written' = Parts
      BY <2>1 DEF Written
    <3> QED BY <1>0, <1>2, <2>1, <3>1 DEF Paths, Whole
  <2> QED BY <1>1, <2>3, <2>4, <2>5 DEF Durability
<1>5. CASE WriteTracker
  <2>1. /\ disk' = disk /\ tracker'.st = "whole" /\ tracker'.step = step /\ pc' = "sync"
        /\ tracker.step = step /\ tracker.st = "torn" /\ step \in Nat
    BY <1>5 DEF WriteTracker, RunInv, Behind, BaseInv, TypeOK
  <2>2. FolderGood(disk[step], step)
    BY <2>1 DEF RunInv, Tracked
  <2>3. Tracked'
    <3>1. disk'[tracker'.step] = disk[step] /\ tracker'.step = step
      BY <2>1
    <3> QED BY <2>2, <3>1 DEF Tracked, FolderGood, EndsAt, TrainedThrough
  <2>4. Behind'
    BY <1>0, <2>1 DEF Behind, Running
  <2>5. Paths'
    <3>1. Written' = {}
      BY <2>1 DEF Written
    <3> QED BY <1>0, <1>2, <2>1, <3>1 DEF Paths
  <2> QED BY <1>1, <2>3, <2>4, <2>5 DEF Durability
<1> QED BY <1>3, <1>4, <1>5

\* The invariant of the run holds before the first launch.
LEMMA InitRun == Init => RunInv
<1> SUFFICES ASSUME Init PROVE RunInv
  OBVIOUS
<1>1. BaseInv
  BY InitBase
<1>2. Memory /\ Tracked /\ Behind
  BY DEF Init, Memory, Tracked, Behind, Running
<1>3. Paths
  BY DEF Init, Paths, Written, None
<1> QED BY <1>1, <1>2, <1>3 DEF RunInv

\* Every step of the job keeps it, if no manager keeps exactly one checkpoint.
LEMMA StepRun ==
  ASSUME KeepsOlder
  PROVE  RunInv /\ [Next]_vars => RunInv'
<1> SUFFICES ASSUME RunInv, [Next]_vars PROVE RunInv'
  OBVIOUS
<1>1. BaseInv'
  BY StepBase DEF RunInv
<1>2. CASE Progress
  <2>1. Durability'
    BY <1>2, LaunchRun, LoopRun, UpdateRun, OpenRun, CloseRun, TrackRun DEF Progress
  <2> QED BY <1>1, <2>1 DEF RunInv, Durability
<1>3. CASE Crash
  <2>1. Reset /\ pc' \in {"down", "done", "failed"} /\ (pc' = "failed" => tracker.st = "torn")
        /\ UNCHANGED <<disk, tracker>>
    BY <1>3 DEF Crash
  <2>2. Durability'
    BY <2>1, ResetRun
  <2> QED BY <1>1, <2>2 DEF RunInv, Durability
<1>4. CASE UNCHANGED vars
  <2>1. Memory' /\ Tracked' /\ Behind' /\ Paths'
    BY <1>4 DEF vars, RunInv, Memory, Tracked, Behind, Paths, Written, Running, FolderGood,
                EndsAt, TrainedThrough
  <2> QED BY <1>1, <2>1 DEF RunInv
<1> QED BY <1>2, <1>3, <1>4 DEF Next

\* The tracked checkpoint is whole, of one step, and holds the weights of an
\* uninterrupted run, whatever was killed and resumed before.
THEOREM TrackedIsConsistent ==
  ASSUME KeepsOlder PROVE Spec => []TrackedConsistent
<1>1. RunInv => TrackedConsistent
  BY ActorPart DEF RunInv, Tracked, FolderGood, EndsAt, TrackedConsistent
<1> QED BY <1>1, InitRun, StepRun, PTL DEF Spec

\* Only a kill inside the tracker's rewrite makes a later launch fail.
THEOREM OnlyTornFails ==
  ASSUME KeepsOlder PROVE Spec => []FailsOnlyTorn
<1>1. RunInv => FailsOnlyTorn
  BY DEF RunInv, Behind, FailsOnlyTorn
<1> QED BY <1>1, InitRun, StepRun, PTL DEF Spec

-----------------------------------------------------------------------------
(* The trainer implements DurableRun.                                      *)

\* A step that changes neither the weights in memory, nor what is durable,
\* nor whether the job runs.
LEMMA Stutter ==
  ASSUME w'["actor"] = w["actor"], Durable' = Durable, Running' = Running
  PROVE  UNCHANGED Ideal!drVars
  BY DEF Ideal!drVars

\* Files that keep their tracked folder keep what is durable.
LEMMA DurableSame ==
  ASSUME UNCHANGED tracker, tracker.st # "absent" => disk'[tracker.step] = disk[tracker.step]
  PROVE  Durable' = Durable
  BY DEF Durable

\* The process ends: the abstract job stops.
LEMMA StopStep ==
  ASSUME Running, Reset, pc' \in {"down", "done", "failed"}, UNCHANGED <<disk, tracker>>
  PROVE  Ideal!Stop
<1>1. Durable' = Durable
  BY DurableSame
<1>2. w'["actor"] = <<>> /\ ~Running'
  BY ActorPart DEF Reset, None, Running
<1> QED BY <1>1, <1>2 DEF Ideal!Stop

\* A launch starts from the durable weights, or fails and changes nothing.
LEMMA LaunchRefines == RunInv /\ Launch => [Ideal!Next]_(Ideal!drVars)
<1> SUFFICES ASSUME RunInv, Launch PROVE [Ideal!Next]_(Ideal!drVars)
  OBVIOUS
<1>0. UNCHANGED <<disk, tracker>> /\ Durable' = Durable /\ ~Running
  BY DurableSame DEF Launch
<1>1. CASE FromScratch /\ Resume(0, None, Fresh)
  <2>1. tracker.st = "absent"
    BY <1>1, TrackedLoads
  <2>2. w'["actor"] = Durable /\ Running'
    BY <1>1, <2>1, ActorPart DEF Resume, None, Durable, Running
  <2> QED BY <1>0, <2>2 DEF Ideal!Next, Ideal!Start
<1>2. CASE /\ ~FromScratch /\ ~LoadFails
           /\ Resume(tracker.step, [p \in Parts |-> disk[tracker.step].part[p].val],
                     LoaderAt(tracker.step))
  <2>1. tracker.st = "whole"
    BY <1>2, LoadedBase DEF RunInv
  <2>2. w'["actor"] = Durable /\ Running'
    BY <1>2, <2>1, ActorPart DEF Resume, Durable, Running
  <2> QED BY <1>0, <2>2 DEF Ideal!Next, Ideal!Start
<1>3. CASE LoadFails /\ pc' = "failed" /\ Reset
  <2>1. w' = w /\ ~Running'
    BY <1>0, <1>3 DEF RunInv, Memory, Reset, Running
  <2>2. Running' = Running
    BY <1>0, <2>1 DEF Running
  <2> QED BY <1>0, <2>1, <2>2, Stutter
<1> QED BY <1>1, <1>2, <1>3 DEF Launch

\* The actor's update trains on the batch that comes next in the data.
LEMMA UpdateRefines == RunInv /\ UpdateActor => Ideal!Train
<1> SUFFICES ASSUME RunInv, UpdateActor PROVE Ideal!Train
  OBVIOUS
<1> DEFINE l == w["actor"]
           K == StepsPerEpoch
<1>0. /\ pc = "update" /\ pc' \in {"actor", "sync"} /\ UNCHANGED <<disk, tracker>>
      /\ Warmup <= step /\ w'["actor"] = Append(l, loader)
  BY ActorPart DEF UpdateActor, Trained
<1>1. Durable' = Durable /\ Running /\ Running'
  BY <1>0, DurableSame DEF Running
<1>2. l \in Seq(Batch) /\ step \in Nat /\ step > 0 /\ K \in Nat \ {0} /\ loader.pos \in 1..K
      /\ PosOf(step) = loader.pos
  BY <1>0, StepPlace, ActorPart, TrainerAssumption DEF RunInv, BaseInv, TypeOK, Batch
<1>3. Len(l) + Skipped("actor") = step - 1
  BY <1>0, UpdateTrains, ActorPart
<1>4. loader.pos > 1 /\ l # <<>> => l[Len(l)].order = loader.order
  BY <1>0, ActorPart DEF RunInv, Memory, Last
<1>5. loader.pos = ((step - 1) % K) + 1
  BY <1>2 DEF PosOf
<1> HIDE DEF l
<1>6. (step - 1) % K \in Nat
  BY <1>2, DivMod
<1>7. /\ Len(w'["actor"]) = Len(l) + 1 /\ \A i \in 1..Len(l) : w'["actor"][i] = l[i]
      /\ w'["actor"][Len(w'["actor"])] = loader
  BY <1>0, <1>2
<1>8. (step - 1) % K # 0 => loader.pos > 1
  BY <1>2, <1>5, <1>6
<1>9. Ideal!Follows(l, loader)
  BY <1>3, <1>4, <1>5, <1>8 DEF Ideal!Follows
<1> QED BY <1>1, <1>7, <1>9 DEF Ideal!Train, l

\* A save commits when it opens the tracker file for writing; its other steps
\* change nothing that a launch would read.
LEMMA SaveRefines ==
  ASSUME RunInv, KeepsOlder,
         \/ \E p \in Parts : OpenShards(p) \/ CloseShards(p)
         \/ SaveData \/ TruncateTracker \/ WriteTracker
  PROVE  [Ideal!Next]_(Ideal!drVars)
<1>0. w' = w /\ Running /\ Running' /\ Running' = Running
  <2>1. w' = w
    BY DEF OpenShards, CloseShards, SaveData, TruncateTracker, WriteTracker, volatile
  <2>2. Running
    BY ActorPart DEF OpenShards, CloseShards, SaveData, TruncateTracker, WriteTracker, Open, Running
  <2>3. Running'
    BY ActorPart DEF OpenShards, CloseShards, SaveData, TruncateTracker, WriteTracker, Open,
                     AfterSave, Running
  <2>4. Running' = Running
    BY <2>2, <2>3 DEF Running
  <2> QED BY <2>1, <2>2, <2>3, <2>4
<1>1. CASE TruncateTracker
  <2>1. /\ disk' = disk /\ tracker' = [st |-> "torn", step |-> step]
        /\ "actor" \in Written
    BY <1>1, ActorPart DEF TruncateTracker, Written
  <2>2. disk[step].part["actor"] = Whole(w["actor"])
    BY <2>1 DEF RunInv, Paths
  <2>3. Durable' = w["actor"]
    <3>1. Durable' = disk[step].part["actor"].val
      BY <2>1 DEF Durable
    <3> QED BY <2>2, <3>1 DEF Whole
  <2> QED BY <1>0, <2>3 DEF Ideal!Next, Ideal!Commit
<1>2. CASE WriteTracker
  <2>1. /\ disk' = disk /\ tracker' = [st |-> "whole", step |-> step]
        /\ tracker.step = step /\ tracker.st = "torn"
    BY <1>2 DEF WriteTracker, RunInv, Behind
  <2>2. Durable' = Durable
    BY <2>1 DEF Durable
  <2> QED BY <1>0, <2>2, Stutter
<1>3. CASE SaveData
  <2>1. tracker.st # "absent" => tracker.step \in Steps /\ tracker.step # step
    BY <1>3 DEF RunInv, BaseInv, TypeOK, TrackedData, Behind, SaveData
  <2>2. tracker.st # "absent" => disk'[tracker.step] = disk[tracker.step]
    BY <1>3, <2>1 DEF SaveData, RunInv, BaseInv, TypeOK
  <2>3. Durable' = Durable
    BY <1>3, <2>2, DurableSame DEF SaveData
  <2> QED BY <1>0, <2>3, Stutter
<1>4. ASSUME NEW p \in Parts, OpenShards(p) \/ CloseShards(p)
      PROVE  Durable' = Durable
  <2>0. UNCHANGED tracker /\ step \in Steps /\ TypeOK /\ p \notin Written
    <3>1. UNCHANGED tracker /\ p \notin Written
      BY <1>4, ActorPart DEF OpenShards, CloseShards, Open, Written
    <3>2. step \in Steps
      BY <1>4, ActorPart, StepPlace DEF OpenShards, CloseShards, Open, RunInv, BaseInv
    <3> QED BY <3>1, <3>2 DEF RunInv, BaseInv
  <2>1. ASSUME tracker.st # "absent" PROVE disk'[tracker.step] = disk[tracker.step]
    <3>1. tracker.step \in Steps /\ tracker.step # step
      BY <1>4, <2>1, ActorPart DEF RunInv, BaseInv, TypeOK, TrackedData, Behind, OpenShards,
                                   CloseShards, Open
    <3>2. tracker.step \notin Removed(p, Capacity(p)) /\ tracker.step \notin Removed(p, Registered(p))
      <4>1. CASE saved[p] = <<>>
        BY <2>0, <4>1, NewestStays
      <4>2. CASE saved[p] # <<>>
        <5>1. tracker.step = Last(saved[p])
          BY <2>0, <4>2 DEF RunInv, Paths
        <5> QED BY <2>0, <4>2, <5>1, NewestStays
      <4> QED BY <4>1, <4>2
    <3>3. CASE OpenShards(p)
      BY <2>0, <3>1, <3>2, <3>3, DiskWithStays, EmptyType DEF OpenShards
    <3>4. CASE CloseShards(p)
      <4>1. Whole(w[p]) \in [st : {"absent", "partial", "whole"}, val : Seq(Batch)]
        BY <2>0 DEF Whole, TypeOK
      <4> QED BY <2>0, <3>1, <3>2, <3>4, <4>1, DiskWithStays DEF CloseShards
    <3> QED BY <1>4, <3>3, <3>4
  <2> QED BY <2>0, <2>1, DurableSame
<1> QED BY <1>0, <1>1, <1>2, <1>3, <1>4, Stutter

\* Every step of the trainer is a step of DurableRun or a stutter of it.
LEMMA StepRefines ==
  ASSUME KeepsOlder
  PROVE  RunInv /\ [Next]_vars => [Ideal!Next]_(Ideal!drVars)
<1> SUFFICES ASSUME RunInv, [Next]_vars PROVE [Ideal!Next]_(Ideal!drVars)
  OBVIOUS
<1>1. CASE Launch
  BY <1>1, LaunchRefines
<1>2. CASE UpdateActor
  BY <1>2, UpdateRefines DEF Ideal!Next
<1>3. CASE EndOfEpochs \/ Crash \/ (EndStep /\ IsLast)
  <2>1. Running /\ Reset /\ pc' \in {"down", "done", "failed"} /\ UNCHANGED <<disk, tracker>>
    BY <1>3 DEF EndOfEpochs, Crash, EndStep, Running
  <2> QED BY <2>1, StopStep DEF Ideal!Next
<1>4. CASE Generate \/ NextEpoch \/ UpdateCritic \/ SyncWeights \/ (EndStep /\ ~IsLast)
  <2>1. UNCHANGED <<disk, tracker>> /\ w'["actor"] = w["actor"]
    BY <1>4, ActorPart DEF Generate, NextEpoch, UpdateCritic, SyncWeights, EndStep
  <2>2. Running' = Running
    BY <1>4 DEF Generate, NextEpoch, UpdateCritic, SyncWeights, EndStep, Running
  <2> QED BY <2>1, <2>2, DurableSame, Stutter
<1>5. CASE \/ \E p \in Parts : OpenShards(p) \/ CloseShards(p)
           \/ SaveData \/ TruncateTracker \/ WriteTracker
  BY <1>5, SaveRefines
<1>6. CASE UNCHANGED vars
  BY <1>6, Stutter DEF vars, Durable, Running
<1> QED BY <1>1, <1>2, <1>3, <1>4, <1>5, <1>6 DEF Next, Progress

\* The trainer with its files implements the abstract job: each launch goes
\* on from the tracked checkpoint with the next batch of the data, and only
\* the write of the tracker changes what the next launch goes on from.
THEOREM ImplementsDurableRun ==
  ASSUME KeepsOlder PROVE Spec => RunSpec
<1>1. Init => Ideal!Init
  BY ActorPart DEF Init, Ideal!Init, Durable, None, Running
<1> QED BY <1>1, InitRun, StepRun, StepRefines, PTL DEF Spec, RunSpec, Ideal!Spec

-----------------------------------------------------------------------------
(* Progress on disk is never lost.                                         *)

\* The training behind a goes on from that behind b.
Extends(a, b) == Len(a) >= Len(b) /\ \A i \in 1..Len(b) : a[i] = b[i]

\* A running job goes on from what is durable.
JobInv ==
    /\ Len(Durable) \in Nat /\ Len(w["actor"]) \in Nat
    /\ Running => Extends(w["actor"], Durable)

\* A step of the abstract job keeps this and extends what is durable.
LEMMA JobStep ==
  ASSUME JobInv, [Ideal!Next]_(Ideal!drVars)
  PROVE  JobInv' /\ Extends(Durable', Durable)
<1>1. CASE Ideal!Start
  BY <1>1 DEF JobInv, Extends, Ideal!Start
<1>2. CASE Ideal!Train
  BY <1>2 DEF JobInv, Extends, Ideal!Train
<1>3. CASE Ideal!Commit
  BY <1>3 DEF JobInv, Extends, Ideal!Commit
<1>4. CASE Ideal!Stop
  BY <1>4 DEF JobInv, Extends, Ideal!Stop
<1>5. CASE UNCHANGED Ideal!drVars
  BY <1>5 DEF JobInv, Extends, Ideal!drVars
<1> QED BY <1>1, <1>2, <1>3, <1>4, <1>5 DEF Ideal!Next

\* Whatever is killed, rotated or resumed, the batches behind the weights that a
\* new launch would start from are only ever added to: no update that the tracker
\* has once covered is lost or replaced by another. This follows from DurableRun
\* alone.
THEOREM DurableOnlyGrows ==
  ASSUME KeepsOlder PROVE Spec => [][Extends(Durable', Durable)]_(Ideal!drVars)
<1>1. Ideal!Init => JobInv
  BY DEF Ideal!Init, JobInv, Extends
<1>2. JobInv /\ [Ideal!Next]_(Ideal!drVars) => JobInv'
  BY JobStep
<1>3. JobInv /\ [Ideal!Next]_(Ideal!drVars) => [Extends(Durable', Durable)]_(Ideal!drVars)
  BY JobStep
<1> QED BY <1>1, <1>2, <1>3, ImplementsDurableRun, PTL DEF RunSpec, Ideal!Spec

\* The tracker file, once written, names ever later steps.
TrackerAdvances ==
    tracker.st # "absent" => tracker'.st # "absent" /\ tracker'.step >= tracker.step

\* latest_checkpointed_iteration.txt never goes back to an earlier step, although
\* a resumed job may count its global_steps from an earlier one again.
THEOREM TrackerOnlyAdvances ==
  ASSUME KeepsOlder PROVE Spec => [][TrackerAdvances]_vars
<1>1. RunInv /\ [Next]_vars => [TrackerAdvances]_vars
  <2> SUFFICES ASSUME RunInv, Next PROVE TrackerAdvances
    OBVIOUS
  <2>1. tracker.step \in Nat /\ step \in Nat
    BY DEF RunInv, BaseInv, TypeOK
  <2>2. CASE UNCHANGED tracker
    BY <2>1, <2>2 DEF TrackerAdvances
  <2>3. CASE TruncateTracker
    BY <2>1, <2>3 DEF TruncateTracker, TrackerAdvances, RunInv, Behind
  <2>4. CASE WriteTracker
    BY <2>1, <2>4 DEF WriteTracker, TrackerAdvances, RunInv, Behind
  <2> QED BY <2>2, <2>3, <2>4 DEF Next, Progress, Launch, Generate, NextEpoch, EndOfEpochs,
             UpdateCritic, UpdateActor, SyncWeights, EndStep, OpenShards, CloseShards, SaveData, Crash
<1> QED BY <1>1, InitRun, StepRun, PTL DEF Spec
=============================================================================
