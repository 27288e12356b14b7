-------------------------- MODULE ResultFiles_proofs --------------------------
(***************************************************************************)
(* Proofs about ResultFiles, for any files, builds and command lines.      *)
(*                                                                         *)
(* First that a command that ends well has saved.  Then that every file    *)
(* that can be read is sound: it counts for each scenario and host the     *)
(* samples of the runs that went into it.  The operators on files are      *)
(* folds over lists; what they compute is proved for lists of any length.  *)
(* Last, that an alarm is raised for no other reason than slower runs.     *)
(***************************************************************************)
EXTENDS ResultFiles, FiniteSetTheorems, WellFoundedInduction, TLAPS

(* An output that is finished: the whole result, but for what an upload *)
(* cuts.                                                                *)
Whole(f) == disk[f] = data \/ (f \in Blobs /\ data.repository \notin PlainRepositories)

(* The strengthening: while it saves, each output is as far as `written' says, *)
(* and after that no output is disturbed.                                     *)
DiskType == DOMAIN disk = Files
CmdType == cmd.outs \subseteq Files
WrittenType == pc = "save" => written \in [cmd.outs -> {"todo", "open", "done"}]
OpenIsLocal == pc = "save" => \A f \in cmd.outs : written[f] = "open" => f \notin Blobs
DoneIsWhole == pc = "save" => \A f \in cmd.outs : written[f] = "done" => Whole(f)
SavedIsWhole ==
  pc = "compare" \/ (pc = "ended" /\ (exit = "-1" \/ (exit = "0" /\ ~reported))) =>
    \A f \in cmd.outs : Whole(f)

IInv == /\ DiskType /\ CmdType /\ WrittenType
        /\ OpenIsLocal /\ DoneIsWhole /\ SavedIsWhole

(* Every command line writes to files. *)
LEMMA OutsAreFiles == \A c \in Commands : c.outs \subseteq Files
BY ConstantsAssumption DEF BenchmarkCommand, MergeCommand, PatchCommand

LEMMA InitInv == Init => IInv
BY DEF Init, Idle, IInv, DiskType, CmdType, WrittenType, OpenIsLocal, DoneIsWhole, SavedIsWhole

(* A process that ends with an error has nothing to show. *)
LEMMA EndsBadly ==
  ASSUME IInv, NEW code, NEW said, End(code, said),
         code \notin {"0", "-1"} \/ (code = "0" /\ said = TRUE)
  PROVE  IInv'
BY DEF End, IInv, DiskType, CmdType, WrittenType, OpenIsLocal, DoneIsWhole, SavedIsWhole, Whole

(* Saving begins with every output still to be written. *)
LEMMA SavingBegins ==
  ASSUME IInv, NEW b, Saving(b), UNCHANGED <<disk, cmd>>
  PROVE  IInv'
BY DEF Saving, IInv, DiskType, CmdType, WrittenType, OpenIsLocal, DoneIsWhole, SavedIsWhole, Whole

(* A step on one output. *)
LEMMA WroteKeeps ==
  ASSUME IInv, pc = "save", NEW f \in cmd.outs, NEW how \in {"open", "done"}, NEW content,
         Wrote(f, how, content),
         how = "open" => f \notin Blobs,
         how = "done" => content = data
                         \/ (f \in Blobs /\ data.repository \notin PlainRepositories)
  PROVE  IInv'
<1>1. /\ written \in [cmd.outs -> {"todo", "open", "done"}]
      /\ f \in Files /\ DOMAIN disk = Files
  BY DEF IInv, WrittenType, CmdType, DiskType
<1>2. /\ pc' = "save" /\ cmd' = cmd /\ data' = data
      /\ written' = [written EXCEPT ![f] = how]
      /\ disk' = [disk EXCEPT ![f] = content]
  BY DEF Wrote
<1>3. DiskType' /\ CmdType' /\ WrittenType' /\ SavedIsWhole'
  BY <1>1, <1>2 DEF IInv, DiskType, CmdType, WrittenType, SavedIsWhole
<1>4. \A g \in cmd.outs : g # f => written'[g] = written[g] /\ disk'[g] = disk[g]
  BY <1>1, <1>2 DEF IInv, CmdType
<1>5. written'[f] = how /\ disk'[f] = content
  BY <1>1, <1>2
<1>6. OpenIsLocal'
  BY <1>2, <1>4, <1>5 DEF IInv, OpenIsLocal
<1>7. DoneIsWhole'
  BY <1>2, <1>4, <1>5 DEF IInv, DoneIsWhole, Whole
<1>. QED  BY <1>3, <1>6, <1>7 DEF IInv

LEMMA NextInv == IInv /\ [Next]_vars => IInv'
<1>. SUFFICES ASSUME IInv, [Next]_vars PROVE IInv'
  OBVIOUS
<1>0. CASE UNCHANGED vars
  BY <1>0 DEF vars, IInv, DiskType, CmdType, WrittenType, OpenIsLocal, DoneIsWhole, SavedIsWhole, Whole
<1>1. ASSUME NEW c \in Commands, Begin(c) PROVE IInv'
  BY <1>1, OutsAreFiles
     DEF Begin, IInv, DiskType, CmdType, WrittenType, OpenIsLocal, DoneIsWhole, SavedIsWhole
<1>2. CASE Measure \/ Load
  BY <1>2 DEF Measure, Load, IInv, DiskType, CmdType, WrittenType, OpenIsLocal, DoneIsWhole, SavedIsWhole
<1>3. CASE LoadBaselines
  BY <1>3, SavingBegins DEF LoadBaselines
<1>4. CASE Compare
  BY <1>4 DEF Compare, End, IInv, DiskType, CmdType, WrittenType, OpenIsLocal, DoneIsWhole, SavedIsWhole, Whole
<1>5. CASE MergeFiles
  BY <1>5, SavingBegins, EndsBadly DEF MergeFiles
<1>6. CASE Patch
  BY <1>6, SavingBegins, EndsBadly DEF Patch
<1>7. ASSUME NEW f \in Files, Truncate(f) PROVE IInv'
  BY <1>7, WroteKeeps DEF Truncate
<1>8. ASSUME NEW f \in Files, Write(f) PROVE IInv'
  BY <1>8, WroteKeeps DEF Write
<1>9. ASSUME NEW f \in Files, Upload(f) PROVE IInv'
  <2>1. Uploaded(data) = data \/ data.repository \notin PlainRepositories
    BY DEF Uploaded
  <2>. QED  BY <1>9, <2>1, WroteKeeps DEF Upload
<1>10. CASE Saved
  BY <1>10 DEF Saved, SavesDone, IInv, DiskType, CmdType, WrittenType, OpenIsLocal, DoneIsWhole, SavedIsWhole, Whole
<1>11. CASE Fails
  BY <1>11, EndsBadly DEF Fails
<1>12. CASE Killed
  BY <1>12, EndsBadly DEF Killed
<1>. QED
  BY <1>0, <1>1, <1>2, <1>3, <1>4, <1>5, <1>6, <1>7, <1>8, <1>9, <1>10, <1>11, <1>12 DEF Next

(* benchmark/index.ts:93-138: whatever fails, is killed or runs in parallel, *)
(* a command that ends without an error has left its whole result in each of *)
(* its outputs.                                                              *)
THEOREM SavedOrElse == Spec => []SavedOrReported
<1>1. IInv => SavedOrReported
  BY DEF IInv, SavedIsWhole, SavedOrReported, Whole
<1>. QED  BY <1>1, InitInv, NextInv, PTL DEF Spec
-----------------------------------------------------------------------------
(***************************************************************************)
(* Folds. FoldLeft is a fold over the set of the positions, defined by a   *)
(* CHOOSE; it is unrolled into the values it goes through, by induction on *)
(* sets of numbers.                                                        *)
(***************************************************************************)
(* Induction, as a fact about the set of the numbers that have the property. *)
LEMMA NatInd ==
  ASSUME NEW T, 0 \in T, \A n \in Nat : n \in T => n + 1 \in T
  PROVE  Nat \subseteq T
<1> DEFINE R == {ss \in Nat \X Nat : ss[1] < ss[2]}
<1>1. SUFFICES ASSUME Nat \ T # {} PROVE FALSE
  OBVIOUS
<1>2. PICK x \in Nat \ T : \A y \in Nat \ T : <<y, x>> \notin R
  <2>1. IsWellFoundedOn(R, Nat)
    BY NatLessThanWellFounded DEF OpToRel
  <2> HIDE DEF R
  <2>2. QED  BY <1>1, <2>1, WFMin
<1>3. x # 0 /\ x - 1 \in Nat
  OBVIOUS
<1>4. x - 1 \notin T
  BY <1>3
<1>5. <<x - 1, x>> \in R
  BY <1>3
<1>6. QED  BY <1>2, <1>3, <1>4, <1>5

(* A finite set of positions has a last one. *)
LEMMA MaxOfPositions ==
  ASSUME NEW N \in Nat, NEW S \in SUBSET (1 .. N), S # {}
  PROVE  Max(S) \in S /\ \A y \in S : Max(S) >= y
<1> DEFINE T == {n \in Nat : \A U \in SUBSET (1 .. n) : U # {} => \E x \in U : \A y \in U : x >= y}
<1>1. 0 \in T
  <2>1. 1 .. 0 = {}
    OBVIOUS
  <2>2. QED  BY <2>1
<1>2. ASSUME NEW n \in Nat, n \in T PROVE n + 1 \in T
  <2> SUFFICES ASSUME NEW U \in SUBSET (1 .. n + 1), U # {} PROVE \E x \in U : \A y \in U : x >= y
    OBVIOUS
  <2>1. CASE n + 1 \in U
    BY <2>1
  <2>2. CASE n + 1 \notin U
    <3>1. U \in SUBSET (1 .. n)
      BY <2>2
    <3>2. QED  BY <1>2, <3>1
  <2>3. QED  BY <2>1, <2>2
<1>3. Nat \subseteq T
  <2> HIDE DEF T
  <2> QED  BY <1>1, <1>2, NatInd
<1>4. \E x \in S : \A y \in S : x >= y
  BY <1>3
<1>5. QED  BY <1>4 DEF Max

(* The last of the positions up to n + 1. *)
LEMMA MaxOfPrefix ==
  ASSUME NEW n \in Nat
  PROVE  Max(1 .. n + 1) = n + 1 /\ (1 .. n + 1) \ {Max(1 .. n + 1)} = 1 .. n /\ 1 .. n + 1 # {}
<1>1. 1 .. n + 1 \in SUBSET (1 .. n + 1) /\ 1 .. n + 1 # {} /\ n + 1 \in Nat /\ n + 1 \in 1 .. n + 1
  OBVIOUS
<1>2. Max(1 .. n + 1) \in 1 .. n + 1 /\ Max(1 .. n + 1) >= n + 1
  BY <1>1, MaxOfPositions
<1>3. Max(1 .. n + 1) = n + 1
  BY <1>2
<1>4. QED  BY <1>1, <1>3

(* A fold as a function on sets of positions, from the last one on. *)
IsFold(g, N, base, F) ==
  \A S \in SUBSET (1 .. N) : g[S] = IF S = {} THEN base ELSE F[Max(S)][g[S \ {Max(S)}]]

(* A fold over the positions of a sequence has a solution: CHOOSE finds one. *)
LEMMA FoldExists ==
  ASSUME NEW N \in Nat, NEW R, NEW base \in R, NEW F \in [1 .. N -> [R -> R]]
  PROVE  \E g \in [SUBSET (1 .. N) -> R] : IsFold(g, N, base, F)
<1> DEFINE Solves(n, g) == \A s \in SUBSET (1 .. n) : g[s] = IF s = {} THEN base ELSE F[Max(s)][g[s \ {Max(s)}]]
           Solutions(n) == {g \in [SUBSET (1 .. n) -> R] : Solves(n, g)}
           T == {n \in Nat : n <= N => Solutions(n) # {}}
<1>1. 0 \in T
  <2>1. SUBSET (1 .. 0) = {{}}
    <3>1. 1 .. 0 = {}
      OBVIOUS
    <3>2. QED  BY <3>1
  <2>2. [s \in SUBSET (1 .. 0) |-> base] \in [SUBSET (1 .. 0) -> R]
    OBVIOUS
  <2>3. Solves(0, [s \in SUBSET (1 .. 0) |-> base])
    BY <2>1
  <2>4. QED  BY <2>2, <2>3
<1>2. ASSUME NEW n \in Nat, n \in T PROVE n + 1 \in T
  <2> SUFFICES ASSUME n + 1 <= N PROVE Solutions(n + 1) # {}
    <3> HIDE DEF Solutions
    <3> QED  OBVIOUS
  <2>1. PICK g \in [SUBSET (1 .. n) -> R] : Solves(n, g)
    <3>1. Solutions(n) # {}
      <4> HIDE DEF Solutions
      <4>1. n <= N
        OBVIOUS
      <4>2. QED  BY <1>2, <4>1
    <3>2. QED  BY <3>1
  <2> DEFINE h == [s \in SUBSET (1 .. n + 1) |->
                     IF n + 1 \in s THEN F[n + 1][g[s \ {n + 1}]] ELSE g[s]]
  <2>2. ASSUME NEW s \in SUBSET (1 .. n + 1) PROVE s \ {n + 1} \in SUBSET (1 .. n)
    OBVIOUS
  <2>3. h \in [SUBSET (1 .. n + 1) -> R]
    <3>1. ASSUME NEW s \in SUBSET (1 .. n + 1) PROVE h[s] \in R
      <4>1. CASE n + 1 \in s
        BY <2>2, <4>1
      <4>2. CASE n + 1 \notin s
        <5>1. s \in SUBSET (1 .. n)
          BY <4>2
        <5>2. QED  BY <4>2, <5>1
      <4>3. QED  BY <4>1, <4>2
    <3>2. QED  BY <3>1
  <2>4. ASSUME NEW s \in SUBSET (1 .. n + 1)
        PROVE  h[s] = IF s = {} THEN base ELSE F[Max(s)][h[s \ {Max(s)}]]
    <3>1. CASE n + 1 \in s
      <4>1. Max(s) = n + 1
        <5>1. n + 1 \in Nat /\ s # {}
          BY <3>1
        <5>2. Max(s) \in s /\ Max(s) >= n + 1
          BY <3>1, <5>1, MaxOfPositions
        <5>3. Max(s) \in 1 .. n + 1
          BY <5>2
        <5>4. QED  BY <5>2, <5>3
      <4>2. h[s \ {n + 1}] = g[s \ {n + 1}]
        BY <2>2
      <4>3. QED  BY <3>1, <4>1, <4>2
    <3>2. CASE n + 1 \notin s
      <4>1. s \in SUBSET (1 .. n) /\ h[s] = g[s]
        BY <3>2
      <4>2. g[s] = IF s = {} THEN base ELSE F[Max(s)][g[s \ {Max(s)}]]
        BY <2>1, <4>1
      <4>3. h[s \ {Max(s)}] = g[s \ {Max(s)}]
        BY <3>2, <4>1
      <4>4. QED  BY <4>1, <4>2, <4>3
    <3>3. QED  BY <3>1, <3>2
  <2>5. Solves(n + 1, h)
    BY <2>4
  <2>6. QED  BY <2>3, <2>5
<1>3. Nat \subseteq T
  <2> HIDE DEF T
  <2> QED  BY <1>1, <1>2, NatInd
<1>4. PICK g \in [SUBSET (1 .. N) -> R] : Solves(N, g)
  <2>1. Solutions(N) # {}
    <3> HIDE DEF Solutions
    <3> QED  BY <1>3
  <2>2. QED  BY <2>1
<1>5. QED  BY <1>4 DEF IsFold

(* The same while the values are in R. *)
FoldsWithin(g, R, N, base, F) ==
  /\ g[{}] = base
  /\ \A S \in SUBSET (1 .. N) : S # {} /\ g[S \ {Max(S)}] \in R =>
       g[S] = F[Max(S)][g[S \ {Max(S)}]]

(* The values it goes through, and the last of them. *)
Unrolls(h, R, N, base, F, last) ==
  /\ h \in [0 .. N -> R] /\ h[0] = base /\ h[N] = last
  /\ \A n \in 0 .. N - 1 : h[n + 1] = F[n + 1][h[n]]

(* What a fold over the positions of a sequence goes through. *)
LEMMA FoldValues ==
  ASSUME NEW N \in Nat, NEW R, NEW base \in R, NEW F \in [1 .. N -> [R -> R]], NEW g,
         FoldsWithin(g, R, N, base, F)
  PROVE  \E h : Unrolls(h, R, N, base, F, g[1 .. N])
<1>0. /\ g[{}] = base
      /\ \A S \in SUBSET (1 .. N) : S # {} /\ g[S \ {Max(S)}] \in R =>
           g[S] = F[Max(S)][g[S \ {Max(S)}]]
  BY DEF FoldsWithin
<1> DEFINE h == [n \in 0 .. N |-> g[1 .. n]]
           T == {n \in Nat : n <= N => h[n] \in R}
<1>1. h[0] = base
  <2>1. 1 .. 0 = {}
    OBVIOUS
  <2>2. QED  BY <1>0, <2>1
<1>2. ASSUME NEW n \in 0 .. N - 1, h[n] \in R PROVE h[n + 1] = F[n + 1][h[n]] /\ h[n + 1] \in R
  <2>1. n \in Nat /\ n + 1 \in 0 .. N /\ n \in 0 .. N /\ n + 1 \in 1 .. N
    OBVIOUS
  <2> DEFINE S == 1 .. n + 1
  <2>2. Max(S) = n + 1 /\ S \ {Max(S)} = 1 .. n /\ S # {}
    BY <2>1, MaxOfPrefix
  <2>3. S \in SUBSET (1 .. N)
    BY <2>1
  <2>4. g[1 .. n] \in R
    BY <1>2, <2>1
  <2>5. g[S] = F[Max(S)][g[S \ {Max(S)}]]
    <3> HIDE DEF S
    <3> QED  BY <1>0, <2>2, <2>3, <2>4
  <2>6. g[1 .. n + 1] = F[n + 1][g[1 .. n]]
    BY <2>2, <2>5
  <2>7. F[n + 1][g[1 .. n]] \in R
    BY <2>1, <2>4
  <2>8. QED  BY <2>1, <2>6, <2>7
<1>3. Nat \subseteq T
  <2> HIDE DEF h
  <2>1. 0 \in T
    BY <1>1
  <2>2. ASSUME NEW n \in Nat, n \in T PROVE n + 1 \in T
    <3>1. CASE n + 1 <= N
      <4>1. n \in 0 .. N - 1 /\ h[n] \in R
        BY <2>2, <3>1
      <4>2. QED  BY <1>2, <4>1
    <3>2. QED  BY <3>1
  <2>3. QED
    <3> HIDE DEF T
    <3> QED  BY <2>1, <2>2, NatInd
<1>4. \A n \in 0 .. N : h[n] \in R
  <2> HIDE DEF h
  <2> QED  BY <1>3
<1>5. h \in [0 .. N -> R]
  BY <1>4
<1>6. \A n \in 0 .. N - 1 : h[n + 1] = F[n + 1][h[n]]
  <2> HIDE DEF h
  <2>1. \A n \in 0 .. N - 1 : n \in 0 .. N
    OBVIOUS
  <2>2. QED  BY <1>2, <1>4, <2>1
<1>7. h[N] = g[1 .. N]
  OBVIOUS
<1>8. QED  BY <1>1, <1>5, <1>6, <1>7 DEF Unrolls

-----------------------------------------------------------------------------
(***************************************************************************)
(* The folds of the model, unrolled.                                       *)
(***************************************************************************)
AddIfNew(r, t) == IF t \in ToSet(r) THEN r ELSE Append(r, t)

AddIfIn(P, r, t) == IF t \in P THEN Append(r, t) ELSE r

(* Deduped, step by step. *)
LEMMA DedupedUnrolled ==
  ASSUME NEW T, NEW s \in Seq(T)
  PROVE  \E h \in [0 .. Len(s) -> Seq(T)] :
           /\ h[0] = <<>> /\ h[Len(s)] = Deduped(s)
           /\ \A n \in 0 .. Len(s) - 1 : h[n + 1] = AddIfNew(h[n], s[n + 1])
<1> DEFINE N == Len(s)
           R == Seq(T)
           base == <<>>
           F == [i \in 1 .. N |-> [r \in R |-> AddIfNew(r, s[i])]]
           iter == CHOOSE g : g = [S \in SUBSET DOMAIN s |->
                     IF S = {} THEN <<>> ELSE AddIfNew(g[S \ {Max(S)}], s[Max(S)])]
<1>1. Deduped(s) = iter[DOMAIN s]
  BY DEF Deduped, FoldLeft, MapThenFoldSet, AddIfNew
<1>2. N \in Nat /\ DOMAIN s = 1 .. N /\ \A i \in 1 .. N : s[i] \in T
  OBVIOUS
<1>3. F \in [1 .. N -> [R -> R]] /\ base \in R
  BY <1>2 DEF AddIfNew
<1>4. ASSUME NEW S \in SUBSET (1 .. N), S # {}, NEW r \in R
      PROVE  F[Max(S)][r] = AddIfNew(r, s[Max(S)])
  <2>1. Max(S) \in 1 .. N
    BY <1>2, <1>4, MaxOfPositions
  <2>2. QED  BY <2>1
<1>5. \E g : g = [S \in SUBSET DOMAIN s |-> IF S = {} THEN base ELSE AddIfNew(g[S \ {Max(S)}], s[Max(S)])]
  <2> HIDE DEF F, R, N, base
  <2>1. PICK g \in [SUBSET (1 .. N) -> R] : IsFold(g, N, base, F)
    BY <1>2, <1>3, FoldExists
  <2>2. ASSUME NEW S \in SUBSET (1 .. N) PROVE g[S \ {Max(S)}] \in R
    <3>1. S \ {Max(S)} \in SUBSET (1 .. N)
      OBVIOUS
    <3>2. QED  BY <2>1, <3>1
  <2>3. \A S \in SUBSET (1 .. N) : g[S] = IF S = {} THEN base ELSE AddIfNew(g[S \ {Max(S)}], s[Max(S)])
    BY <1>4, <2>1, <2>2 DEF IsFold
  <2>4. g = [S \in SUBSET (1 .. N) |-> IF S = {} THEN base ELSE AddIfNew(g[S \ {Max(S)}], s[Max(S)])]
    BY <2>1, <2>3
  <2>5. QED  BY <1>2, <2>4
<1>6. iter = [S \in SUBSET DOMAIN s |-> IF S = {} THEN base ELSE AddIfNew(iter[S \ {Max(S)}], s[Max(S)])]
  BY <1>5
<1>7. FoldsWithin(iter, R, N, base, F)
  <2> HIDE DEF iter, F, R, N, base
  <2> QED  BY <1>2, <1>4, <1>6 DEF FoldsWithin
<1>8. PICK h : Unrolls(h, R, N, base, F, iter[1 .. N])
  <2> HIDE DEF iter, F, R, N, base
  <2> QED  BY <1>2, <1>3, <1>7, FoldValues
<1>9. ASSUME NEW n \in 0 .. N - 1 PROVE h[n + 1] = AddIfNew(h[n], s[n + 1])
  <2>1. n + 1 \in 1 .. N /\ n \in 0 .. N
    BY <1>2
  <2>2. h[n] \in R
    BY <1>8, <2>1 DEF Unrolls
  <2>3. QED  BY <1>8, <2>1, <2>2 DEF Unrolls
<1>10. QED  BY <1>1, <1>2, <1>8, <1>9 DEF Unrolls

(* Selected, step by step. *)
LEMMA SelectedUnrolled ==
  ASSUME NEW T, NEW s \in Seq(T), NEW P
  PROVE  \E h \in [0 .. Len(s) -> Seq(T)] :
           /\ h[0] = <<>> /\ h[Len(s)] = Selected(s, P)
           /\ \A n \in 0 .. Len(s) - 1 : h[n + 1] = AddIfIn(P, h[n], s[n + 1])
<1> DEFINE N == Len(s)
           R == Seq(T)
           base == <<>>
           F == [i \in 1 .. N |-> [r \in R |-> AddIfIn(P, r, s[i])]]
           iter == CHOOSE g : g = [S \in SUBSET DOMAIN s |->
                     IF S = {} THEN <<>> ELSE AddIfIn(P, g[S \ {Max(S)}], s[Max(S)])]
<1>1. Selected(s, P) = iter[DOMAIN s]
  BY DEF Selected, FoldLeft, MapThenFoldSet, AddIfIn
<1>2. N \in Nat /\ DOMAIN s = 1 .. N /\ \A i \in 1 .. N : s[i] \in T
  OBVIOUS
<1>3. F \in [1 .. N -> [R -> R]] /\ base \in R
  BY <1>2 DEF AddIfIn
<1>4. ASSUME NEW S \in SUBSET (1 .. N), S # {}, NEW r \in R
      PROVE  F[Max(S)][r] = AddIfIn(P, r, s[Max(S)])
  <2>1. Max(S) \in 1 .. N
    BY <1>2, <1>4, MaxOfPositions
  <2>2. QED  BY <2>1
<1>5. \E g : g = [S \in SUBSET DOMAIN s |-> IF S = {} THEN base ELSE AddIfIn(P, g[S \ {Max(S)}], s[Max(S)])]
  <2> HIDE DEF F, R, N, base
  <2>1. PICK g \in [SUBSET (1 .. N) -> R] : IsFold(g, N, base, F)
    BY <1>2, <1>3, FoldExists
  <2>2. ASSUME NEW S \in SUBSET (1 .. N) PROVE g[S \ {Max(S)}] \in R
    <3>1. S \ {Max(S)} \in SUBSET (1 .. N)
      OBVIOUS
    <3>2. QED  BY <2>1, <3>1
  <2>3. \A S \in SUBSET (1 .. N) : g[S] = IF S = {} THEN base ELSE AddIfIn(P, g[S \ {Max(S)}], s[Max(S)])
    BY <1>4, <2>1, <2>2 DEF IsFold
  <2>4. g = [S \in SUBSET (1 .. N) |-> IF S = {} THEN base ELSE AddIfIn(P, g[S \ {Max(S)}], s[Max(S)])]
    BY <2>1, <2>3
  <2>5. QED  BY <1>2, <2>4
<1>6. iter = [S \in SUBSET DOMAIN s |-> IF S = {} THEN base ELSE AddIfIn(P, iter[S \ {Max(S)}], s[Max(S)])]
  BY <1>5
<1>7. FoldsWithin(iter, R, N, base, F)
  <2> HIDE DEF iter, F, R, N, base
  <2> QED  BY <1>2, <1>4, <1>6 DEF FoldsWithin
<1>8. PICK h : Unrolls(h, R, N, base, F, iter[1 .. N])
  <2> HIDE DEF iter, F, R, N, base
  <2> QED  BY <1>2, <1>3, <1>7, FoldValues
<1>9. ASSUME NEW n \in 0 .. N - 1 PROVE h[n + 1] = AddIfIn(P, h[n], s[n + 1])
  <2>1. n + 1 \in 1 .. N /\ n \in 0 .. N
    BY <1>2
  <2>2. h[n] \in R
    BY <1>8, <2>1 DEF Unrolls
  <2>3. QED  BY <1>8, <2>1, <2>2 DEF Unrolls
<1>10. QED  BY <1>1, <1>2, <1>8, <1>9 DEF Unrolls

(* Total, step by step. *)
LEMMA TotalUnrolled ==
  ASSUME NEW s \in Seq(Int)
  PROVE  \E h \in [0 .. Len(s) -> Int] :
           /\ h[0] = 0 /\ h[Len(s)] = Total(s)
           /\ \A n \in 0 .. Len(s) - 1 : h[n + 1] = h[n] + s[n + 1]
<1> DEFINE N == Len(s)
           R == Int
           base == 0
           F == [i \in 1 .. N |-> [r \in R |-> r + s[i]]]
           iter == CHOOSE g : g = [S \in SUBSET DOMAIN s |->
                     IF S = {} THEN 0 ELSE g[S \ {Max(S)}] + s[Max(S)]]
<1>1. Total(s) = iter[DOMAIN s]
  BY DEF Total, FoldLeft, MapThenFoldSet
<1>2. N \in Nat /\ DOMAIN s = 1 .. N /\ \A i \in 1 .. N : s[i] \in Int
  OBVIOUS
<1>3. F \in [1 .. N -> [R -> R]] /\ base \in R
  BY <1>2
<1>4. ASSUME NEW S \in SUBSET (1 .. N), S # {}, NEW r \in R
      PROVE  F[Max(S)][r] = r + s[Max(S)]
  <2>1. Max(S) \in 1 .. N
    BY <1>2, <1>4, MaxOfPositions
  <2>2. QED  BY <2>1
<1>5. \E g : g = [S \in SUBSET DOMAIN s |-> IF S = {} THEN base ELSE g[S \ {Max(S)}] + s[Max(S)]]
  <2> HIDE DEF F, R, N, base
  <2>1. PICK g \in [SUBSET (1 .. N) -> R] : IsFold(g, N, base, F)
    BY <1>2, <1>3, FoldExists
  <2>2. ASSUME NEW S \in SUBSET (1 .. N) PROVE g[S \ {Max(S)}] \in R
    <3>1. S \ {Max(S)} \in SUBSET (1 .. N)
      OBVIOUS
    <3>2. QED  BY <2>1, <3>1
  <2>3. \A S \in SUBSET (1 .. N) : g[S] = IF S = {} THEN base ELSE g[S \ {Max(S)}] + s[Max(S)]
    BY <1>4, <2>1, <2>2 DEF IsFold
  <2>4. g = [S \in SUBSET (1 .. N) |-> IF S = {} THEN base ELSE g[S \ {Max(S)}] + s[Max(S)]]
    BY <2>1, <2>3
  <2>5. QED  BY <1>2, <2>4
<1>6. iter = [S \in SUBSET DOMAIN s |-> IF S = {} THEN base ELSE iter[S \ {Max(S)}] + s[Max(S)]]
  BY <1>5
<1>7. FoldsWithin(iter, R, N, base, F)
  <2> HIDE DEF iter, F, R, N, base
  <2> QED  BY <1>2, <1>4, <1>6 DEF FoldsWithin
<1>8. PICK h : Unrolls(h, R, N, base, F, iter[1 .. N])
  <2> HIDE DEF iter, F, R, N, base
  <2> QED  BY <1>2, <1>3, <1>7, FoldValues
<1>9. ASSUME NEW n \in 0 .. N - 1 PROVE h[n + 1] = h[n] + s[n + 1]
  <2>1. n + 1 \in 1 .. N /\ n \in 0 .. N
    BY <1>2
  <2>2. h[n] \in R
    BY <1>8, <2>1 DEF Unrolls
  <2>3. QED  BY <1>8, <2>1, <2>2 DEF Unrolls
<1>10. QED  BY <1>1, <1>2, <1>8, <1>9 DEF Unrolls

(* A set of positions that is not empty has a first one. *)
LEMMA MinOfPositions ==
  ASSUME NEW N \in Nat, NEW I \in SUBSET (1 .. N), I # {}
  PROVE  Min(I) \in I /\ \A y \in I : Min(I) <= y
<1>1. \E x \in I : \A y \in I : x <= y
  <2> DEFINE U == {n \in Nat : \A y \in I : y > n}
  <2> SUFFICES ASSUME \A x \in I : \E y \in I : y < x PROVE FALSE
    OBVIOUS
  <2>1. 0 \in U
    OBVIOUS
  <2>2. ASSUME NEW n \in Nat, n \in U PROVE n + 1 \in U
    <3>1. \A y \in I : y > n
      BY <2>2
    <3>2. n + 1 \notin I
      BY <3>1
    <3>3. \A y \in I : y > n + 1
      BY <3>1, <3>2
    <3>4. QED  BY <3>3
  <2>3. Nat \subseteq U
    <3> HIDE DEF U
    <3> QED  BY <2>1, <2>2, NatInd
  <2>4. PICK x : x \in I
    OBVIOUS
  <2>5. x \in Nat /\ x \in U
    BY <2>3, <2>4
  <2>6. x > x
    BY <2>4, <2>5
  <2>7. QED  BY <2>5, <2>6
<1>2. QED  BY <1>1 DEF Min

(* Merging two measurements makes one. *)
LEMMA MergeMeasurementType ==
  ASSUME NEW m \in MeasurementType, NEW n \in MeasurementType
  PROVE  MergeMeasurement(m, n) \in MeasurementType
<1>1. m.samples \o n.samples \in Seq(Runs)
  BY DEF MeasurementType
<1>2. QED  BY <1>1 DEF MergeMeasurement, MeasurementType

(* What grouping does with one more measurement: it goes to the group of its name, *)
(* which is the first one, or becomes a group of its own.                          *)
LEMMA GroupedCases ==
  ASSUME NEW groups \in Seq(MeasurementType), NEW m \in MeasurementType
  PROVE  \/ /\ \A i \in 1 .. Len(groups) : ~SameName(groups[i], m)
            /\ Grouped(groups, m) = Append(groups, m)
         \/ \E g \in 1 .. Len(groups) :
              /\ SameName(groups[g], m)
              /\ Grouped(groups, m) = [groups EXCEPT ![g] = MergeMeasurement(groups[g], m)]
<1> DEFINE I == {i \in 1 .. Len(groups) : SameName(groups[i], m)}
           g == SelectInSeq(groups, LAMBDA n : SameName(n, m))
<1>1. g = IF I # {} THEN Min(I) ELSE 0
  BY DEF SelectInSeq
<1>2. I \in SUBSET (1 .. Len(groups)) /\ Len(groups) \in Nat
  OBVIOUS
<1>3. CASE I = {}
  <2>1. g = 0
    BY <1>1, <1>3
  <2>2. QED  BY <1>3, <2>1 DEF Grouped
<1>4. CASE I # {}
  <2>1. g \in I
    <3> HIDE DEF g, I
    <3> QED  BY <1>1, <1>2, <1>4, MinOfPositions
  <2>2. g \in 1 .. Len(groups) /\ SameName(groups[g], m)
    <3> HIDE DEF g
    <3> QED  BY <2>1
  <2>3. g # 0
    <3> HIDE DEF g
    <3> QED  BY <2>2
  <2>4. Grouped(groups, m) = [groups EXCEPT ![g] = MergeMeasurement(groups[g], m)]
    BY <2>3 DEF Grouped
  <2>5. QED
    <3> HIDE DEF g
    <3> QED  BY <2>2, <2>4
<1>5. QED  BY <1>3, <1>4

(* Grouping keeps a list of measurements one. *)
LEMMA GroupedType ==
  ASSUME NEW groups \in Seq(MeasurementType), NEW m \in MeasurementType
  PROVE  Grouped(groups, m) \in Seq(MeasurementType)
<1>1. \A g \in 1 .. Len(groups) : MergeMeasurement(groups[g], m) \in MeasurementType
  BY MergeMeasurementType
<1>2. ASSUME NEW g \in 1 .. Len(groups), NEW n \in MeasurementType
      PROVE  [groups EXCEPT ![g] = n] \in Seq(MeasurementType)
  OBVIOUS
<1>3. Append(groups, m) \in Seq(MeasurementType)
  OBVIOUS
<1>4. CASE Grouped(groups, m) = Append(groups, m)
  BY <1>3, <1>4
<1>5. ASSUME NEW g \in 1 .. Len(groups), Grouped(groups, m) = [groups EXCEPT ![g] = MergeMeasurement(groups[g], m)]
      PROVE  Grouped(groups, m) \in Seq(MeasurementType)
  BY <1>1, <1>2, <1>5
<1>6. QED  BY <1>4, <1>5, GroupedCases

(* Grouping a list, step by step. *)
LEMMA GroupingUnrolled ==
  ASSUME NEW s \in Seq(MeasurementType)
  PROVE  \E h \in [0 .. Len(s) -> Seq(MeasurementType)] :
           /\ h[0] = <<>> /\ h[Len(s)] = FoldLeft(Grouped, <<>>, s)
           /\ \A n \in 0 .. Len(s) - 1 : h[n + 1] = Grouped(h[n], s[n + 1])
<1> DEFINE N == Len(s)
           R == Seq(MeasurementType)
           base == <<>>
           F == [i \in 1 .. N |-> [r \in R |-> Grouped(r, s[i])]]
           iter == CHOOSE g : g = [S \in SUBSET DOMAIN s |->
                     IF S = {} THEN <<>> ELSE Grouped(g[S \ {Max(S)}], s[Max(S)])]
<1>1. FoldLeft(Grouped, <<>>, s) = iter[DOMAIN s]
  BY DEF FoldLeft, MapThenFoldSet
<1>2. N \in Nat /\ DOMAIN s = 1 .. N /\ \A i \in 1 .. N : s[i] \in MeasurementType
  OBVIOUS
<1>3. F \in [1 .. N -> [R -> R]] /\ base \in R
  BY <1>2, GroupedType
<1>4. ASSUME NEW S \in SUBSET (1 .. N), S # {}, NEW r \in R
      PROVE  F[Max(S)][r] = Grouped(r, s[Max(S)])
  <2>1. Max(S) \in 1 .. N
    BY <1>2, <1>4, MaxOfPositions
  <2>2. QED  BY <2>1
<1>5. \E g : g = [S \in SUBSET DOMAIN s |-> IF S = {} THEN base ELSE Grouped(g[S \ {Max(S)}], s[Max(S)])]
  <2> HIDE DEF F, R, N, base
  <2>1. PICK g \in [SUBSET (1 .. N) -> R] : IsFold(g, N, base, F)
    BY <1>2, <1>3, FoldExists
  <2>2. ASSUME NEW S \in SUBSET (1 .. N) PROVE g[S \ {Max(S)}] \in R
    <3>1. S \ {Max(S)} \in SUBSET (1 .. N)
      OBVIOUS
    <3>2. QED  BY <2>1, <3>1
  <2>3. \A S \in SUBSET (1 .. N) : g[S] = IF S = {} THEN base ELSE Grouped(g[S \ {Max(S)}], s[Max(S)])
    BY <1>4, <2>1, <2>2 DEF IsFold
  <2>4. g = [S \in SUBSET (1 .. N) |-> IF S = {} THEN base ELSE Grouped(g[S \ {Max(S)}], s[Max(S)])]
    BY <2>1, <2>3
  <2>5. QED  BY <1>2, <2>4
<1>6. iter = [S \in SUBSET DOMAIN s |-> IF S = {} THEN base ELSE Grouped(iter[S \ {Max(S)}], s[Max(S)])]
  BY <1>5
<1>7. FoldsWithin(iter, R, N, base, F)
  <2> HIDE DEF iter, F, R, N, base
  <2> QED  BY <1>2, <1>4, <1>6 DEF FoldsWithin
<1>8. PICK h : Unrolls(h, R, N, base, F, iter[1 .. N])
  <2> HIDE DEF iter, F, R, N, base
  <2> QED  BY <1>2, <1>3, <1>7, FoldValues
<1>9. ASSUME NEW n \in 0 .. N - 1 PROVE h[n + 1] = Grouped(h[n], s[n + 1])
  <2>1. n + 1 \in 1 .. N /\ n \in 0 .. N
    BY <1>2
  <2>2. h[n] \in R
    BY <1>8, <2>1 DEF Unrolls
  <2>3. QED  BY <1>8, <2>1, <2>2 DEF Unrolls
<1>10. QED  BY <1>1, <1>2, <1>8, <1>9 DEF Unrolls

-----------------------------------------------------------------------------
(***************************************************************************)
(* Totals.                                                                 *)
(***************************************************************************)
(* Sums, through what they go through: s sums up to t, number by number. *)
Sums(t, s) ==
  /\ t[0] = 0
  /\ \A n \in 0 .. Len(s) - 1 : t[n + 1] = t[n] + s[n + 1]

(* The total is the last partial sum. *)
LEMMA PartialSums ==
  ASSUME NEW s \in Seq(Int)
  PROVE  \E t \in [0 .. Len(s) -> Int] : Sums(t, s) /\ t[Len(s)] = Total(s)
BY TotalUnrolled DEF Sums

(* Whatever adds up element by element ends with the total. *)
LEMMA TotalIs ==
  ASSUME NEW s \in Seq(Int), NEW t, Sums(t, s)
  PROVE  t[Len(s)] = Total(s)
<1>1. PICK u \in [0 .. Len(s) -> Int] : Sums(u, s) /\ u[Len(s)] = Total(s)
  BY PartialSums
<1> DEFINE T == {n \in Nat : n <= Len(s) => t[n] = u[n]}
<1>2. 0 \in T
  BY <1>1 DEF Sums
<1>3. ASSUME NEW n \in Nat, n \in T PROVE n + 1 \in T
  <2> SUFFICES ASSUME n + 1 <= Len(s) PROVE t[n + 1] = u[n + 1]
    OBVIOUS
  <2>1. n \in 0 .. Len(s) - 1 /\ t[n] = u[n]
    BY <1>3
  <2>2. QED  BY <1>1, <2>1 DEF Sums
<1>4. Nat \subseteq T
  <2> HIDE DEF T
  <2> QED  BY <1>2, <1>3, NatInd
<1>5. Len(s) \in Nat
  OBVIOUS
<1>6. QED  BY <1>1, <1>4, <1>5

(* A total of integers is one. *)
LEMMA TotalInt ==
  ASSUME NEW s \in Seq(Int)
  PROVE  Total(s) \in Int
<1>1. PICK t \in [0 .. Len(s) -> Int] : t[Len(s)] = Total(s)
  BY PartialSums
<1>2. QED  BY <1>1

(* Nothing adds up to nothing. *)
LEMMA TotalEmpty == Total(<<>>) = 0
<1>1. <<>> \in Seq(Int) /\ Len(<<>>) = 0
  OBVIOUS
<1>2. PICK t \in [0 .. 0 -> Int] : Sums(t, <<>>) /\ t[0] = Total(<<>>)
  BY <1>1, PartialSums
<1>3. QED  BY <1>2 DEF Sums

(* Nor do zeros. *)
LEMMA TotalZero ==
  ASSUME NEW s \in Seq(Int), \A i \in 1 .. Len(s) : s[i] = 0
  PROVE  Total(s) = 0
<1> DEFINE t == [n \in 0 .. Len(s) |-> 0]
<1>1. Sums(t, s)
  BY DEF Sums
<1>2. t[Len(s)] = 0
  OBVIOUS
<1>3. QED
  <2> HIDE DEF t
  <2> QED  BY <1>1, <1>2, TotalIs

(* The total of sums is the sum of the totals. *)
LEMMA TotalPlus ==
  ASSUME NEW r \in Seq(Int), NEW s \in Seq(Int), NEW u \in Seq(Int), Len(r) = Len(u), Len(s) = Len(u),
         \A i \in 1 .. Len(u) : u[i] = r[i] + s[i]
  PROVE  Total(u) = Total(r) + Total(s)
<1>1. PICK a \in [0 .. Len(r) -> Int] : Sums(a, r) /\ a[Len(r)] = Total(r)
  BY PartialSums
<1>2. PICK b \in [0 .. Len(s) -> Int] : Sums(b, s) /\ b[Len(s)] = Total(s)
  BY PartialSums
<1> DEFINE t == [n \in 0 .. Len(u) |-> a[n] + b[n]]
<1>3. Sums(t, u)
  <2>1. t[0] = 0
    BY <1>1, <1>2 DEF Sums
  <2>2. ASSUME NEW n \in 0 .. Len(u) - 1 PROVE t[n + 1] = t[n] + u[n + 1]
    <3>1. n + 1 \in 1 .. Len(u) /\ n \in 0 .. Len(u) /\ n + 1 \in 0 .. Len(u)
      OBVIOUS
    <3>2. a[n + 1] = a[n] + r[n + 1] /\ b[n + 1] = b[n] + s[n + 1]
      BY <1>1, <1>2 DEF Sums
    <3>3. a[n] \in Int /\ b[n] \in Int /\ r[n + 1] \in Int /\ s[n + 1] \in Int
      <4>1. n \in 0 .. Len(r) /\ n \in 0 .. Len(s) /\ n + 1 \in 1 .. Len(r) /\ n + 1 \in 1 .. Len(s)
        BY <3>1
      <4>2. a[n] \in Int /\ b[n] \in Int
        BY <4>1
      <4>3. r[n + 1] \in Int /\ s[n + 1] \in Int
        BY <4>1
      <4>4. QED  BY <4>2, <4>3
    <3>4. t[n + 1] = a[n + 1] + b[n + 1] /\ t[n] = a[n] + b[n] /\ u[n + 1] = r[n + 1] + s[n + 1]
      BY <3>1
    <3>5. \A w, x, y, z \in Int : (w + y) + (x + z) = (w + x) + (y + z)
      OBVIOUS
    <3>6. (a[n] + r[n + 1]) + (b[n] + s[n + 1]) = (a[n] + b[n]) + (r[n + 1] + s[n + 1])
      BY <3>3, <3>5
    <3>7. QED
      <4> HIDE DEF t
      <4> QED  BY <3>2, <3>4, <3>6
  <2>3. QED
    <3> HIDE DEF t
    <3> QED  BY <2>1, <2>2 DEF Sums
<1>4. t[Len(u)] = Total(r) + Total(s)
  BY <1>1, <1>2
<1>5. QED
  <2> HIDE DEF t
  <2> QED  BY <1>3, <1>4, TotalIs

(* A common factor is a factor of the total. *)
LEMMA TotalTimes ==
  ASSUME NEW s \in Seq(Int), NEW u \in Seq(Int), NEW q \in Int, Len(s) = Len(u),
         \A i \in 1 .. Len(u) : u[i] = q * s[i]
  PROVE  Total(u) = q * Total(s)
<1>1. PICK a \in [0 .. Len(s) -> Int] : Sums(a, s) /\ a[Len(s)] = Total(s)
  BY PartialSums
<1> DEFINE t == [n \in 0 .. Len(u) |-> q * a[n]]
<1>2. Sums(t, u)
  <2>1. t[0] = 0
    BY <1>1 DEF Sums
  <2>2. ASSUME NEW n \in 0 .. Len(u) - 1 PROVE t[n + 1] = t[n] + u[n + 1]
    <3>1. n + 1 \in 1 .. Len(u) /\ n \in 0 .. Len(u) /\ n + 1 \in 0 .. Len(u)
      OBVIOUS
    <3>2. a[n + 1] = a[n] + s[n + 1]
      BY <1>1 DEF Sums
    <3>3. a[n] \in Int /\ s[n + 1] \in Int
      BY <3>1
    <3>4. q * (a[n] + s[n + 1]) = q * a[n] + q * s[n + 1]
      BY <3>3
    <3>5. QED  BY <3>1, <3>2, <3>3, <3>4
  <2>3. QED
    <3> HIDE DEF t
    <3> QED  BY <2>1, <2>2 DEF Sums
<1>3. t[Len(u)] = q * Total(s)
  BY <1>1
<1>4. QED
  <2> HIDE DEF t
  <2> QED  BY <1>2, <1>3, TotalIs

(* One more element adds itself. *)
LEMMA TotalAppend ==
  ASSUME NEW s \in Seq(Int), NEW x \in Int
  PROVE  Total(Append(s, x)) = Total(s) + x
<1>1. PICK a \in [0 .. Len(s) -> Int] : Sums(a, s) /\ a[Len(s)] = Total(s)
  BY PartialSums
<1> DEFINE u == Append(s, x)
           t == [n \in 0 .. Len(s) + 1 |-> IF n <= Len(s) THEN a[n] ELSE a[Len(s)] + x]
<1>2. u \in Seq(Int) /\ Len(u) = Len(s) + 1 /\ u[Len(s) + 1] = x /\ \A i \in 1 .. Len(s) : u[i] = s[i]
  OBVIOUS
<1>3. Sums(t, u)
  <2> HIDE DEF u
  <2>1. t[0] = 0
    BY <1>1 DEF Sums
  <2>2. ASSUME NEW n \in 0 .. Len(s) PROVE t[n + 1] = t[n] + u[n + 1]
    <3>1. CASE n = Len(s)
      BY <1>2, <3>1
    <3>2. CASE n # Len(s)
      <4>1. n \in 0 .. Len(s) - 1 /\ n + 1 \in 1 .. Len(s)
        BY <3>2
      <4>2. a[n + 1] = a[n] + s[n + 1]
        BY <1>1, <4>1 DEF Sums
      <4>3. QED  BY <1>2, <4>1, <4>2
    <3>3. QED  BY <3>1, <3>2
  <2>3. QED
    <3> HIDE DEF t
    <3> QED  BY <1>2, <2>1, <2>2 DEF Sums
<1>4. t[Len(u)] = Total(s) + x
  <2> HIDE DEF u
  <2> QED  BY <1>1, <1>2
<1>5. Total(u) = Total(s) + x
  <2> HIDE DEF t, u
  <2> QED  BY <1>2, <1>3, <1>4, TotalIs
<1>6. QED  BY <1>5

(* The sum of a sequence with one number that is not zero. *)
LEMMA TotalSingle ==
  ASSUME NEW s \in Seq(Int), NEW g \in 1 .. Len(s), \A i \in 1 .. Len(s) : i # g => s[i] = 0
  PROVE  Total(s) = s[g]
<1> DEFINE t == [n \in 0 .. Len(s) |-> IF n < g THEN 0 ELSE s[g]]
<1>1. Sums(t, s)
  <2>1. t[0] = 0
    OBVIOUS
  <2>2. ASSUME NEW n \in 0 .. Len(s) - 1 PROVE t[n + 1] = t[n] + s[n + 1]
    <3>1. s[g] \in Int
      OBVIOUS
    <3>2. CASE n + 1 = g
      BY <3>1, <3>2
    <3>3. CASE n + 1 # g
      <4>1. s[n + 1] = 0
        BY <3>3
      <4>2. QED  BY <3>1, <3>3, <4>1
    <3>4. QED  BY <3>2, <3>3
  <2>3. QED
    <3> HIDE DEF t
    <3> QED  BY <2>1, <2>2 DEF Sums
<1>2. t[Len(s)] = s[g]
  OBVIOUS
<1>3. QED
  <2> HIDE DEF t
  <2> QED  BY <1>1, <1>2, TotalIs

(* To add to an element is to add to the total. *)
LEMMA TotalExcept ==
  ASSUME NEW s \in Seq(Int), NEW g \in 1 .. Len(s), NEW x \in Int
  PROVE  Total([s EXCEPT ![g] = s[g] + x]) = Total(s) + x
<1> DEFINE u == [s EXCEPT ![g] = s[g] + x]
           d == [i \in 1 .. Len(s) |-> IF i = g THEN x ELSE 0]
<1>1. s[g] \in Int /\ s[g] + x \in Int
  OBVIOUS
<1>2. u \in Seq(Int) /\ Len(u) = Len(s) /\ \A i \in 1 .. Len(s) : u[i] = IF i = g THEN s[g] + x ELSE s[i]
  BY <1>1
<1>3. d \in Seq(Int) /\ Len(d) = Len(s) /\ \A i \in 1 .. Len(s) : d[i] = IF i = g THEN x ELSE 0
  OBVIOUS
<1>4. \A i \in 1 .. Len(s) : s[i] \in Int
  OBVIOUS
<1>5. Total(u) = Total(s) + Total(d)
  <2> HIDE DEF u, d
  <2>1. ASSUME NEW i \in 1 .. Len(u) PROVE u[i] = s[i] + d[i]
    <3>1. i \in 1 .. Len(s)
      BY <1>2
    <3>2. CASE i = g
      BY <1>2, <1>3, <3>1, <3>2
    <3>3. CASE i # g
      <4>1. u[i] = s[i] /\ d[i] = 0 /\ s[i] \in Int
        BY <1>2, <1>3, <1>4, <3>1, <3>3
      <4>2. QED  BY <4>1
    <3>4. QED  BY <3>2, <3>3
  <2>2. \A i \in 1 .. Len(u) : u[i] = s[i] + d[i]
    BY <2>1
  <2>3. u \in Seq(Int) /\ d \in Seq(Int) /\ Len(s) = Len(u) /\ Len(d) = Len(u)
    BY <1>2, <1>3
  <2>4. QED  BY <2>2, <2>3, TotalPlus
<1>6. Total(d) = x
  <2> HIDE DEF d
  <2> QED  BY <1>3, TotalSingle
<1>7. QED  BY <1>5, <1>6

(* The total of two lists, one after the other. *)
LEMMA TotalConcat ==
  ASSUME NEW r \in Seq(Int), NEW s \in Seq(Int)
  PROVE  Total(r \o s) = Total(r) + Total(s)
<1>1. PICK a \in [0 .. Len(r) -> Int] : Sums(a, r) /\ a[Len(r)] = Total(r)
  BY PartialSums
<1>2. PICK b \in [0 .. Len(s) -> Int] : Sums(b, s) /\ b[Len(s)] = Total(s)
  BY PartialSums
<1> DEFINE u == r \o s
           t == [n \in 0 .. Len(r) + Len(s) |-> IF n <= Len(r) THEN a[n] ELSE a[Len(r)] + b[n - Len(r)]]
<1>3. /\ u \in Seq(Int) /\ Len(u) = Len(r) + Len(s)
      /\ \A i \in 1 .. Len(r) : u[i] = r[i]
      /\ \A i \in 1 .. Len(s) : u[Len(r) + i] = s[i]
  OBVIOUS
<1>4. Sums(t, u)
  <2> HIDE DEF u
  <2>1. t[0] = 0
    BY <1>1 DEF Sums
  <2>2. ASSUME NEW n \in 0 .. Len(r) + Len(s) - 1 PROVE t[n + 1] = t[n] + u[n + 1]
    <3>1. CASE n < Len(r)
      <4>1. n \in 0 .. Len(r) - 1 /\ n + 1 \in 1 .. Len(r)
        BY <3>1
      <4>2. a[n + 1] = a[n] + r[n + 1]
        BY <1>1, <4>1 DEF Sums
      <4>3. QED  BY <1>3, <4>1, <4>2
    <3>2. CASE n >= Len(r)
      <4> DEFINE m == n - Len(r)
      <4>1. m \in 0 .. Len(s) - 1 /\ m + 1 \in 1 .. Len(s) /\ n + 1 = Len(r) + (m + 1) /\ m \in 0 .. Len(s) /\ m + 1 \in 0 .. Len(s)
        BY <3>2
      <4>2. b[m + 1] = b[m] + s[m + 1]
        BY <1>2, <4>1 DEF Sums
      <4>3. u[n + 1] = s[m + 1]
        <5>1. u[Len(r) + (m + 1)] = s[m + 1]
          <6> HIDE DEF m
          <6> QED  BY <1>3, <4>1
        <5>2. QED
          <6> HIDE DEF m
          <6> QED  BY <4>1, <5>1
      <4>4. b[0] = 0
        BY <1>2 DEF Sums
      <4>5. t[n] = a[Len(r)] + b[m]
        <5>1. CASE n = Len(r)
          <6>1. m = 0 /\ t[n] = a[Len(r)] /\ a[Len(r)] \in Int
            BY <5>1
          <6>2. QED
            <7> HIDE DEF t, m
            <7> QED  BY <4>4, <6>1
        <5>2. CASE n # Len(r)
          BY <3>2, <5>2
        <5>3. QED  BY <5>1, <5>2
      <4>6. t[n + 1] = a[Len(r)] + b[m + 1]
        BY <3>2
      <4>7. a[Len(r)] \in Int /\ b[m] \in Int /\ s[m + 1] \in Int
        <5>1. a[Len(r)] \in Int
          <6>1. Len(r) \in 0 .. Len(r)
            OBVIOUS
          <6>2. QED  BY <6>1
        <5> HIDE DEF m
        <5>2. b[m] \in Int
          BY <4>1
        <5>3. s[m + 1] \in Int
          BY <4>1
        <5>4. QED  BY <5>1, <5>2, <5>3
      <4>8. QED
        <5> HIDE DEF t, m
        <5> QED  BY <4>2, <4>3, <4>5, <4>6, <4>7
    <3>3. QED  BY <3>1, <3>2
  <2>3. QED
    <3> HIDE DEF t
    <3> QED  BY <1>3, <2>1, <2>2 DEF Sums
<1>5. t[Len(u)] = Total(r) + Total(s)
  <2> HIDE DEF u
  <2>1. b[0] = 0
    BY <1>2 DEF Sums
  <2>2. CASE Len(s) = 0
    BY <1>1, <1>2, <1>3, <2>1, <2>2
  <2>3. CASE Len(s) # 0
    BY <1>1, <1>2, <1>3, <2>3
  <2>4. QED  BY <2>2, <2>3
<1>6. Total(u) = Total(r) + Total(s)
  <2> HIDE DEF t, u
  <2> QED  BY <1>3, <1>4, <1>5, TotalIs
<1>7. QED  BY <1>6

-----------------------------------------------------------------------------
(***************************************************************************)
(* Counting samples.                                                       *)
(***************************************************************************)
(* Counting is adding ones. *)
LEMMA TotalCounts ==
  ASSUME NEW s \in Seq(Int), \A i \in 1 .. Len(s) : s[i] \in {0, 1}
  PROVE  /\ Total(s) = Cardinality({i \in 1 .. Len(s) : s[i] = 1})
         /\ Total(s) \in Nat
<1> DEFINE I(n) == {i \in 1 .. n : s[i] = 1}
<1>1. PICK t \in [0 .. Len(s) -> Int] : Sums(t, s) /\ t[Len(s)] = Total(s)
  BY PartialSums
<1> DEFINE T == {n \in Nat : n <= Len(s) => IsFiniteSet(I(n)) /\ t[n] = Cardinality(I(n))}
<1>2. 0 \in T
  <2>1. I(0) = {}
    <3>1. 1 .. 0 = {}
      OBVIOUS
    <3>2. QED  BY <3>1
  <2>2. IsFiniteSet({}) /\ Cardinality({}) = 0
    BY FS_EmptySet
  <2>3. t[0] = 0
    BY <1>1 DEF Sums
  <2>4. QED
    <3> HIDE DEF I
    <3> QED  BY <2>1, <2>2, <2>3
<1>3. ASSUME NEW n \in Nat, n \in T PROVE n + 1 \in T
  <2> SUFFICES ASSUME n + 1 <= Len(s) PROVE IsFiniteSet(I(n + 1)) /\ t[n + 1] = Cardinality(I(n + 1))
    <3> HIDE DEF I
    <3> QED  OBVIOUS
  <2>1. IsFiniteSet(I(n)) /\ t[n] = Cardinality(I(n))
    <3> HIDE DEF I
    <3> QED  BY <1>3
  <2>2. n \in 0 .. Len(s) - 1 /\ n + 1 \in 1 .. Len(s) /\ s[n + 1] \in {0, 1}
    OBVIOUS
  <2>3. t[n + 1] = t[n] + s[n + 1]
    BY <1>1, <2>2 DEF Sums
  <2>4. CASE s[n + 1] = 1
    <3>1. I(n + 1) = I(n) \cup {n + 1}
      BY <2>2, <2>4
    <3>2. n + 1 \notin I(n)
      OBVIOUS
    <3>3. IsFiniteSet(I(n) \cup {n + 1}) /\ Cardinality(I(n) \cup {n + 1}) = Cardinality(I(n)) + 1
      <4> HIDE DEF I
      <4> QED  BY <2>1, <3>2, FS_AddElement
    <3>4. QED
      <4> HIDE DEF I
      <4> QED  BY <2>1, <2>3, <2>4, <3>1, <3>3
  <2>5. CASE s[n + 1] = 0
    <3>1. I(n + 1) = I(n)
      BY <2>2, <2>5
    <3>2. Cardinality(I(n)) \in Nat
      <4> HIDE DEF I
      <4> QED  BY <2>1, FS_CardinalityType
    <3>3. QED
      <4> HIDE DEF I
      <4> QED  BY <2>1, <2>3, <2>5, <3>1, <3>2
  <2>6. QED  BY <2>2, <2>4, <2>5
<1>4. Nat \subseteq T
  <2> HIDE DEF T
  <2> QED  BY <1>2, <1>3, NatInd
<1>5. IsFiniteSet(I(Len(s))) /\ t[Len(s)] = Cardinality(I(Len(s)))
  <2>1. Len(s) \in T
    BY <1>4
  <2>2. QED
    <3> HIDE DEF I
    <3> QED  BY <2>1
<1>6. Cardinality(I(Len(s))) \in Nat
  <2> HIDE DEF I
  <2> QED  BY <1>5, FS_CardinalityType
<1>7. QED  BY <1>1, <1>5, <1>6

(* How often k is a sample. *)
Marks(k, s) == [i \in 1 .. Len(s) |-> IF s[i] = k THEN 1 ELSE 0]

(* The marks of k in s are ones and zeros. *)
LEMMA MarksType ==
  ASSUME NEW S, NEW s \in Seq(S), NEW k
  PROVE  Marks(k, s) \in Seq(Int) /\ Len(Marks(k, s)) = Len(s)
         /\ \A i \in 1 .. Len(s) : Marks(k, s)[i] = IF s[i] = k THEN 1 ELSE 0
BY DEF Marks

(* To count is to add the marks up. *)
LEMMA OccurrencesTotal ==
  ASSUME NEW S, NEW s \in Seq(S), NEW k
  PROVE  Occurrences(k, s) = Total(Marks(k, s)) /\ Occurrences(k, s) \in Nat
<1>1. Marks(k, s) \in Seq(Int) /\ Len(Marks(k, s)) = Len(s)
      /\ \A i \in 1 .. Len(s) : Marks(k, s)[i] = IF s[i] = k THEN 1 ELSE 0
  BY MarksType
<1>2. \A i \in 1 .. Len(Marks(k, s)) : Marks(k, s)[i] \in {0, 1}
  BY <1>1
<1>3. /\ Total(Marks(k, s)) = Cardinality({i \in 1 .. Len(Marks(k, s)) : Marks(k, s)[i] = 1})
      /\ Total(Marks(k, s)) \in Nat
  BY <1>1, <1>2, TotalCounts
<1>4. {i \in 1 .. Len(Marks(k, s)) : Marks(k, s)[i] = 1} = {i \in DOMAIN s : s[i] = k}
  BY <1>1
<1>5. QED  BY <1>3, <1>4 DEF Occurrences

(* Occurrences in two lists, one after the other. *)
LEMMA OccurrencesConcat ==
  ASSUME NEW S, NEW r \in Seq(S), NEW s \in Seq(S), NEW k
  PROVE  Occurrences(k, r \o s) = Occurrences(k, r) + Occurrences(k, s)
<1>1. r \o s \in Seq(S)
  OBVIOUS
<1>2. Marks(k, r \o s) = Marks(k, r) \o Marks(k, s)
  BY DEF Marks
<1>3. Marks(k, r) \in Seq(Int) /\ Marks(k, s) \in Seq(Int)
  BY MarksType
<1>4. Total(Marks(k, r) \o Marks(k, s)) = Total(Marks(k, r)) + Total(Marks(k, s))
  BY <1>3, TotalConcat
<1>5. QED  BY <1>1, <1>2, <1>4, OccurrencesTotal

(* Occurrences in a list of one. *)
LEMMA OccurrencesOne ==
  ASSUME NEW j, NEW k
  PROVE  Occurrences(k, <<j>>) = IF k = j THEN 1 ELSE 0
<1>1. k = j => {i \in DOMAIN <<j>> : <<j>>[i] = k} = {1}
  OBVIOUS
<1>2. k # j => {i \in DOMAIN <<j>> : <<j>>[i] = k} = {}
  OBVIOUS
<1>3. Cardinality({1}) = 1 /\ Cardinality({}) = 0
  BY FS_EmptySet, FS_Singleton
<1>4. QED  BY <1>1, <1>2, <1>3 DEF Occurrences

(* What is not there is there no time. *)
LEMMA OccurrencesNone ==
  ASSUME NEW s, NEW k, \A i \in DOMAIN s : s[i] # k
  PROVE  Occurrences(k, s) = 0
<1>1. {i \in DOMAIN s : s[i] = k} = {}
  OBVIOUS
<1>2. QED  BY <1>1, FS_EmptySet DEF Occurrences

(* What is there is there some time. *)
LEMMA OccurrencesSome ==
  ASSUME NEW S, NEW s \in Seq(S), NEW i \in 1 .. Len(s)
  PROVE  Occurrences(s[i], s) > 0
<1> DEFINE I == {j \in DOMAIN s : s[j] = s[i]}
<1>1. I \subseteq 1 .. Len(s) /\ IsFiniteSet(1 .. Len(s))
  BY FS_Interval
<1>2. IsFiniteSet(I)
  BY <1>1, FS_Subset
<1>3. I # {}
  OBVIOUS
<1>4. Cardinality(I) \in Nat /\ Cardinality(I) # 0
  <2> HIDE DEF I
  <2> QED  BY <1>2, <1>3, FS_CardinalityType, FS_EmptySet
<1>5. QED  BY <1>4 DEF Occurrences

(* Whether n is the measurement of the scenario s on the host h, and how often *)
(* run k is a sample of those in ms.                                           *)
Named(n, s, h) == n.scenario = s /\ n.host = h
TallyOf(n, s, h, k) == IF Named(n, s, h) THEN Occurrences(k, n.samples) ELSE 0
Tally(ms, s, h, k) == [i \in 1 .. Len(ms) |-> TallyOf(ms[i], s, h, k)]
CountOf(ms, s, h, k) == Total(Tally(ms, s, h, k))

(* A tally is a natural number. *)
LEMMA TallyOfType ==
  ASSUME NEW n \in MeasurementType, NEW s, NEW h, NEW k
  PROVE  TallyOf(n, s, h, k) \in Nat
<1>1. n.samples \in Seq(Runs)
  BY DEF MeasurementType
<1>2. Occurrences(k, n.samples) \in Nat
  BY <1>1, OccurrencesTotal
<1>3. QED  BY <1>2 DEF TallyOf

(* So is each of a list of measurements. *)
LEMMA TallyType ==
  ASSUME NEW ms \in Seq(MeasurementType), NEW s, NEW h, NEW k
  PROVE  Tally(ms, s, h, k) \in Seq(Int) /\ Len(Tally(ms, s, h, k)) = Len(ms)
         /\ \A i \in 1 .. Len(ms) : Tally(ms, s, h, k)[i] = TallyOf(ms[i], s, h, k)
<1>1. \A i \in 1 .. Len(ms) : TallyOf(ms[i], s, h, k) \in Int
  BY TallyOfType
<1>2. QED  BY <1>1 DEF Tally

(* A count of samples is an integer. *)
LEMMA CountType ==
  ASSUME NEW ms \in Seq(MeasurementType), NEW s, NEW h, NEW k
  PROVE  CountOf(ms, s, h, k) \in Int
BY TallyType, TotalInt DEF CountOf

(* The count of two lists, one after the other. *)
LEMMA CountConcat ==
  ASSUME NEW a \in Seq(MeasurementType), NEW b \in Seq(MeasurementType), NEW s, NEW h, NEW k
  PROVE  CountOf(a \o b, s, h, k) = CountOf(a, s, h, k) + CountOf(b, s, h, k)
<1>1. Tally(a \o b, s, h, k) = Tally(a, s, h, k) \o Tally(b, s, h, k)
  BY DEF Tally
<1>2. Tally(a, s, h, k) \in Seq(Int) /\ Tally(b, s, h, k) \in Seq(Int)
  BY TallyType
<1>3. QED  BY <1>1, <1>2, TotalConcat DEF CountOf

(* Only names and samples are counted. *)
LEMMA CountSame ==
  ASSUME NEW a, NEW b, NEW s, NEW h, NEW k, Len(a) = Len(b),
         \A i \in 1 .. Len(a) : a[i].scenario = b[i].scenario /\ a[i].host = b[i].host /\ a[i].samples = b[i].samples
  PROVE  CountOf(a, s, h, k) = CountOf(b, s, h, k)
<1>1. \A i \in 1 .. Len(a) : TallyOf(a[i], s, h, k) = TallyOf(b[i], s, h, k)
  BY DEF TallyOf, Named
<1>2. Tally(a, s, h, k) = Tally(b, s, h, k)
  BY <1>1 DEF Tally
<1>3. QED  BY <1>2 DEF CountOf

(* No measurement, no sample. *)
LEMMA CountEmpty ==
  ASSUME NEW s, NEW h, NEW k
  PROVE  CountOf(<<>>, s, h, k) = 0
<1>1. 1 .. Len(<<>>) = {}
  OBVIOUS
<1>2. Tally(<<>>, s, h, k) = <<>>
  BY <1>1 DEF Tally
<1>3. QED  BY <1>2, TotalEmpty DEF CountOf

(* Grouping one more measurement counts its samples in, wherever they go. *)
LEMMA CountGrouped ==
  ASSUME NEW groups \in Seq(MeasurementType), NEW m \in MeasurementType, NEW s, NEW h, NEW k
  PROVE  CountOf(Grouped(groups, m), s, h, k) = CountOf(groups, s, h, k) + TallyOf(m, s, h, k)
<1> DEFINE c == Tally(groups, s, h, k)
           x == TallyOf(m, s, h, k)
<1>1. c \in Seq(Int) /\ Len(c) = Len(groups) /\ \A i \in 1 .. Len(groups) : c[i] = TallyOf(groups[i], s, h, k)
  BY TallyType
<1>2. x \in Nat
  BY TallyOfType
<1>3. CASE Grouped(groups, m) = Append(groups, m)
  <2>1. Tally(Append(groups, m), s, h, k) = Append(c, x)
    BY DEF Tally
  <2>2. Total(Append(c, x)) = Total(c) + x
    <3> HIDE DEF c, x
    <3> QED  BY <1>1, <1>2, TotalAppend
  <2>3. QED  BY <1>3, <2>1, <2>2 DEF CountOf
<1>4. ASSUME NEW g \in 1 .. Len(groups), SameName(groups[g], m),
             Grouped(groups, m) = [groups EXCEPT ![g] = MergeMeasurement(groups[g], m)]
      PROVE  CountOf(Grouped(groups, m), s, h, k) = CountOf(groups, s, h, k) + TallyOf(m, s, h, k)
  <2> DEFINE n == MergeMeasurement(groups[g], m)
             new == [groups EXCEPT ![g] = n]
  <2>1. groups[g] \in MeasurementType
    OBVIOUS
  <2>2. n.scenario = m.scenario /\ n.host = m.host /\ n.samples = groups[g].samples \o m.samples
    BY <1>4, <2>1 DEF MergeMeasurement, MeasurementType, SameName
  <2>3. groups[g].samples \in Seq(Runs) /\ m.samples \in Seq(Runs)
    BY <2>1 DEF MeasurementType
  <2>4. TallyOf(n, s, h, k) = TallyOf(groups[g], s, h, k) + x
    <3>1. Occurrences(k, groups[g].samples \o m.samples)
          = Occurrences(k, groups[g].samples) + Occurrences(k, m.samples)
      BY <2>3, OccurrencesConcat
    <3>2. Named(n, s, h) <=> Named(m, s, h)
      BY <2>2 DEF Named
    <3>3. Named(groups[g], s, h) <=> Named(m, s, h)
      BY <1>4 DEF Named, SameName
    <3>4. QED
      <4> HIDE DEF n
      <4> QED  BY <2>2, <3>1, <3>2, <3>3 DEF TallyOf
  <2>5. Len(new) = Len(groups) /\ new[g] = n /\ \A i \in 1 .. Len(groups) : i # g => new[i] = groups[i]
    <3> HIDE DEF n
    <3> QED  OBVIOUS
  <2>6. Tally(new, s, h, k) = [c EXCEPT ![g] = c[g] + x]
    <3>1. \A i \in 1 .. Len(groups) : TallyOf(new[i], s, h, k) = IF i = g THEN c[g] + x ELSE c[i]
      <4> HIDE DEF n, new, c, x
      <4> QED  BY <1>1, <2>4, <2>5
    <3>2. DOMAIN c = 1 .. Len(groups)
      BY <1>1 DEF Tally
    <3>3. QED
      <4> HIDE DEF n, new, c, x
      <4> QED  BY <2>5, <3>1, <3>2 DEF Tally
  <2>7. Total([c EXCEPT ![g] = c[g] + x]) = Total(c) + x
    <3> HIDE DEF c, x
    <3> QED  BY <1>1, <1>2, TotalExcept
  <2>8. QED  BY <1>4, <2>6, <2>7 DEF CountOf
<1>5. QED  BY <1>3, <1>4, GroupedCases

(* Grouping loses no sample and makes none up. *)
LEMMA CountFold ==
  ASSUME NEW ms \in Seq(MeasurementType), NEW s, NEW h, NEW k
  PROVE  CountOf(FoldLeft(Grouped, <<>>, ms), s, h, k) = CountOf(ms, s, h, k)
<1>1. PICK g \in [0 .. Len(ms) -> Seq(MeasurementType)] :
        /\ g[0] = <<>> /\ g[Len(ms)] = FoldLeft(Grouped, <<>>, ms)
        /\ \A n \in 0 .. Len(ms) - 1 : g[n + 1] = Grouped(g[n], ms[n + 1])
  BY GroupingUnrolled
<1> DEFINE c == Tally(ms, s, h, k)
           t == [n \in 0 .. Len(ms) |-> CountOf(g[n], s, h, k)]
<1>2. c \in Seq(Int) /\ Len(c) = Len(ms) /\ \A i \in 1 .. Len(ms) : c[i] = TallyOf(ms[i], s, h, k)
  BY TallyType
<1>3. Sums(t, c)
  <2>1. t[0] = 0
    BY <1>1, CountEmpty
  <2>2. ASSUME NEW n \in 0 .. Len(c) - 1 PROVE t[n + 1] = t[n] + c[n + 1]
    <3>1. n \in 0 .. Len(ms) - 1 /\ n \in 0 .. Len(ms) /\ n + 1 \in 0 .. Len(ms) /\ n + 1 \in 1 .. Len(ms)
      BY <1>2
    <3>2. g[n] \in Seq(MeasurementType) /\ ms[n + 1] \in MeasurementType
      BY <3>1
    <3>3. CountOf(Grouped(g[n], ms[n + 1]), s, h, k) = CountOf(g[n], s, h, k) + TallyOf(ms[n + 1], s, h, k)
      BY <3>2, CountGrouped
    <3>4. t[n] = CountOf(g[n], s, h, k) /\ t[n + 1] = CountOf(g[n + 1], s, h, k)
      BY <3>1
    <3>5. c[n + 1] = TallyOf(ms[n + 1], s, h, k)
      BY <1>2, <3>1
    <3>6. g[n + 1] = Grouped(g[n], ms[n + 1])
      BY <1>1, <3>1
    <3>7. QED
      <4> HIDE DEF t, c
      <4> QED  BY <3>3, <3>4, <3>5, <3>6
  <2>3. QED
    <3> HIDE DEF t, c
    <3> QED  BY <2>1, <2>2 DEF Sums
<1>4. t[Len(c)] = Total(c)
  <2> HIDE DEF t, c
  <2> QED  BY <1>2, <1>3, TotalIs
<1>5. t[Len(c)] = CountOf(FoldLeft(Grouped, <<>>, ms), s, h, k)
  <2>1. Len(c) = Len(ms) /\ Len(ms) \in 0 .. Len(ms)
    BY <1>2
  <2> HIDE DEF c
  <2>2. QED  BY <1>1, <2>1
<1>6. QED  BY <1>4, <1>5 DEF CountOf

(* What holds of every measurement and is kept when two of one name are merged *)
(* holds of every group.                                                       *)
LEMMA FoldKeeps ==
  ASSUME NEW ms \in Seq(MeasurementType), NEW P,
         \A i \in 1 .. Len(ms) : ms[i] \in P,
         \A n \in P, i \in 1 .. Len(ms) :
           n \in MeasurementType /\ SameName(n, ms[i]) => MergeMeasurement(n, ms[i]) \in P
  PROVE  LET result == FoldLeft(Grouped, <<>>, ms)
         IN  result \in Seq(MeasurementType) /\ \A i \in 1 .. Len(result) : result[i] \in P
<1>1. PICK g \in [0 .. Len(ms) -> Seq(MeasurementType)] :
        /\ g[0] = <<>> /\ g[Len(ms)] = FoldLeft(Grouped, <<>>, ms)
        /\ \A n \in 0 .. Len(ms) - 1 : g[n + 1] = Grouped(g[n], ms[n + 1])
  BY GroupingUnrolled
<1> DEFINE T == {n \in Nat : n <= Len(ms) => \A i \in 1 .. Len(g[n]) : g[n][i] \in P}
<1>2. 0 \in T
  BY <1>1
<1>3. ASSUME NEW n \in Nat, n \in T PROVE n + 1 \in T
  <2> SUFFICES ASSUME n + 1 <= Len(ms) PROVE \A i \in 1 .. Len(g[n + 1]) : g[n + 1][i] \in P
    OBVIOUS
  <2>1. n \in 0 .. Len(ms) - 1 /\ n \in 0 .. Len(ms) /\ n + 1 \in 1 .. Len(ms)
    OBVIOUS
  <2>2. \A i \in 1 .. Len(g[n]) : g[n][i] \in P
    BY <1>3
  <2>3. g[n] \in Seq(MeasurementType) /\ ms[n + 1] \in MeasurementType /\ ms[n + 1] \in P
    BY <2>1
  <2>4. g[n + 1] = Grouped(g[n], ms[n + 1])
    BY <1>1, <2>1
  <2>5. CASE Grouped(g[n], ms[n + 1]) = Append(g[n], ms[n + 1])
    BY <2>2, <2>3, <2>4, <2>5
  <2>6. ASSUME NEW j \in 1 .. Len(g[n]), SameName(g[n][j], ms[n + 1]),
               Grouped(g[n], ms[n + 1]) = [g[n] EXCEPT ![j] = MergeMeasurement(g[n][j], ms[n + 1])]
        PROVE  \A i \in 1 .. Len(g[n + 1]) : g[n + 1][i] \in P
    <3>1. g[n][j] \in MeasurementType /\ g[n][j] \in P
      BY <2>2, <2>3
    <3>2. MergeMeasurement(g[n][j], ms[n + 1]) \in P
      BY <2>1, <2>6, <3>1
    <3>3. QED  BY <2>2, <2>3, <2>4, <2>6, <3>2
  <2>7. QED  BY <2>3, <2>5, <2>6, GroupedCases
<1>4. Nat \subseteq T
  <2> HIDE DEF T
  <2> QED  BY <1>2, <1>3, NatInd
<1>5. Len(ms) \in Nat /\ Len(ms) \in 0 .. Len(ms)
  OBVIOUS
<1>6. QED  BY <1>1, <1>4, <1>5

(* No two groups have one name. *)
OneEach(ms) == \A i, j \in 1 .. Len(ms) : SameName(ms[i], ms[j]) => i = j

(* Grouping makes no second measurement of a name. *)
LEMMA GroupedOneEach ==
  ASSUME NEW groups \in Seq(MeasurementType), NEW m \in MeasurementType, OneEach(groups)
  PROVE  OneEach(Grouped(groups, m))
<1>1. CASE /\ \A i \in 1 .. Len(groups) : ~SameName(groups[i], m)
           /\ Grouped(groups, m) = Append(groups, m)
  <2> DEFINE new == Append(groups, m)
  <2>1. Len(new) = Len(groups) + 1 /\ new[Len(groups) + 1] = m /\ \A i \in 1 .. Len(groups) : new[i] = groups[i]
    OBVIOUS
  <2> HIDE DEF new
  <2>2. ASSUME NEW i \in 1 .. Len(new), NEW j \in 1 .. Len(new), SameName(new[i], new[j])
        PROVE  i = j
    <3>1. CASE i \in 1 .. Len(groups) /\ j \in 1 .. Len(groups)
      BY <2>1, <2>2, <3>1 DEF OneEach
    <3>2. CASE i = Len(groups) + 1 /\ j \in 1 .. Len(groups)
      BY <1>1, <2>1, <2>2, <3>2 DEF SameName
    <3>3. CASE j = Len(groups) + 1 /\ i \in 1 .. Len(groups)
      BY <1>1, <2>1, <2>2, <3>3
    <3>4. QED  BY <2>1, <3>1, <3>2, <3>3
  <2>3. OneEach(new)
    BY <2>2 DEF OneEach
  <2>4. QED  BY <1>1, <2>3 DEF new
<1>2. ASSUME NEW g \in 1 .. Len(groups), SameName(groups[g], m),
             Grouped(groups, m) = [groups EXCEPT ![g] = MergeMeasurement(groups[g], m)]
      PROVE  OneEach(Grouped(groups, m))
  <2> DEFINE n == MergeMeasurement(groups[g], m)
             new == [groups EXCEPT ![g] = n]
  <2>1. groups[g] \in MeasurementType
    OBVIOUS
  <2>2. n.scenario = groups[g].scenario /\ n.host = groups[g].host
    BY <2>1 DEF MergeMeasurement, MeasurementType
  <2>3. Len(new) = Len(groups) /\ new[g] = n /\ \A i \in 1 .. Len(groups) : i # g => new[i] = groups[i]
    <3> HIDE DEF n
    <3> QED  OBVIOUS
  <2>4. \A i \in 1 .. Len(groups) : new[i].scenario = groups[i].scenario /\ new[i].host = groups[i].host
    <3> HIDE DEF n, new
    <3> QED  BY <2>2, <2>3
  <2>5. OneEach(new)
    <3> HIDE DEF n, new
    <3> QED  BY <2>3, <2>4 DEF OneEach, SameName
  <2>6. QED  BY <1>2, <2>5
<1>3. QED  BY <1>1, <1>2, GroupedCases

(* So the grouped list has one measurement of each name. *)
LEMMA FoldOneEach ==
  ASSUME NEW ms \in Seq(MeasurementType)
  PROVE  OneEach(FoldLeft(Grouped, <<>>, ms))
<1>1. PICK g \in [0 .. Len(ms) -> Seq(MeasurementType)] :
        /\ g[0] = <<>> /\ g[Len(ms)] = FoldLeft(Grouped, <<>>, ms)
        /\ \A n \in 0 .. Len(ms) - 1 : g[n + 1] = Grouped(g[n], ms[n + 1])
  BY GroupingUnrolled
<1> DEFINE T == {n \in Nat : n <= Len(ms) => OneEach(g[n])}
<1>2. 0 \in T
  BY <1>1 DEF OneEach
<1>3. ASSUME NEW n \in Nat, n \in T PROVE n + 1 \in T
  <2> SUFFICES ASSUME n + 1 <= Len(ms) PROVE OneEach(g[n + 1])
    OBVIOUS
  <2>1. n \in 0 .. Len(ms) - 1 /\ n \in 0 .. Len(ms) /\ n + 1 \in 1 .. Len(ms)
    OBVIOUS
  <2>2. OneEach(g[n]) /\ g[n] \in Seq(MeasurementType) /\ ms[n + 1] \in MeasurementType
    BY <1>3, <2>1
  <2>3. OneEach(Grouped(g[n], ms[n + 1]))
    BY <2>2, GroupedOneEach
  <2>4. QED  BY <1>1, <2>1, <2>3
<1>4. Nat \subseteq T
  <2> HIDE DEF T
  <2> QED  BY <1>2, <1>3, NatInd
<1>5. Len(ms) \in Nat
  OBVIOUS
<1>6. QED  BY <1>1, <1>4, <1>5

-----------------------------------------------------------------------------
(***************************************************************************)
(* Lists: what deduping, selecting and flattening keep.                    *)
(***************************************************************************)
(* What comes first is kept, once. *)
LEMMA DedupedKeeps ==
  ASSUME NEW T, NEW s \in Seq(T)
  PROVE  /\ Deduped(s) \in Seq(T)
         /\ ToSet(Deduped(s)) = ToSet(s)
         /\ \A i, j \in 1 .. Len(Deduped(s)) : Deduped(s)[i] = Deduped(s)[j] => i = j
<1>1. PICK h \in [0 .. Len(s) -> Seq(T)] :
        /\ h[0] = <<>> /\ h[Len(s)] = Deduped(s)
        /\ \A n \in 0 .. Len(s) - 1 : h[n + 1] = AddIfNew(h[n], s[n + 1])
  BY DedupedUnrolled
<1> DEFINE Good(n) == /\ ToSet(h[n]) = {s[i] : i \in 1 .. n}
                      /\ \A i, j \in 1 .. Len(h[n]) : h[n][i] = h[n][j] => i = j
           U == {n \in Nat : n <= Len(s) => Good(n)}
<1>2. 0 \in U
  <2>1. 1 .. 0 = {} /\ Len(h[0]) = 0 /\ DOMAIN h[0] = {}
    BY <1>1
  <2>2. QED  BY <2>1 DEF ToSet
<1>3. ASSUME NEW n \in Nat, n \in U PROVE n + 1 \in U
  <2> SUFFICES ASSUME n + 1 <= Len(s) PROVE Good(n + 1)
    <3> HIDE DEF Good
    <3> QED  OBVIOUS
  <2>1. n \in 0 .. Len(s) - 1 /\ n \in 0 .. Len(s) /\ n + 1 \in 1 .. Len(s)
    OBVIOUS
  <2>2. Good(n)
    <3> HIDE DEF Good
    <3> QED  BY <1>3, <2>1
  <2> DEFINE r == h[n]
             x == s[n + 1]
             q == h[n + 1]
  <2>3. r \in Seq(T) /\ x \in T /\ q = AddIfNew(r, x)
    BY <1>1, <2>1
  <2>4. {s[i] : i \in 1 .. n + 1} = {s[i] : i \in 1 .. n} \cup {x}
    <3>1. 1 .. n + 1 = (1 .. n) \cup {n + 1}
      OBVIOUS
    <3>2. QED  BY <3>1
  <2>5. ToSet(r) = {s[i] : i \in 1 .. n} /\ \A i, j \in 1 .. Len(r) : r[i] = r[j] => i = j
    BY <2>2
  <2>6. CASE x \in ToSet(r)
    <3>1. q = r
      BY <2>3, <2>6 DEF AddIfNew
    <3>2. QED
      <4>1. ToSet(q) = {s[i] : i \in 1 .. n + 1}
        <5> HIDE DEF r, x, q
        <5> QED  BY <2>4, <2>5, <2>6, <3>1
      <4>2. \A i, j \in 1 .. Len(q) : q[i] = q[j] => i = j
        <5> HIDE DEF r, x, q
        <5> QED  BY <2>5, <3>1
      <4>3. QED  BY <4>1, <4>2
  <2>7. CASE x \notin ToSet(r)
    <3>1. q = Append(r, x)
      BY <2>3, <2>7 DEF AddIfNew
    <3>2. Len(q) = Len(r) + 1 /\ q[Len(r) + 1] = x /\ \A i \in 1 .. Len(r) : q[i] = r[i]
      <4> HIDE DEF r, x, q
      <4> QED  BY <2>3, <3>1
    <3>3. DOMAIN q = 1 .. Len(r) + 1 /\ DOMAIN r = 1 .. Len(r) /\ Len(r) \in Nat
      <4> HIDE DEF r, x, q
      <4> QED  BY <2>3, <3>1
    <3>4. ToSet(q) = ToSet(r) \cup {x}
      <4> HIDE DEF r, x, q
      <4>1. 1 .. Len(r) + 1 = (1 .. Len(r)) \cup {Len(r) + 1}
        BY <3>3
      <4>2. QED  BY <3>2, <3>3, <4>1 DEF ToSet
    <3>5. \A i \in 1 .. Len(r) : r[i] # x
      <4> HIDE DEF r, x, q
      <4> QED  BY <2>7, <3>3 DEF ToSet
    <3>6. \A i, j \in 1 .. Len(q) : q[i] = q[j] => i = j
      <4> HIDE DEF r, x, q
      <4>1. \A i \in 1 .. Len(q) : i \in 1 .. Len(r) \/ i = Len(r) + 1
        BY <3>2, <3>3
      <4>2. QED  BY <2>5, <3>2, <3>5, <4>1
    <3>7. ToSet(q) = {s[i] : i \in 1 .. n + 1}
      <4> HIDE DEF r, x, q
      <4> QED  BY <2>4, <2>5, <3>4
    <3>8. QED  BY <3>6, <3>7
  <2>8. QED  BY <2>6, <2>7
<1>4. Nat \subseteq U
  <2> HIDE DEF U
  <2> QED  BY <1>2, <1>3, NatInd
<1>5. Good(Len(s))
  <2>1. Len(s) \in Nat /\ Len(s) \in U
    <3> HIDE DEF U
    <3> QED  BY <1>4
  <2>2. QED
    <3> HIDE DEF Good
    <3> QED  BY <2>1
<1>6. Len(s) \in 0 .. Len(s) /\ {s[i] : i \in 1 .. Len(s)} = ToSet(s)
  BY DEF ToSet
<1>7. QED  BY <1>1, <1>5, <1>6

(* A selection has elements of the list only, and no more of them. *)
LEMMA SelectedType ==
  ASSUME NEW T, NEW s \in Seq(T), NEW P
  PROVE  Selected(s, P) \in Seq(T) /\ Len(Selected(s, P)) <= Len(s)
<1>1. PICK h \in [0 .. Len(s) -> Seq(T)] :
        /\ h[0] = <<>> /\ h[Len(s)] = Selected(s, P)
        /\ \A n \in 0 .. Len(s) - 1 : h[n + 1] = AddIfIn(P, h[n], s[n + 1])
  BY SelectedUnrolled
<1> DEFINE U == {n \in Nat : n <= Len(s) => Len(h[n]) <= n}
<1>2. 0 \in U
  BY <1>1
<1>3. ASSUME NEW n \in Nat, n \in U PROVE n + 1 \in U
  <2> SUFFICES ASSUME n + 1 <= Len(s) PROVE Len(h[n + 1]) <= n + 1
    OBVIOUS
  <2>1. n \in 0 .. Len(s) - 1 /\ n \in 0 .. Len(s) /\ n + 1 \in 1 .. Len(s) /\ Len(h[n]) <= n
    BY <1>3
  <2>2. h[n] \in Seq(T) /\ s[n + 1] \in T /\ h[n + 1] = AddIfIn(P, h[n], s[n + 1])
    BY <1>1, <2>1
  <2>3. QED  BY <2>1, <2>2 DEF AddIfIn
<1>4. Nat \subseteq U
  <2> HIDE DEF U
  <2> QED  BY <1>2, <1>3, NatInd
<1>5. Len(s) \in Nat /\ Len(s) \in 0 .. Len(s)
  OBVIOUS
<1>6. QED  BY <1>1, <1>4, <1>5

(* One sequence after the other. *)
LEMMA FlattenType ==
  ASSUME NEW T, NEW ss \in Seq(Seq(T))
  PROVE  FlattenSeq(ss) \in Seq(T)
<1> DEFINE N == Len(ss)
           flatten == CHOOSE g : g = [i \in 1 .. N |-> IF i = 1 THEN ss[i] ELSE g[i - 1] \o ss[i]]
<1>1. CASE N = 0
  <2>1. FlattenSeq(ss) = ss /\ ss = <<>>
    BY <1>1 DEF FlattenSeq
  <2>2. QED  BY <2>1
<1>2. CASE N # 0
  <2>1. FlattenSeq(ss) = flatten[N]
    BY <1>2 DEF FlattenSeq
  <2>2. N \in Nat /\ N \in 1 .. N /\ \A i \in 1 .. N : ss[i] \in Seq(T)
    BY <1>2
  <2> DEFINE R == Seq(T)
             base == <<>>
             F == [i \in 1 .. N |-> [r \in R |-> r \o ss[i]]]
  <2>3. F \in [1 .. N -> [R -> R]] /\ base \in R
    <3>1. ASSUME NEW i \in 1 .. N, NEW r \in R PROVE r \o ss[i] \in R
      BY <2>2
    <3>2. QED  BY <3>1
  <2>4. PICK it \in [SUBSET (1 .. N) -> R] : IsFold(it, N, base, F)
    <3> HIDE DEF N, R, base, F
    <3> QED  BY <2>2, <2>3, FoldExists
  <2>5. FoldsWithin(it, R, N, base, F)
    <3> HIDE DEF N, R, base, F
    <3>1. {} \in SUBSET (1 .. N)
      OBVIOUS
    <3>2. QED  BY <2>4, <3>1 DEF IsFold, FoldsWithin
  <2>6. PICK h : Unrolls(h, R, N, base, F, it[1 .. N])
    <3> HIDE DEF N, R, base, F
    <3> QED  BY <2>2, <2>3, <2>5, FoldValues
  <2> DEFINE g == [i \in 1 .. N |-> h[i]]
  <2>7. ASSUME NEW i \in 1 .. N PROVE g[i] = IF i = 1 THEN ss[i] ELSE g[i - 1] \o ss[i]
    <3>1. h[i] = F[i][h[i - 1]] /\ h[i - 1] \in R
      <4>1. i - 1 \in 0 .. N - 1 /\ i - 1 \in 0 .. N /\ (i - 1) + 1 = i
        BY <2>2
      <4>2. QED
        <5> HIDE DEF N, R, base, F
        <5> QED  BY <2>6, <4>1 DEF Unrolls
    <3>2. h[i] = h[i - 1] \o ss[i]
      BY <3>1
    <3>3. h[0] = <<>>
      BY <2>6 DEF Unrolls
    <3>4. CASE i = 1
      <4>1. h[1] = <<>> \o ss[1]
        <5>1. i - 1 = 0
          BY <3>4
        <5> HIDE DEF N, g, F, R, base
        <5>2. QED  BY <3>2, <3>3, <3>4, <5>1
      <4>2. ss[1] \in Seq(T)
        BY <2>2, <3>4
      <4>3. QED  BY <3>4, <4>1, <4>2
    <3>5. CASE i # 1
      <4>1. i - 1 \in 1 .. N
        BY <2>2, <3>5
      <4>2. QED  BY <3>2, <3>5, <4>1
    <3>6. QED  BY <3>4, <3>5
  <2>8. g = [i \in 1 .. N |-> IF i = 1 THEN ss[i] ELSE g[i - 1] \o ss[i]]
    BY <2>7
  <2>9. flatten = [i \in 1 .. N |-> IF i = 1 THEN ss[i] ELSE flatten[i - 1] \o ss[i]]
    <3> HIDE DEF g, N
    <3> QED  BY <2>8
  <2> DEFINE U == {n \in Nat : n + 1 <= N => flatten[n + 1] \in Seq(T)}
  <2>10. ASSUME NEW i \in 1 .. N PROVE flatten[i] = IF i = 1 THEN ss[i] ELSE flatten[i - 1] \o ss[i]
    <3> HIDE DEF flatten, N
    <3> QED  BY <2>9
  <2> HIDE DEF flatten, N
  <2>11. 0 \in U
    <3>1. 1 \in 1 .. N
      BY <2>2
    <3>2. QED  BY <2>2, <2>10, <3>1
  <2>12. ASSUME NEW n \in Nat, n \in U PROVE n + 1 \in U
    <3> SUFFICES ASSUME (n + 1) + 1 <= N PROVE flatten[(n + 1) + 1] \in Seq(T)
      OBVIOUS
    <3>1. flatten[n + 1] \in Seq(T)
      BY <2>2, <2>12
    <3>2. n + 2 \in 1 .. N /\ n + 2 # 1 /\ (n + 2) - 1 = n + 1 /\ (n + 1) + 1 = n + 2
      BY <2>2
    <3>3. flatten[n + 2] = flatten[n + 1] \o ss[n + 2]
      BY <2>10, <3>2
    <3>4. ss[n + 2] \in Seq(T)
      BY <2>2, <3>2
    <3>5. flatten[n + 2] \in Seq(T)
      BY <3>1, <3>3, <3>4
    <3>6. QED  BY <3>2, <3>5
  <2>13. Nat \subseteq U
    <3> HIDE DEF U
    <3> QED  BY <2>11, <2>12, NatInd
  <2>14. N - 1 \in Nat /\ (N - 1) + 1 = N
    BY <2>2
  <2>15. flatten[N] \in Seq(T)
    BY <2>13, <2>14
  <2>16. QED  BY <2>1, <2>15
<1>3. QED  BY <1>1, <1>2

(* A list without duplicates of things of another list is not longer. *)
LEMMA NoLonger ==
  ASSUME NEW S, NEW a \in Seq(S), NEW d \in Seq(S), ToSet(d) \subseteq ToSet(a),
         \A i, j \in 1 .. Len(d) : d[i] = d[j] => i = j
  PROVE  Len(d) <= Len(a)
<1> DEFINE at(i) == CHOOSE j \in 1 .. Len(a) : a[j] = d[i]
           f == [i \in 1 .. Len(d) |-> at(i)]
<1>1. ASSUME NEW i \in 1 .. Len(d) PROVE at(i) \in 1 .. Len(a) /\ a[at(i)] = d[i]
  <2>1. d[i] \in ToSet(d) /\ DOMAIN a = 1 .. Len(a)
    BY DEF ToSet
  <2>2. \E j \in 1 .. Len(a) : a[j] = d[i]
    BY <2>1 DEF ToSet
  <2>3. QED  BY <2>2
<1>2. f \in [1 .. Len(d) -> 1 .. Len(a)] /\ \A i, j \in 1 .. Len(d) : f[i] = f[j] => i = j
  <2> HIDE DEF at
  <2> QED  BY <1>1
<1>3. f \in Injection(1 .. Len(d), 1 .. Len(a))
  <2> HIDE DEF f
  <2> QED  BY <1>2 DEF Injection, IsInjective
<1>4. IsFiniteSet(1 .. Len(a)) /\ Cardinality(1 .. Len(a)) = Len(a) /\ Cardinality(1 .. Len(d)) = Len(d)
  <2>1. Len(a) \in Nat /\ Len(d) \in Nat
    OBVIOUS
  <2>2. ASSUME NEW n \in Nat PROVE IsFiniteSet(1 .. n) /\ Cardinality(1 .. n) = n
    <3>1. IsFiniteSet(1 .. n) /\ Cardinality(1 .. n) = IF 1 > n THEN 0 ELSE n - 1 + 1
      BY FS_Interval
    <3>2. QED  BY <3>1
  <2>3. QED  BY <2>1, <2>2
<1>5. Cardinality(1 .. Len(d)) <= Cardinality(1 .. Len(a))
  <2> HIDE DEF f
  <2> QED  BY <1>3, <1>4, FS_Injection
<1>6. QED  BY <1>4, <1>5

-----------------------------------------------------------------------------
(***************************************************************************)
(* Sound files: the samples of each name are those of the runs that went   *)
(* into it.                                                                *)
(***************************************************************************)
(* The runs that have measured, and what they have measured. *)
RunType ==
  [pairs : Seq(MeasurementType), keys : SUBSET UNION {x.keys : x \in Builds}, speed : Nat]
RunsType(rs) == rs \in Seq(RunType) /\ Len(rs) <= MaxRuns

PairsIn(rs, k, s, h) == Cardinality({i \in DOMAIN rs[k].pairs : Named(rs[k].pairs[i], s, h)})

HostKnown(n, hosts) ==
  /\ n.hostIndex \in 1 .. Len(hosts) /\ n.host \in ToSet(hosts)
  /\ hosts[n.hostIndex] = n.host \/ hosts[n.hostIndex] = [n.host EXCEPT !.version = None]

SamplesTaken(n, rs) ==
  /\ n.samples # <<>>
  /\ \A i \in 1 .. Len(n.samples) :
       /\ n.samples[i] \in 1 .. Len(rs)
       /\ TotalTime \in n.keys => TotalTime \in rs[n.samples[i]].keys

MeasuredIn(n, rs) == \E k \in 1 .. Len(rs) : \E i \in 1 .. Len(rs[k].pairs) : SameName(rs[k].pairs[i], n)

(* A file is counted right if each run is in it for each scenario and host as  *)
(* often as it went into it; and even, if the samples of each measurement stand *)
(* for all those of its name.                                                   *)
FromRuns(b, rs) == \A k \in Runs : k > Len(rs) => b.from[k] = 0
Counted(b, rs) ==
  \A k \in 1 .. Len(rs), s \in ToSet(AvailableScenarios), h \in ToSet(AvailableHosts) :
    CountOf(b.measurements, s, h, k) = b.from[k] * PairsIn(rs, k, s, h)
EvenAt(ms, i, q) ==
  \A k \in Runs : CountOf(ms, ms[i].scenario, ms[i].host, k) = q * Occurrences(k, ms[i].samples)
Even(ms) == \A i \in 1 .. Len(ms) : \E q \in Nat \ {0} : EvenAt(ms, i, q)

Sound(b, rs) ==
  /\ b \in BenchmarkType
  /\ \A i \in 1 .. Len(b.measurements) :
       LET n == b.measurements[i] IN HostKnown(n, b.hosts) /\ SamplesTaken(n, rs) /\ MeasuredIn(n, rs)
  /\ FromRuns(b, rs)
  /\ Counted(b, rs)
  /\ Even(b.measurements)

(* The positions up to n are n. *)
LEMMA IntervalIsFinite ==
  ASSUME NEW n \in Nat
  PROVE  IsFiniteSet(1 .. n) /\ Cardinality(1 .. n) = n
<1>1. IsFiniteSet(1 .. n) /\ Cardinality(1 .. n) = IF 1 > n THEN 0 ELSE n - 1 + 1
  BY FS_Interval
<1>2. QED  BY <1>1

(* A function on the positions up to n is a sequence of n. *)
LEMMA FunctionIsSeq ==
  ASSUME NEW n \in Nat, NEW S, NEW f \in [1 .. n -> S]
  PROVE  f \in Seq(S) /\ Len(f) = n
OBVIOUS

(* A benchmark by its parts. *)
LEMMA BenchmarkByParts ==
  ASSUME NEW repository \in {x.repository : x \in Builds},
         NEW scenarios \in Seq(ToSet(AvailableScenarios)), NEW hosts \in Seq(ToSet(AvailableHosts)),
         NEW measurements \in Seq(MeasurementType), NEW from \in [Runs -> Nat]
  PROVE  [repository |-> repository, scenarios |-> scenarios, hosts |-> hosts,
          measurements |-> measurements, from |-> from] \in BenchmarkType
<1>1. ASSUME NEW A, NEW B, NEW C, NEW D, NEW E, repository \in A, scenarios \in B, hosts \in C, measurements \in D, from \in E
      PROVE  [repository |-> repository, scenarios |-> scenarios, hosts |-> hosts,
              measurements |-> measurements, from |-> from]
             \in [repository : A, scenarios : B, hosts : C, measurements : D, from : E]
  BY <1>1
<1>2. QED  BY <1>1 DEF BenchmarkType

(* And the parts of one. *)
LEMMA PartsOfBenchmark ==
  ASSUME NEW b \in BenchmarkType
  PROVE  /\ b.repository \in {x.repository : x \in Builds}
         /\ b.scenarios \in Seq(ToSet(AvailableScenarios)) /\ b.hosts \in Seq(ToSet(AvailableHosts))
         /\ b.measurements \in Seq(MeasurementType) /\ b.from \in [Runs -> Nat]
         /\ b = [repository |-> b.repository, scenarios |-> b.scenarios, hosts |-> b.hosts,
                 measurements |-> b.measurements, from |-> b.from]
<1>1. ASSUME NEW A, NEW B, NEW C, NEW D, NEW E, b \in [repository : A, scenarios : B, hosts : C, measurements : D, from : E]
      PROVE  /\ b.repository \in A /\ b.scenarios \in B /\ b.hosts \in C /\ b.measurements \in D /\ b.from \in E
             /\ b = [repository |-> b.repository, scenarios |-> b.scenarios, hosts |-> b.hosts,
                     measurements |-> b.measurements, from |-> b.from]
  BY <1>1
<1>2. QED  BY <1>1 DEF BenchmarkType

(* The number of pairs is a natural number. *)
LEMMA PairsType ==
  ASSUME NEW rs, RunsType(rs), NEW k \in 1 .. Len(rs), NEW s, NEW h
  PROVE  PairsIn(rs, k, s, h) \in Nat
<1>1. rs[k].pairs \in Seq(MeasurementType)
  <2>1. rs[k] \in RunType
    BY DEF RunsType
  <2>2. QED  BY <2>1 DEF RunType
<1>2. IsFiniteSet(1 .. Len(rs[k].pairs)) /\ DOMAIN rs[k].pairs = 1 .. Len(rs[k].pairs)
  BY <1>1, IntervalIsFinite
<1>3. IsFiniteSet({i \in DOMAIN rs[k].pairs : Named(rs[k].pairs[i], s, h)})
  BY <1>2, FS_Subset
<1>4. QED  BY <1>3, FS_CardinalityType DEF PairsIn

(* A file without measurements. *)
LEMMA SoundEmpty ==
  ASSUME NEW b \in BenchmarkType, NEW rs, RunsType(rs), b.measurements = <<>>, b.from = NoRuns,
         MaxRuns \in Nat
  PROVE  Sound(b, rs)
<1>1. \A k \in Runs : b.from[k] = 0
  BY DEF NoRuns
<1>2. Counted(b, rs)
  <2> SUFFICES ASSUME NEW k \in 1 .. Len(rs), NEW s, NEW h
               PROVE  CountOf(b.measurements, s, h, k) = b.from[k] * PairsIn(rs, k, s, h)
    BY DEF Counted
  <2>1. PairsIn(rs, k, s, h) \in Nat
    BY PairsType
  <2>2. k \in Runs
    BY DEF RunsType, Runs
  <2>3. QED  BY <1>1, <2>1, <2>2, CountEmpty
<1>3. 1 .. Len(b.measurements) = {}
  OBVIOUS
<1>4. QED  BY <1>1, <1>2, <1>3 DEF Sound, FromRuns, Even

(* Reading a file back. *)
LEMMA SoundParsed ==
  ASSUME NEW b, NEW rs, Sound(b, rs)
  PROVE  Sound(Parsed(b), rs)
<1> DEFINE ms == b.measurements
           p == Parsed(b)
           ps == p.measurements
<1>1. b \in BenchmarkType /\ ms \in Seq(MeasurementType)
  BY DEF Sound, BenchmarkType
<1>2. /\ p.repository = b.repository /\ p.scenarios = b.scenarios /\ p.hosts = b.hosts /\ p.from = b.from
      /\ ps = [i \in 1 .. Len(ms) |-> [ms[i] EXCEPT !.keys = @ \cap SampleKeys]]
      /\ p = [repository |-> p.repository, scenarios |-> p.scenarios, hosts |-> p.hosts,
              measurements |-> ps, from |-> p.from]
  <2>1. b = [repository |-> b.repository, scenarios |-> b.scenarios, hosts |-> b.hosts,
             measurements |-> b.measurements, from |-> b.from]
    BY <1>1, PartsOfBenchmark
  <2>2. DOMAIN ms = 1 .. Len(ms)
    BY <1>1
  <2>3. ASSUME NEW q
        PROVE  [b EXCEPT !.measurements = q]
               = [repository |-> b.repository, scenarios |-> b.scenarios, hosts |-> b.hosts,
                  measurements |-> q, from |-> b.from]
    BY <2>1
  <2> DEFINE q == [i \in DOMAIN ms |-> [ms[i] EXCEPT !.keys = @ \cap SampleKeys]]
  <2>4. p = [b EXCEPT !.measurements = q]
    BY DEF Parsed
  <2>5. p = [repository |-> b.repository, scenarios |-> b.scenarios, hosts |-> b.hosts,
             measurements |-> q, from |-> b.from]
    <3> HIDE DEF p, q
    <3> QED  BY <2>3, <2>4
  <2>6. q = [i \in 1 .. Len(ms) |-> [ms[i] EXCEPT !.keys = @ \cap SampleKeys]]
    BY <2>2
  <2>7. QED
    <3>1. /\ p.repository = b.repository /\ p.scenarios = b.scenarios /\ p.hosts = b.hosts /\ p.from = b.from
          /\ ps = q
          /\ p = [repository |-> p.repository, scenarios |-> p.scenarios, hosts |-> p.hosts,
                  measurements |-> p.measurements, from |-> p.from]
      <4> HIDE DEF p, q
      <4> QED  BY <2>5
    <3>2. QED
      <4> HIDE DEF p, q
      <4> QED  BY <2>6, <3>1
<1> HIDE DEF ps, p
<1>3. /\ DOMAIN ps = 1 .. Len(ms) /\ Len(ps) = Len(ms)
      /\ \A i \in 1 .. Len(ms) :
           /\ ps[i].scenario = ms[i].scenario /\ ps[i].host = ms[i].host
           /\ ps[i].samples = ms[i].samples /\ ps[i].hostIndex = ms[i].hostIndex
           /\ ps[i].keys \subseteq ms[i].keys /\ ps[i] \in MeasurementType
  <2>1. Len(ms) \in Nat /\ DOMAIN ps = 1 .. Len(ms)
    BY <1>1, <1>2
  <2>2. ASSUME NEW i \in 1 .. Len(ms)
        PROVE  /\ ps[i].scenario = ms[i].scenario /\ ps[i].host = ms[i].host
               /\ ps[i].samples = ms[i].samples /\ ps[i].hostIndex = ms[i].hostIndex
               /\ ps[i].keys \subseteq ms[i].keys /\ ps[i] \in MeasurementType
    <3>1. ms[i] \in MeasurementType
      BY <1>1
    <3>2. ps[i] = [ms[i] EXCEPT !.keys = @ \cap SampleKeys]
      BY <1>1, <1>2
    <3>3. QED  BY <3>1, <3>2 DEF MeasurementType
  <2>3. Len(ps) = Len(ms)
    BY <1>2, <2>1
  <2>4. QED  BY <2>1, <2>2, <2>3
<1>4. ps \in Seq(MeasurementType)
  <2>1. Len(ms) \in Nat
    BY <1>1
  <2>2. ps \in [1 .. Len(ms) -> MeasurementType]
    BY <1>2, <1>3
  <2>3. QED  BY <2>1, <2>2, FunctionIsSeq
<1>5. p \in BenchmarkType
  <2> HIDE DEF ms
  <2>1. /\ p.repository \in {x.repository : x \in Builds}
        /\ p.scenarios \in Seq(ToSet(AvailableScenarios)) /\ p.hosts \in Seq(ToSet(AvailableHosts))
        /\ p.from \in [Runs -> Nat]
    BY <1>1, <1>2, PartsOfBenchmark
  <2>2. [repository |-> p.repository, scenarios |-> p.scenarios, hosts |-> p.hosts,
         measurements |-> ps, from |-> p.from] \in BenchmarkType
    BY <1>4, <2>1, BenchmarkByParts
  <2>3. QED  BY <1>2, <2>2
<1>6. \A s, h, k : CountOf(ps, s, h, k) = CountOf(ms, s, h, k)
  <2> HIDE DEF ms
  <2> QED  BY <1>3, CountSame
<1>7. ASSUME NEW i \in 1 .. Len(ps)
      PROVE  HostKnown(ps[i], p.hosts) /\ SamplesTaken(ps[i], rs) /\ MeasuredIn(ps[i], rs)
  <2>1. i \in 1 .. Len(ms)
    BY <1>3
  <2>2. HostKnown(ms[i], b.hosts) /\ SamplesTaken(ms[i], rs) /\ MeasuredIn(ms[i], rs)
    BY <2>1 DEF Sound
  <2>3. /\ ps[i].scenario = ms[i].scenario /\ ps[i].host = ms[i].host
        /\ ps[i].samples = ms[i].samples /\ ps[i].hostIndex = ms[i].hostIndex
        /\ ps[i].keys \subseteq ms[i].keys /\ p.hosts = b.hosts
    BY <1>2, <1>3, <2>1
  <2> HIDE DEF ms
  <2>4. HostKnown(ps[i], p.hosts)
    BY <2>2, <2>3 DEF HostKnown
  <2>5. SamplesTaken(ps[i], rs)
    BY <2>2, <2>3 DEF SamplesTaken
  <2>6. MeasuredIn(ps[i], rs)
    BY <2>2, <2>3 DEF MeasuredIn, SameName
  <2>7. QED  BY <2>4, <2>5, <2>6
<1>8. FromRuns(p, rs) /\ Counted(p, rs)
  BY <1>2, <1>6 DEF Sound, FromRuns, Counted, ps
<1>9. Even(ps)
  <2>1. Even(ms)
    BY DEF Sound
  <2> HIDE DEF ms
  <2>2. QED  BY <1>3, <1>6, <2>1 DEF Even, EvenAt
<1>10. QED
  <2>1. Sound(p, rs)
    BY <1>5, <1>7, <1>8, <1>9 DEF Sound, ps
  <2>2. QED  BY <2>1 DEF p

(* Filtering keeps the file as it is, or nothing of its measurements. *)
LEMMA SoundFiltered ==
  ASSUME NEW b, NEW rs, RunsType(rs), Sound(b, rs), NEW scenarios, NEW hosts, MaxRuns \in Nat
  PROVE  Sound(Filter(b, scenarios, hosts), rs)
<1>1. CASE scenarios = {} \/ hosts = {}
  BY <1>1 DEF Filter
<1>2. CASE ~(scenarios = {} \/ hosts = {})
  <2> DEFINE f == Filter(b, scenarios, hosts)
  <2>1. /\ b \in BenchmarkType
        /\ b.repository \in {x.repository : x \in Builds}
        /\ b.scenarios \in Seq(ToSet(AvailableScenarios)) /\ b.hosts \in Seq(ToSet(AvailableHosts))
        /\ b = [repository |-> b.repository, scenarios |-> b.scenarios, hosts |-> b.hosts,
                measurements |-> b.measurements, from |-> b.from]
    BY PartsOfBenchmark DEF Sound
  <2>2. /\ Selected(b.scenarios, scenarios) \in Seq(ToSet(AvailableScenarios))
        /\ Selected(b.hosts, MatchedBy(hosts, b.hosts)) \in Seq(ToSet(AvailableHosts))
    BY <2>1, SelectedType
  <2>3. NoRuns \in [Runs -> Nat]
    BY DEF NoRuns
  <2>4. f = [repository |-> b.repository, scenarios |-> Selected(b.scenarios, scenarios),
             hosts |-> Selected(b.hosts, MatchedBy(hosts, b.hosts)), measurements |-> <<>>, from |-> NoRuns]
    BY <1>2, <2>1 DEF Filter
  <2> HIDE DEF f
  <2>5. f \in BenchmarkType /\ f.measurements = <<>> /\ f.from = NoRuns
    <3>1. <<>> \in Seq(MeasurementType)
      OBVIOUS
    <3>2. f \in BenchmarkType
      BY <2>1, <2>2, <2>3, <2>4, <3>1, BenchmarkByParts
    <3>3. QED  BY <2>4, <3>2
  <2>6. Sound(f, rs)
    BY <2>5, SoundEmpty
  <2>7. QED  BY <2>6 DEF f
<1>3. QED  BY <1>1, <1>2

(* One more run does not change the others. *)
LEMMA SoundGrows ==
  ASSUME NEW b, NEW rs, RunsType(rs), Sound(b, rs), NEW x \in RunType, Len(rs) < MaxRuns, MaxRuns \in Nat
  PROVE  Sound(b, Append(rs, x))
<1> DEFINE new == Append(rs, x)
           ms == b.measurements
<1>0. b \in BenchmarkType /\ ms \in Seq(MeasurementType)
  BY DEF Sound, BenchmarkType
<1>1. /\ Len(new) = Len(rs) + 1 /\ Len(rs) \in Nat
      /\ \A k \in 1 .. Len(rs) : new[k] = rs[k] /\ k \in 1 .. Len(new)
  BY DEF RunsType
<1> HIDE DEF new, ms
<1>2. ASSUME NEW i \in 1 .. Len(ms)
      PROVE  HostKnown(ms[i], b.hosts) /\ SamplesTaken(ms[i], new) /\ MeasuredIn(ms[i], new)
  <2>1. HostKnown(ms[i], b.hosts) /\ SamplesTaken(ms[i], rs) /\ MeasuredIn(ms[i], rs)
    BY DEF Sound, ms
  <2>2. SamplesTaken(ms[i], new)
    BY <1>1, <2>1 DEF SamplesTaken
  <2>3. MeasuredIn(ms[i], new)
    BY <1>1, <2>1 DEF MeasuredIn
  <2>4. QED  BY <2>1, <2>2, <2>3
<1>3. FromRuns(b, new)
  BY <1>1 DEF Sound, FromRuns, Runs
<1>4. Counted(b, new)
  <2> SUFFICES ASSUME NEW k \in 1 .. Len(new), NEW s \in ToSet(AvailableScenarios), NEW h \in ToSet(AvailableHosts)
               PROVE  CountOf(ms, s, h, k) = b.from[k] * PairsIn(new, k, s, h)
    BY DEF Counted, ms
  <2>1. CASE k \in 1 .. Len(rs)
    <3>1. CountOf(ms, s, h, k) = b.from[k] * PairsIn(rs, k, s, h)
      BY <2>1 DEF Sound, Counted, ms
    <3>2. PairsIn(new, k, s, h) = PairsIn(rs, k, s, h)
      BY <1>1, <2>1 DEF PairsIn
    <3>3. QED  BY <3>1, <3>2
  <2>2. CASE k = Len(rs) + 1
    <3>1. k \in Runs /\ k > Len(rs)
      BY <1>1, <2>2 DEF Runs
    <3>2. b.from[k] = 0
      BY <3>1 DEF Sound, FromRuns
    <3>3. PairsIn(new, k, s, h) \in Nat
      <4>1. RunsType(new)
        BY <1>1 DEF RunsType, new
      <4>2. QED  BY <4>1, PairsType
    <3>4. \A i \in 1 .. Len(ms) : TallyOf(ms[i], s, h, k) = 0
      <4> SUFFICES ASSUME NEW i \in 1 .. Len(ms) PROVE TallyOf(ms[i], s, h, k) = 0
        OBVIOUS
      <4>1. SamplesTaken(ms[i], rs) /\ ms[i] \in MeasurementType
        BY <1>0 DEF Sound, ms
      <4>2. ms[i].samples \in Seq(Runs)
        BY <4>1 DEF MeasurementType
      <4>3. \A j \in DOMAIN ms[i].samples : ms[i].samples[j] # k
        BY <1>1, <3>1, <4>1, <4>2 DEF SamplesTaken
      <4>4. QED  BY <4>3, OccurrencesNone DEF TallyOf
    <3>5. /\ Tally(ms, s, h, k) \in Seq(Int) /\ Len(Tally(ms, s, h, k)) = Len(ms)
          /\ \A i \in 1 .. Len(ms) : Tally(ms, s, h, k)[i] = TallyOf(ms[i], s, h, k)
      BY <1>0, TallyType
    <3>6. CountOf(ms, s, h, k) = 0
      BY <3>4, <3>5, TotalZero DEF CountOf
    <3>7. QED  BY <3>2, <3>3, <3>6
  <2>3. QED  BY <1>1, <2>1, <2>2
<1>5. QED
  <2>1. Sound(b, new)
    BY <1>0, <1>2, <1>3, <1>4 DEF Sound, ms
  <2>2. QED  BY <2>1 DEF new

-----------------------------------------------------------------------------
(***************************************************************************)
(* Measuring makes a sound file.                                           *)
(***************************************************************************)
(* What measuring makes: the host at its position, and the run as the one sample. *)
Fresh(hosts, keys, k) ==
  {n \in MeasurementType : /\ n.hostIndex \in 1 .. Len(hosts) /\ hosts[n.hostIndex] = n.host
                           /\ n.keys = keys /\ n.samples = <<k>>}

(* What measuring makes: measurements of the listed hosts with the one sample of this run (measure.ts:80-150). *)
LEMMA MeasurementsFresh ==
  ASSUME NEW scenarios \in Seq(ToSet(AvailableScenarios)), NEW hosts \in Seq(ToSet(AvailableHosts)),
         Len(hosts) <= Len(AvailableHosts), Len(AvailableHosts) \in Nat,
         NEW x \in Builds, NEW k \in Runs
  PROVE  Measurements(scenarios, hosts, x.keys, k) \in Seq(Fresh(hosts, x.keys, k))
<1> DEFINE rec(i, j) == [scenario |-> scenarios[i], host |-> hosts[j], hostIndex |-> j,
                         keys |-> x.keys, samples |-> <<k>>]
           row(i) == [j \in DOMAIN hosts |-> rec(i, j)]
           rows == [i \in DOMAIN scenarios |-> row(i)]
           S == Fresh(hosts, x.keys, k)
<1>1. ASSUME NEW i \in 1 .. Len(scenarios), NEW j \in 1 .. Len(hosts) PROVE rec(i, j) \in S
  <2>1. scenarios[i] \in ToSet(AvailableScenarios) /\ hosts[j] \in ToSet(AvailableHosts)
        /\ j \in 1 .. Len(AvailableHosts) /\ <<k>> \in Seq(Runs)
    OBVIOUS
  <2>2. x.keys \in SUBSET UNION {y.keys : y \in Builds}
    OBVIOUS
  <2>3. rec(i, j) \in MeasurementType
    BY <2>1, <2>2 DEF MeasurementType
  <2>4. QED  BY <2>3 DEF Fresh
<1> HIDE DEF rec, S
<1>2. ASSUME NEW i \in 1 .. Len(scenarios) PROVE row(i) \in Seq(S)
  <2>1. DOMAIN hosts = 1 .. Len(hosts) /\ Len(hosts) \in Nat
    OBVIOUS
  <2>2. row(i) \in [1 .. Len(hosts) -> S]
    BY <1>1, <2>1
  <2> HIDE DEF row
  <2>3. QED  BY <2>1, <2>2, FunctionIsSeq
<1> HIDE DEF row
<1>3. rows \in Seq(Seq(S))
  <2>1. DOMAIN scenarios = 1 .. Len(scenarios) /\ Len(scenarios) \in Nat
    OBVIOUS
  <2>2. rows \in [1 .. Len(scenarios) -> Seq(S)]
    BY <1>2, <2>1
  <2> HIDE DEF rows
  <2>3. QED  BY <2>1, <2>2, FunctionIsSeq
<1> HIDE DEF rows
<1>4. FlattenSeq(rows) \in Seq(S)
  BY <1>3, FlattenType
<1>5. QED  BY <1>4 DEF Measurements, rows, row, rec, S

(* A measured benchmark is sound for the runs, its own included. *)
LEMMA SoundFresh ==
  ASSUME NEW rs, RunsType(rs), Len(rs) < MaxRuns, MaxRuns \in Nat, Len(AvailableHosts) \in Nat,
         NEW scenarios \in Seq(ToSet(AvailableScenarios)), NEW hosts \in Seq(ToSet(AvailableHosts)),
         Len(hosts) <= Len(AvailableHosts), NEW x \in Builds, x.speed \in Nat
  PROVE  LET b == Benchmark(scenarios, hosts, x.repository, x.keys, Len(rs) + 1)
             r == [pairs |-> b.measurements, keys |-> x.keys, speed |-> x.speed]
         IN  r \in RunType /\ Sound(b, Append(rs, r))
<1> DEFINE k == Len(rs) + 1
           b == Benchmark(scenarios, hosts, x.repository, x.keys, k)
           ms == b.measurements
           r == [pairs |-> ms, keys |-> x.keys, speed |-> x.speed]
           new == Append(rs, r)
<1>1. k \in Runs /\ k \in Nat /\ k >= 1 /\ Len(rs) \in Nat
  BY DEF RunsType, Runs
<1>2. ms \in Seq(Fresh(hosts, x.keys, k))
  <2> HIDE DEF k
  <2> QED  BY <1>1, MeasurementsFresh DEF Benchmark
<1>3. /\ b.hosts = hosts /\ b.from = [NoRuns EXCEPT ![k] = 1]
      /\ b = [repository |-> x.repository, scenarios |-> scenarios, hosts |-> hosts,
              measurements |-> ms, from |-> b.from]
  BY DEF Benchmark
<1> HIDE DEF b, k
<1>4. b.from \in [Runs -> Nat] /\ \A j \in Runs : b.from[j] = IF j = k THEN 1 ELSE 0
  BY <1>1, <1>3 DEF NoRuns
<1>5. ms \in Seq(MeasurementType)
      /\ \A i \in 1 .. Len(ms) : ms[i] \in MeasurementType /\ ms[i].hostIndex \in 1 .. Len(hosts)
                                 /\ hosts[ms[i].hostIndex] = ms[i].host /\ ms[i].keys = x.keys /\ ms[i].samples = <<k>>
  <2> HIDE DEF ms
  <2>1. \A i \in 1 .. Len(ms) : ms[i] \in Fresh(hosts, x.keys, k)
    BY <1>2
  <2>2. \A i \in 1 .. Len(ms) : ms[i] \in MeasurementType
    BY <2>1 DEF Fresh
  <2>3. ms \in Seq(MeasurementType)
    BY <1>2, <2>2
  <2>4. QED  BY <2>1, <2>2, <2>3 DEF Fresh
<1> HIDE DEF ms
<1>6. b \in BenchmarkType
  <2>1. x.repository \in {y.repository : y \in Builds}
    OBVIOUS
  <2>2. [repository |-> x.repository, scenarios |-> scenarios, hosts |-> hosts,
         measurements |-> ms, from |-> b.from] \in BenchmarkType
    BY <1>4, <1>5, <2>1, BenchmarkByParts
  <2>3. QED  BY <1>3, <2>2
<1>7. r \in RunType
  <2>1. x.keys \in SUBSET UNION {y.keys : y \in Builds}
    OBVIOUS
  <2>2. QED  BY <1>5, <2>1 DEF RunType
<1>8. /\ Len(new) = k /\ new[k] = r /\ RunsType(new)
  <2> HIDE DEF r
  <2> QED  BY <1>1, <1>7 DEF RunsType, k
<1> HIDE DEF new
<1>9. ASSUME NEW i \in 1 .. Len(ms)
      PROVE  HostKnown(ms[i], b.hosts) /\ SamplesTaken(ms[i], new) /\ MeasuredIn(ms[i], new)
  <2>1. HostKnown(ms[i], b.hosts)
    <3>1. hosts[ms[i].hostIndex] \in ToSet(hosts)
      BY <1>5 DEF ToSet
    <3>2. QED  BY <1>3, <1>5, <3>1 DEF HostKnown
  <2>2. SamplesTaken(ms[i], new)
    <3>1. ms[i].samples = <<k>> /\ ms[i].keys = x.keys
      BY <1>5
    <3>2. new[k].keys = x.keys /\ k \in 1 .. Len(new)
      BY <1>1, <1>8
    <3>3. <<k>> # <<>> /\ Len(<<k>>) = 1 /\ <<k>>[1] = k
      OBVIOUS
    <3>4. QED  BY <3>1, <3>2, <3>3 DEF SamplesTaken
  <2>3. MeasuredIn(ms[i], new)
    <3>1. k \in 1 .. Len(new) /\ new[k].pairs = ms
      BY <1>1, <1>8
    <3>2. QED  BY <3>1 DEF MeasuredIn, SameName
  <2>4. QED  BY <2>1, <2>2, <2>3
<1>10. FromRuns(b, new)
  BY <1>1, <1>4, <1>8 DEF FromRuns
<1>11. ASSUME NEW j \in Runs, NEW s, NEW h
       PROVE  /\ j # k => CountOf(ms, s, h, j) = 0
              /\ j = k => CountOf(ms, s, h, j) = PairsIn(new, k, s, h) /\ CountOf(ms, s, h, j) \in Nat
  <2> DEFINE c == Tally(ms, s, h, j)
  <2>1. c \in Seq(Int) /\ Len(c) = Len(ms) /\ \A i \in 1 .. Len(ms) : c[i] = TallyOf(ms[i], s, h, j)
    BY <1>5, TallyType
  <2> HIDE DEF c
  <2>2. ASSUME NEW i \in 1 .. Len(ms)
        PROVE  TallyOf(ms[i], s, h, j) = IF Named(ms[i], s, h) /\ j = k THEN 1 ELSE 0
    <3>1. ms[i].samples = <<k>>
      BY <1>5
    <3>2. Occurrences(j, <<k>>) = IF j = k THEN 1 ELSE 0
      BY OccurrencesOne
    <3>3. QED  BY <3>1, <3>2 DEF TallyOf
  <2>3. CASE j # k
    <3>1. \A i \in 1 .. Len(c) : c[i] = 0
      BY <2>1, <2>2, <2>3
    <3>2. QED  BY <2>1, <2>3, <3>1, TotalZero DEF CountOf, c
  <2>4. CASE j = k
    <3>1. \A i \in 1 .. Len(c) : c[i] \in {0, 1} /\ (c[i] = 1 <=> Named(ms[i], s, h))
      BY <2>1, <2>2, <2>4
    <3>2. Total(c) = Cardinality({i \in 1 .. Len(c) : c[i] = 1}) /\ Total(c) \in Nat
      BY <2>1, <3>1, TotalCounts
    <3>3. {i \in 1 .. Len(c) : c[i] = 1} = {i \in DOMAIN new[k].pairs : Named(new[k].pairs[i], s, h)}
      <4>1. new[k].pairs = ms /\ DOMAIN ms = 1 .. Len(c)
        BY <1>5, <1>8, <2>1
      <4>2. QED  BY <3>1, <4>1
    <3>4. QED  BY <2>4, <3>2, <3>3 DEF CountOf, PairsIn, c
  <2>5. QED  BY <2>3, <2>4
<1>12. Counted(b, new)
  <2> SUFFICES ASSUME NEW j \in 1 .. Len(new), NEW s, NEW h
               PROVE  CountOf(ms, s, h, j) = b.from[j] * PairsIn(new, j, s, h)
    BY DEF Counted, ms
  <2>1. j \in Runs /\ PairsIn(new, j, s, h) \in Nat
    <3>1. j \in Runs
      BY <1>1, <1>8 DEF Runs
    <3>2. QED  BY <1>8, <3>1, PairsType
  <2>2. CASE j = k
    BY <1>4, <1>11, <2>1, <2>2
  <2>3. CASE j # k
    BY <1>4, <1>11, <2>1, <2>3
  <2>4. QED  BY <2>2, <2>3
<1>13. ASSUME NEW i \in 1 .. Len(ms) PROVE \E q \in Nat \ {0} : EvenAt(ms, i, q)
  <2> DEFINE q == CountOf(ms, ms[i].scenario, ms[i].host, k)
  <2>1. q \in Nat /\ q # 0
    <3>1. q \in Nat /\ q = PairsIn(new, k, ms[i].scenario, ms[i].host)
      BY <1>1, <1>11
    <3> HIDE DEF q
    <3> DEFINE I == {n \in DOMAIN new[k].pairs : Named(new[k].pairs[n], ms[i].scenario, ms[i].host)}
    <3>2. new[k].pairs = ms /\ DOMAIN ms = 1 .. Len(ms) /\ Len(ms) \in Nat
      BY <1>5, <1>8
    <3>3. i \in I
      BY <3>2 DEF Named
    <3>4. I \in SUBSET (1 .. Len(ms))
      BY <3>2
    <3>5. IsFiniteSet(I)
      <4> HIDE DEF I
      <4> QED  BY <3>2, <3>4, IntervalIsFinite, FS_Subset
    <3>6. Cardinality(I) # 0
      <4> HIDE DEF I
      <4> QED  BY <3>3, <3>5, FS_EmptySet
    <3>7. QED  BY <3>1, <3>6 DEF PairsIn
  <2>2. EvenAt(ms, i, q)
    <3> SUFFICES ASSUME NEW j \in Runs
                 PROVE  CountOf(ms, ms[i].scenario, ms[i].host, j) = q * Occurrences(j, ms[i].samples)
      BY DEF EvenAt
    <3>1. Occurrences(j, ms[i].samples) = IF j = k THEN 1 ELSE 0
      <4>1. ms[i].samples = <<k>>
        BY <1>5
      <4>2. Occurrences(j, <<k>>) = IF j = k THEN 1 ELSE 0
        BY OccurrencesOne
      <4>3. QED  BY <4>1, <4>2
    <3>2. j # k => CountOf(ms, ms[i].scenario, ms[i].host, j) = 0
      BY <1>11
    <3>3. j = k => CountOf(ms, ms[i].scenario, ms[i].host, j) = q
      OBVIOUS
    <3> HIDE DEF q
    <3>4. QED  BY <2>1, <3>1, <3>2, <3>3
  <2>3. QED
    <3> HIDE DEF q
    <3> QED  BY <2>1, <2>2
<1>14. Sound(b, new)
  BY <1>6, <1>9, <1>10, <1>12, <1>13 DEF Sound, Even, ms
<1>15. QED  BY <1>7, <1>14 DEF b, ms, k, new

-----------------------------------------------------------------------------
(***************************************************************************)
(* The hosts of a merged file.                                             *)
(***************************************************************************)
HostsAreRecords == \A h \in ToSet(AvailableHosts) : h = [name |-> h.name, version |-> h.version]

(* A host finds itself in the list, or itself without its version. *)
LEMMA HostFound ==
  ASSUME NEW hosts \in Seq(ToSet(AvailableHosts)), NEW h \in ToSet(hosts), HostsAreRecords,
         NEW g, g = SelectInSeq(hosts, LAMBDA p : Matches(p, h))
  PROVE  g \in 1 .. Len(hosts) /\ (hosts[g] = h \/ hosts[g] = [h EXCEPT !.version = None])
<1> DEFINE I == {i \in 1 .. Len(hosts) : Matches(hosts[i], h)}
<1>1. g = IF I # {} THEN Min(I) ELSE 0
  BY DEF SelectInSeq
<1>2. PICK i \in 1 .. Len(hosts) : hosts[i] = h
  BY DEF ToSet
<1>3. i \in I
  BY <1>2 DEF Matches
<1>4. I \in SUBSET (1 .. Len(hosts)) /\ Len(hosts) \in Nat /\ I # {}
  BY <1>3
<1>5. g \in I
  <2> HIDE DEF I
  <2> QED  BY <1>1, <1>4, MinOfPositions
<1>6. g \in 1 .. Len(hosts) /\ Matches(hosts[g], h)
  BY <1>5
<1>7. hosts[g] \in ToSet(AvailableHosts) /\ h \in ToSet(AvailableHosts)
  BY <1>2, <1>6
<1>8. /\ h = [name |-> h.name, version |-> h.version]
      /\ hosts[g] = [name |-> hosts[g].name, version |-> hosts[g].version]
  BY <1>7 DEF HostsAreRecords
<1>9. [h EXCEPT !.version = None] = [name |-> h.name, version |-> None]
  BY <1>8
<1>10. hosts[g].name = h.name /\ (hosts[g].version = None \/ hosts[g].version = h.version)
  BY <1>6 DEF Matches
<1>11. CASE hosts[g].version = None
  BY <1>6, <1>8, <1>9, <1>10, <1>11
<1>12. CASE hosts[g].version = h.version
  BY <1>6, <1>8, <1>10, <1>12
<1>13. QED  BY <1>10, <1>11, <1>12

(* The merged list of hosts has those of both files, and fits among the available ones. *)
LEMMA MergedHostsType ==
  ASSUME NEW b \in BenchmarkType, NEW o \in BenchmarkType,
         AvailableHosts \in Seq(ToSet(AvailableHosts))
  PROVE  /\ MergedHosts(b, o) \in Seq(ToSet(AvailableHosts))
         /\ Len(MergedHosts(b, o)) <= Len(AvailableHosts)
         /\ ToSet(MergedHosts(b, o)) = ToSet(b.hosts) \cup ToSet(o.hosts)
<1> DEFINE hs == b.hosts \o o.hosts
           d == MergedHosts(b, o)
<1>1. b.hosts \in Seq(ToSet(AvailableHosts)) /\ o.hosts \in Seq(ToSet(AvailableHosts))
  BY PartsOfBenchmark
<1>2. hs \in Seq(ToSet(AvailableHosts))
  BY <1>1
<1>3. ToSet(hs) = ToSet(b.hosts) \cup ToSet(o.hosts)
  <2>1. \A a, c \in Seq(ToSet(AvailableHosts)) : ToSet(a \o c) = ToSet(a) \cup ToSet(c)
    <3> SUFFICES ASSUME NEW a \in Seq(ToSet(AvailableHosts)), NEW c \in Seq(ToSet(AvailableHosts))
                 PROVE  ToSet(a \o c) = ToSet(a) \cup ToSet(c)
      OBVIOUS
    <3> DEFINE u == a \o c
    <3>1. /\ Len(u) = Len(a) + Len(c) /\ Len(a) \in Nat /\ Len(c) \in Nat
          /\ DOMAIN u = 1 .. Len(a) + Len(c) /\ DOMAIN a = 1 .. Len(a) /\ DOMAIN c = 1 .. Len(c)
          /\ \A i \in 1 .. Len(a) : u[i] = a[i]
          /\ \A i \in 1 .. Len(c) : u[Len(a) + i] = c[i]
          /\ \A i \in 1 .. Len(a) + Len(c) : i > Len(a) => u[i] = c[i - Len(a)]
      OBVIOUS
    <3> HIDE DEF u
    <3>2. ToSet(u) \subseteq ToSet(a) \cup ToSet(c)
      <4> SUFFICES ASSUME NEW i \in 1 .. Len(a) + Len(c) PROVE u[i] \in ToSet(a) \cup ToSet(c)
        BY <3>1 DEF ToSet
      <4>1. CASE i \in 1 .. Len(a)
        BY <3>1, <4>1 DEF ToSet
      <4>2. CASE i > Len(a)
        <5>1. i - Len(a) \in 1 .. Len(c) /\ u[i] = c[i - Len(a)]
          BY <3>1, <4>2
        <5>2. QED  BY <3>1, <5>1 DEF ToSet
      <4>3. QED  BY <3>1, <4>1, <4>2
    <3>3. ToSet(a) \subseteq ToSet(u)
      <4>1. \A i \in 1 .. Len(a) : i \in 1 .. Len(a) + Len(c)
        BY <3>1
      <4>2. QED  BY <3>1, <4>1 DEF ToSet
    <3>4. ToSet(c) \subseteq ToSet(u)
      <4>1. ASSUME NEW i \in 1 .. Len(c) PROVE c[i] \in ToSet(u)
        <5>1. Len(a) + i \in DOMAIN u /\ u[Len(a) + i] = c[i]
          BY <3>1
        <5>2. QED  BY <5>1 DEF ToSet
      <4>2. QED  BY <3>1, <4>1 DEF ToSet
    <3>5. QED  BY <3>2, <3>3, <3>4 DEF u
  <2>2. QED  BY <1>1, <2>1
<1>4. /\ d \in Seq(ToSet(AvailableHosts)) /\ ToSet(d) = ToSet(hs)
      /\ \A i, j \in 1 .. Len(d) : d[i] = d[j] => i = j
  <2>1. d = Deduped(hs)
    BY DEF MergedHosts
  <2> HIDE DEF d, hs
  <2> QED  BY <1>2, <2>1, DedupedKeeps
<1>5. ToSet(d) \subseteq ToSet(AvailableHosts)
  BY <1>4 DEF ToSet
<1>6. Len(d) <= Len(AvailableHosts)
  <2> HIDE DEF d, hs
  <2> QED  BY <1>4, <1>5, NoLonger
<1>7. QED  BY <1>3, <1>4, <1>6

(* The measurements of both files, each at the place of its host in the new list. *)
LEMMA ReindexedKnown ==
  ASSUME NEW b, NEW o, NEW rs, Sound(b, rs), Sound(o, rs), HostsAreRecords,
         AvailableHosts \in Seq(ToSet(AvailableHosts))
  PROVE  LET ms == b.measurements \o o.measurements
             re == Reindexed(b, o)
         IN  /\ re \in Seq(MeasurementType) /\ Len(re) = Len(ms)
             /\ \A i \in 1 .. Len(re) :
                  /\ re[i].scenario = ms[i].scenario /\ re[i].host = ms[i].host /\ re[i].samples = ms[i].samples
                  /\ HostKnown(re[i], MergedHosts(b, o)) /\ SamplesTaken(re[i], rs) /\ MeasuredIn(re[i], rs)
<1> DEFINE bs == b.measurements
           os == o.measurements
           ms == bs \o os
           re == Reindexed(b, o)
           hosts == MergedHosts(b, o)
           found(i) == SelectInSeq(hosts, LAMBDA p : Matches(p, ms[i].host))
<1>1. b \in BenchmarkType /\ o \in BenchmarkType
  BY DEF Sound
<1>2. bs \in Seq(MeasurementType) /\ os \in Seq(MeasurementType)
  BY <1>1, PartsOfBenchmark
<1>3. /\ hosts \in Seq(ToSet(AvailableHosts)) /\ Len(hosts) <= Len(AvailableHosts)
      /\ ToSet(hosts) = ToSet(b.hosts) \cup ToSet(o.hosts)
  BY <1>1, MergedHostsType
<1>4. /\ ms \in Seq(MeasurementType) /\ DOMAIN ms = 1 .. Len(ms) /\ Len(ms) \in Nat
      /\ \A i \in 1 .. Len(ms) : ms[i] \in MeasurementType
                                 /\ (\/ \E j \in 1 .. Len(bs) : ms[i] = bs[j]
                                     \/ \E j \in 1 .. Len(os) : ms[i] = os[j])
  <2> HIDE DEF bs, os
  <2>1. /\ ms \in Seq(MeasurementType) /\ DOMAIN ms = 1 .. Len(ms) /\ Len(ms) \in Nat
        /\ \A i \in 1 .. Len(ms) : ms[i] \in MeasurementType
    BY <1>2
  <2>2. ASSUME NEW i \in 1 .. Len(ms)
        PROVE  \/ \E j \in 1 .. Len(bs) : ms[i] = bs[j]
               \/ \E j \in 1 .. Len(os) : ms[i] = os[j]
    <3>1. CASE i <= Len(bs)
      BY <1>2, <3>1
    <3>2. CASE i > Len(bs)
      <4>1. i - Len(bs) \in 1 .. Len(os) /\ ms[i] = os[i - Len(bs)]
        BY <1>2, <3>2
      <4>2. QED  BY <4>1
    <3>3. QED  BY <1>2, <3>1, <3>2
  <2>3. QED  BY <2>1, <2>2
<1>5. re = [i \in DOMAIN ms |-> [ms[i] EXCEPT !.hostIndex = found(i)]]
  BY DEF Reindexed
<1>6. ASSUME NEW i \in 1 .. Len(ms)
      PROVE  ms[i].host \in ToSet(hosts) /\ SamplesTaken(ms[i], rs) /\ MeasuredIn(ms[i], rs)
  <2>1. CASE \E j \in 1 .. Len(bs) : ms[i] = bs[j]
    <3>1. PICK j \in 1 .. Len(bs) : ms[i] = bs[j]
      BY <2>1
    <3>2. HostKnown(bs[j], b.hosts) /\ SamplesTaken(bs[j], rs) /\ MeasuredIn(bs[j], rs)
      BY DEF Sound
    <3> HIDE DEF ms, bs, hosts
    <3>3. QED  BY <1>3, <3>1, <3>2 DEF HostKnown
  <2>2. CASE \E j \in 1 .. Len(os) : ms[i] = os[j]
    <3>1. PICK j \in 1 .. Len(os) : ms[i] = os[j]
      BY <2>2
    <3>2. HostKnown(os[j], o.hosts) /\ SamplesTaken(os[j], rs) /\ MeasuredIn(os[j], rs)
      BY DEF Sound
    <3> HIDE DEF ms, os, hosts
    <3>3. QED  BY <1>3, <3>1, <3>2 DEF HostKnown
  <2> HIDE DEF ms, bs, os
  <2>3. QED  BY <1>4, <2>1, <2>2
<1> HIDE DEF bs, os, hosts, re
<1>7. ASSUME NEW i \in 1 .. Len(ms)
      PROVE  /\ found(i) \in 1 .. Len(hosts)
             /\ hosts[found(i)] = ms[i].host \/ hosts[found(i)] = [ms[i].host EXCEPT !.version = None]
  <2> DEFINE h == ms[i].host
             g == SelectInSeq(hosts, LAMBDA p : Matches(p, h))
  <2>1. h \in ToSet(hosts)
    BY <1>6
  <2>2. ASSUME NEW x, x = g PROVE x \in 1 .. Len(hosts) /\ (hosts[x] = h \/ hosts[x] = [h EXCEPT !.version = None])
    <3> HIDE DEF h
    <3> QED  BY <1>3, <2>1, <2>2, HostFound
  <2>3. found(i) = g
    OBVIOUS
  <2> HIDE DEF found, g
  <2>4. QED  BY <2>2, <2>3
<1> HIDE DEF found, ms
<1>8. ASSUME NEW i \in 1 .. Len(ms)
      PROVE  /\ re[i] \in MeasurementType
             /\ re[i].scenario = ms[i].scenario /\ re[i].host = ms[i].host /\ re[i].samples = ms[i].samples
             /\ re[i].keys = ms[i].keys /\ re[i].hostIndex = found(i)
  <2>1. ms[i] \in MeasurementType /\ re[i] = [ms[i] EXCEPT !.hostIndex = found(i)]
    BY <1>4, <1>5
  <2>2. found(i) \in 1 .. Len(AvailableHosts)
    <3>1. Len(hosts) \in Nat /\ Len(AvailableHosts) \in Nat /\ Len(hosts) <= Len(AvailableHosts)
      BY <1>3
    <3>2. found(i) \in 1 .. Len(hosts)
      BY <1>7
    <3>3. QED  BY <3>1, <3>2
  <2>3. QED  BY <2>1, <2>2 DEF MeasurementType
<1>9. re \in Seq(MeasurementType) /\ Len(re) = Len(ms)
  <2>1. re \in [1 .. Len(ms) -> MeasurementType]
    BY <1>4, <1>5, <1>8
  <2>2. QED  BY <1>4, <2>1, FunctionIsSeq
<1>10. ASSUME NEW i \in 1 .. Len(ms)
       PROVE  HostKnown(re[i], hosts) /\ SamplesTaken(re[i], rs) /\ MeasuredIn(re[i], rs)
  <2>1. HostKnown(re[i], hosts)
    BY <1>6, <1>7, <1>8 DEF HostKnown
  <2>2. SamplesTaken(re[i], rs)
    BY <1>6, <1>8 DEF SamplesTaken
  <2>3. MeasuredIn(re[i], rs)
    BY <1>6, <1>8 DEF MeasuredIn, SameName
  <2>4. QED  BY <2>1, <2>2, <2>3
<1>11. QED  BY <1>8, <1>9, <1>10 DEF re, ms, hosts, bs, os

-----------------------------------------------------------------------------
(***************************************************************************)
(* Merging makes a sound file.                                             *)
(***************************************************************************)
(* Merging two measurements keeps their samples from the runs that took their keys. *)
LEMMA SamplesMerged ==
  ASSUME NEW n \in MeasurementType, NEW m \in MeasurementType, NEW rs,
         SamplesTaken(n, rs), SamplesTaken(m, rs), n.keys = m.keys
  PROVE  SamplesTaken(MergeMeasurement(n, m), rs)
<1> DEFINE a == n.samples
           c == m.samples
           u == a \o c
           x == MergeMeasurement(n, m)
<1>1. a \in Seq(Runs) /\ c \in Seq(Runs) /\ a # <<>>
  BY DEF MeasurementType, SamplesTaken
<1>2. x.samples = u /\ x.keys = n.keys
  BY DEF MergeMeasurement, MeasurementType
<1>3. u # <<>> /\ Len(u) = Len(a) + Len(c)
      /\ \A i \in 1 .. Len(u) : IF i <= Len(a) THEN i \in 1 .. Len(a) /\ u[i] = a[i]
                                ELSE i - Len(a) \in 1 .. Len(c) /\ u[i] = c[i - Len(a)]
  <2> HIDE DEF a, c
  <2> QED  BY <1>1
<1>4. ASSUME NEW i \in 1 .. Len(u)
      PROVE  u[i] \in 1 .. Len(rs) /\ (TotalTime \in n.keys => TotalTime \in rs[u[i]].keys)
  <2>1. \A j \in 1 .. Len(a) : a[j] \in 1 .. Len(rs) /\ (TotalTime \in n.keys => TotalTime \in rs[a[j]].keys)
    BY DEF SamplesTaken
  <2>2. \A j \in 1 .. Len(c) : c[j] \in 1 .. Len(rs) /\ (TotalTime \in n.keys => TotalTime \in rs[c[j]].keys)
    BY DEF SamplesTaken
  <2> HIDE DEF a, c, u
  <2>3. CASE i <= Len(a)
    BY <1>3, <2>1, <2>3
  <2>4. CASE ~(i <= Len(a))
    BY <1>3, <2>2, <2>4
  <2>5. QED  BY <2>3, <2>4
<1>5. QED
  <2> HIDE DEF x, u
  <2>1. SamplesTaken(x, rs)
    BY <1>2, <1>3, <1>4 DEF SamplesTaken
  <2>2. QED  BY <2>1 DEF x

(* Where each name is there once, its samples are all there are. *)
LEMMA OneEachIsEven ==
  ASSUME NEW ms \in Seq(MeasurementType), OneEach(ms)
  PROVE  Even(ms)
<1> SUFFICES ASSUME NEW i \in 1 .. Len(ms) PROVE EvenAt(ms, i, 1)
  BY DEF Even
<1> SUFFICES ASSUME NEW k \in Runs
             PROVE  CountOf(ms, ms[i].scenario, ms[i].host, k) = 1 * Occurrences(k, ms[i].samples)
  BY DEF EvenAt
<1> DEFINE s == ms[i].scenario
           h == ms[i].host
           c == Tally(ms, s, h, k)
<1>1. c \in Seq(Int) /\ Len(c) = Len(ms) /\ \A j \in 1 .. Len(ms) : c[j] = TallyOf(ms[j], s, h, k)
  BY TallyType
<1>2. ASSUME NEW j \in 1 .. Len(ms), j # i PROVE TallyOf(ms[j], s, h, k) = 0
  BY <1>2 DEF TallyOf, Named, OneEach, SameName
<1>3. TallyOf(ms[i], s, h, k) = Occurrences(k, ms[i].samples)
  BY DEF TallyOf, Named
<1>4. Total(c) = c[i]
  <2> HIDE DEF c, s, h
  <2>1. i \in 1 .. Len(c) /\ \A j \in 1 .. Len(c) : j # i => c[j] = 0
    BY <1>1, <1>2
  <2>2. QED  BY <1>1, <2>1, TotalSingle
<1>5. CountOf(ms, s, h, k) = Occurrences(k, ms[i].samples)
  BY <1>1, <1>3, <1>4 DEF CountOf
<1>6. Occurrences(k, ms[i].samples) \in Nat
  <2>1. ms[i] \in MeasurementType
    OBVIOUS
  <2>2. ms[i].samples \in Seq(Runs)
    BY <2>1 DEF MeasurementType
  <2>3. QED  BY <2>2, OccurrencesTotal
<1>7. QED  BY <1>5, <1>6

(* Merging two sound files makes a sound file, with one measurement for each name (benchmark.ts:165-208). *)
LEMMA SoundMerged ==
  ASSUME NEW b, NEW o, NEW rs, RunsType(rs), Sound(b, rs), Sound(o, rs), Mergeable(b, o),
         HostsAreRecords, AvailableHosts \in Seq(ToSet(AvailableHosts)), MaxRuns \in Nat
  PROVE  Sound(Merge(b, o), rs)
<1> DEFINE bs == b.measurements
           os == o.measurements
           ms == bs \o os
           re == Reindexed(b, o)
           hosts == MergedHosts(b, o)
           result == FoldLeft(Grouped, <<>>, re)
           new == Merge(b, o)
<1>1. b \in BenchmarkType /\ o \in BenchmarkType
  BY DEF Sound
<1>2. bs \in Seq(MeasurementType) /\ os \in Seq(MeasurementType) /\ b.from \in [Runs -> Nat] /\ o.from \in [Runs -> Nat]
  BY <1>1, PartsOfBenchmark
<1>3. /\ re \in Seq(MeasurementType) /\ Len(re) = Len(ms)
      /\ \A i \in 1 .. Len(re) :
           /\ re[i].scenario = ms[i].scenario /\ re[i].host = ms[i].host /\ re[i].samples = ms[i].samples
           /\ HostKnown(re[i], hosts) /\ SamplesTaken(re[i], rs) /\ MeasuredIn(re[i], rs)
  BY ReindexedKnown
<1>4. \A i, j \in 1 .. Len(re) : SameName(re[i], re[j]) => re[i].keys = re[j].keys
  <2>1. DOMAIN re = 1 .. Len(re)
    BY <1>3
  <2>2. \A i, j \in DOMAIN re : SameName(re[i], re[j]) => re[i].keys = re[j].keys
    BY DEF Mergeable
  <2> HIDE DEF re
  <2>3. QED  BY <2>1, <2>2
<1>5. /\ new.hosts = hosts /\ new.measurements = result
      /\ new.from = [k \in Runs |-> b.from[k] + o.from[k]]
      /\ new = [repository |-> b.repository, scenarios |-> Deduped(b.scenarios \o o.scenarios), hosts |-> hosts,
                measurements |-> result, from |-> new.from]
  BY DEF Merge
<1> HIDE DEF re, new, hosts, bs, os, ms
<1> DEFINE P == {n \in MeasurementType :
                   /\ HostKnown(n, hosts) /\ SamplesTaken(n, rs) /\ MeasuredIn(n, rs)
                   /\ \A i \in 1 .. Len(re) : SameName(n, re[i]) => n.keys = re[i].keys}
<1>6. \A i \in 1 .. Len(re) : re[i] \in P
  BY <1>3, <1>4
<1>7. ASSUME NEW n \in P, NEW i \in 1 .. Len(re), SameName(n, re[i])
      PROVE  MergeMeasurement(n, re[i]) \in P
  <2> DEFINE m == re[i]
             x == MergeMeasurement(n, m)
  <2>1. n \in MeasurementType /\ m \in MeasurementType /\ n.keys = m.keys
        /\ HostKnown(n, hosts) /\ SamplesTaken(n, rs) /\ MeasuredIn(n, rs)
        /\ SamplesTaken(m, rs) /\ \A j \in 1 .. Len(re) : SameName(n, re[j]) => n.keys = re[j].keys
    BY <1>3, <1>7
  <2> HIDE DEF m
  <2>2. x \in MeasurementType /\ SamplesTaken(x, rs)
    BY <2>1, MergeMeasurementType, SamplesMerged
  <2>3. x.scenario = n.scenario /\ x.host = n.host /\ x.hostIndex = n.hostIndex /\ x.keys = n.keys
    BY <2>1 DEF MergeMeasurement, MeasurementType
  <2> HIDE DEF x
  <2>4. HostKnown(x, hosts) /\ MeasuredIn(x, rs)
    BY <2>1, <2>3 DEF HostKnown, MeasuredIn, SameName
  <2>5. \A j \in 1 .. Len(re) : SameName(x, re[j]) => x.keys = re[j].keys
    BY <2>1, <2>3 DEF SameName
  <2>6. x \in P
    BY <2>2, <2>4, <2>5
  <2>7. QED  BY <2>6 DEF x, m
<1>8. result \in Seq(MeasurementType) /\ \A i \in 1 .. Len(result) : result[i] \in P
  <2> HIDE DEF P
  <2> QED  BY <1>3, <1>6, <1>7, FoldKeeps
<1>9. ASSUME NEW s, NEW h, NEW k PROVE CountOf(result, s, h, k) = CountOf(bs, s, h, k) + CountOf(os, s, h, k)
  <2>1. CountOf(result, s, h, k) = CountOf(re, s, h, k)
    BY <1>3, CountFold
  <2>2. CountOf(re, s, h, k) = CountOf(ms, s, h, k)
    BY <1>3, CountSame
  <2>3. CountOf(ms, s, h, k) = CountOf(bs, s, h, k) + CountOf(os, s, h, k)
    BY <1>2, CountConcat DEF ms
  <2>4. QED  BY <2>1, <2>2, <2>3
<1>10. OneEach(result)
  BY <1>3, FoldOneEach
<1> HIDE DEF result
<1>11. new \in BenchmarkType
  <2>1. b.repository \in {x.repository : x \in Builds} /\ b.scenarios \in Seq(ToSet(AvailableScenarios))
        /\ o.scenarios \in Seq(ToSet(AvailableScenarios))
    BY <1>1, PartsOfBenchmark
  <2>2. Deduped(b.scenarios \o o.scenarios) \in Seq(ToSet(AvailableScenarios))
    <3>1. b.scenarios \o o.scenarios \in Seq(ToSet(AvailableScenarios))
      BY <2>1
    <3>2. QED  BY <3>1, DedupedKeeps
  <2>3. hosts \in Seq(ToSet(AvailableHosts))
    BY <1>1, MergedHostsType DEF hosts
  <2>4. new.from \in [Runs -> Nat]
    BY <1>2, <1>5
  <2>5. [repository |-> b.repository, scenarios |-> Deduped(b.scenarios \o o.scenarios), hosts |-> hosts,
         measurements |-> result, from |-> new.from] \in BenchmarkType
    BY <1>8, <2>1, <2>2, <2>3, <2>4, BenchmarkByParts
  <2>6. QED  BY <1>5, <2>5
<1>12. \A k \in Runs : new.from[k] = b.from[k] + o.from[k]
  BY <1>5
<1>13. FromRuns(new, rs)
  <2>1. \A k \in Runs : k > Len(rs) => b.from[k] = 0 /\ o.from[k] = 0
    BY DEF Sound, FromRuns
  <2>2. QED  BY <1>12, <2>1 DEF FromRuns
<1>14. Counted(new, rs)
  <2> SUFFICES ASSUME NEW k \in 1 .. Len(rs), NEW s \in ToSet(AvailableScenarios), NEW h \in ToSet(AvailableHosts)
               PROVE  CountOf(result, s, h, k) = new.from[k] * PairsIn(rs, k, s, h)
    BY <1>5 DEF Counted
  <2>1. CountOf(bs, s, h, k) = b.from[k] * PairsIn(rs, k, s, h) /\ CountOf(os, s, h, k) = o.from[k] * PairsIn(rs, k, s, h)
    BY DEF Sound, Counted, bs, os
  <2>2. k \in Runs /\ PairsIn(rs, k, s, h) \in Nat
    <3>1. k \in Runs
      BY DEF RunsType, Runs
    <3>2. QED  BY <3>1, PairsType
  <2>3. b.from[k] \in Nat /\ o.from[k] \in Nat /\ new.from[k] = b.from[k] + o.from[k]
    BY <1>2, <1>12, <2>2
  <2>4. \A x, y, z \in Nat : x * z + y * z = (x + y) * z
    OBVIOUS
  <2>5. QED  BY <1>9, <2>1, <2>2, <2>3, <2>4
<1>15. Even(result)
  BY <1>8, <1>10, OneEachIsEven
<1>16. ASSUME NEW i \in 1 .. Len(result)
       PROVE  HostKnown(result[i], hosts) /\ SamplesTaken(result[i], rs) /\ MeasuredIn(result[i], rs)
  BY <1>8
<1>17. Sound(new, rs)
  BY <1>5, <1>11, <1>13, <1>14, <1>15, <1>16 DEF Sound
<1>18. QED  BY <1>17 DEF new

-----------------------------------------------------------------------------
(***************************************************************************)
(* Means: the samples of a measurement, added up by run.                   *)
(***************************************************************************)
(* Ones add up to their number. *)
LEMMA TotalOnes ==
  ASSUME NEW s \in Seq(Int), \A i \in 1 .. Len(s) : s[i] = 1
  PROVE  Total(s) = Len(s)
<1> DEFINE t == [n \in 0 .. Len(s) |-> n]
<1>1. Sums(t, s)
  BY DEF Sums
<1>2. t[Len(s)] = Len(s)
  OBVIOUS
<1>3. QED
  <2> HIDE DEF t
  <2> QED  BY <1>1, <1>2, TotalIs

(* The sum over the samples is the sum over the runs, each as often as it is there. *)
LEMMA SumByRun ==
  ASSUME MaxRuns \in Nat, NEW s \in Seq(Runs), NEW sp \in [Runs -> Nat]
  PROVE  Total([k \in Runs |-> Occurrences(k, s) * sp[k]]) = Total([i \in DOMAIN s |-> sp[s[i]]])
<1> DEFINE p(n) == [i \in 1 .. n |-> s[i]]
           d(n) == [k \in Runs |-> Occurrences(k, p(n)) * sp[k]]
           c == [i \in DOMAIN s |-> sp[s[i]]]
           t == [n \in 0 .. Len(s) |-> Total(d(n))]
<1>1. DOMAIN s = 1 .. Len(s) /\ Len(s) \in Nat /\ \A i \in 1 .. Len(s) : s[i] \in Runs
  OBVIOUS
<1>2. c \in Seq(Int) /\ Len(c) = Len(s) /\ \A i \in 1 .. Len(s) : c[i] = sp[s[i]] /\ c[i] \in Nat
  <2>1. c \in [1 .. Len(s) -> Int]
    BY <1>1
  <2>2. c \in Seq(Int) /\ Len(c) = Len(s)
    <3> HIDE DEF c
    <3> QED  BY <1>1, <2>1, FunctionIsSeq
  <2>3. QED  BY <1>1, <2>2
<1>3. ASSUME NEW n \in 0 .. Len(s) PROVE p(n) \in Seq(Runs) /\ Len(p(n)) = n
  <2>1. p(n) \in [1 .. n -> Runs] /\ n \in Nat
    BY <1>1
  <2> HIDE DEF p
  <2>2. QED  BY <2>1, FunctionIsSeq
<1>4. ASSUME NEW n \in 0 .. Len(s), NEW k \in Runs PROVE Occurrences(k, p(n)) * sp[k] \in Nat
  <2>1. Occurrences(k, p(n)) \in Nat
    <3> HIDE DEF p
    <3> QED  BY <1>3, OccurrencesTotal
  <2>2. sp[k] \in Nat
    OBVIOUS
  <2> HIDE DEF p
  <2>3. QED  BY <2>1, <2>2
<1>5. ASSUME NEW n \in 0 .. Len(s)
      PROVE  d(n) \in Seq(Int) /\ Len(d(n)) = MaxRuns /\ DOMAIN d(n) = Runs
  <2>1. d(n) \in [1 .. MaxRuns -> Int]
    <3> HIDE DEF p
    <3> QED  BY <1>4 DEF Runs
  <2>2. DOMAIN d(n) = Runs
    OBVIOUS
  <2> HIDE DEF d
  <2>3. QED  BY <2>1, <2>2, FunctionIsSeq
<1>6. t[0] = 0
  <2>1. 0 \in 0 .. Len(s) /\ p(0) = <<>>
    <3>1. 1 .. 0 = {}
      OBVIOUS
    <3>2. QED  BY <1>1, <3>1
  <2>2. \A k \in Runs : Occurrences(k, p(0)) = 0
    <3>1. DOMAIN p(0) = {}
      BY <2>1
    <3> HIDE DEF p
    <3>2. QED  BY <3>1, OccurrencesNone
  <2>3. \A k \in Runs : d(0)[k] = 0
    <3> HIDE DEF p
    <3> QED  BY <2>2
  <2>4. \A i \in 1 .. Len(d(0)) : d(0)[i] = 0
    <3> HIDE DEF d
    <3> QED  BY <1>5, <2>1, <2>3 DEF Runs
  <2>5. Total(d(0)) = 0
    <3> HIDE DEF d
    <3> QED  BY <1>5, <2>1, <2>4, TotalZero
  <2>6. QED  BY <2>1, <2>5
<1>7. ASSUME NEW n \in 0 .. Len(s) - 1 PROVE t[n + 1] = t[n] + c[n + 1]
  <2> DEFINE x == s[n + 1]
  <2>1. n \in 0 .. Len(s) /\ n + 1 \in 0 .. Len(s) /\ n + 1 \in 1 .. Len(s) /\ x \in Runs /\ n \in Nat
    BY <1>1
  <2>2. p(n + 1) = p(n) \o <<x>>
    <3>1. p(n) \in Seq(Runs) /\ Len(p(n)) = n /\ p(n + 1) \in Seq(Runs) /\ Len(p(n + 1)) = n + 1
      <4> HIDE DEF p
      <4> QED  BY <1>3, <2>1
    <3>2. p(n) \o <<x>> \in Seq(Runs) /\ Len(p(n) \o <<x>>) = n + 1
      <4> HIDE DEF p
      <4> QED  BY <2>1, <3>1
    <3>3. ASSUME NEW i \in 1 .. n + 1 PROVE p(n + 1)[i] = (p(n) \o <<x>>)[i]
      <4>1. CASE i \in 1 .. n
        <5>1. (p(n) \o <<x>>)[i] = p(n)[i]
          <6> HIDE DEF p
          <6> QED  BY <2>1, <3>1, <4>1
        <5>2. QED  BY <4>1, <5>1
      <4>2. CASE i = n + 1
        <5>1. (p(n) \o <<x>>)[Len(p(n)) + 1] = x
          <6>1. \A a \in Seq(Runs), y \in Runs : (a \o <<y>>)[Len(a) + 1] = y
            OBVIOUS
          <6> HIDE DEF p, x
          <6>2. QED  BY <2>1, <3>1, <6>1
        <5>2. p(n + 1)[n + 1] = x
          BY <2>1
        <5>3. QED
          <6> HIDE DEF p, x
          <6> QED  BY <3>1, <4>2, <5>1, <5>2
      <4>3. QED  BY <2>1, <4>1, <4>2
    <3> HIDE DEF p, x
    <3>4. \A a, b \in Seq(Runs) : Len(a) = n + 1 /\ Len(b) = n + 1 /\ (\A i \in 1 .. n + 1 : a[i] = b[i]) => a = b
      BY <2>1
    <3>5. QED  BY <3>1, <3>2, <3>3, <3>4
  <2>3. ASSUME NEW k \in Runs
        PROVE  Occurrences(k, p(n + 1)) = Occurrences(k, p(n)) + IF k = x THEN 1 ELSE 0
    <3>1. p(n) \in Seq(Runs) /\ <<x>> \in Seq(Runs)
      <4> HIDE DEF p
      <4> QED  BY <1>3, <2>1
    <3>2. Occurrences(k, p(n) \o <<x>>) = Occurrences(k, p(n)) + Occurrences(k, <<x>>)
      <4> HIDE DEF p, x
      <4> QED  BY <3>1, OccurrencesConcat
    <3>3. Occurrences(k, <<x>>) = IF k = x THEN 1 ELSE 0
      BY OccurrencesOne
    <3>4. QED
      <4> HIDE DEF p, x
      <4> QED  BY <2>2, <3>2, <3>3
  <2>4. ASSUME NEW k \in Runs
        PROVE  d(n + 1)[k] = IF k = x THEN d(n)[x] + sp[x] ELSE d(n)[k]
    <3>1. Occurrences(k, p(n)) \in Nat /\ sp[k] \in Nat
      <4>1. p(n) \in Seq(Runs)
        <5> HIDE DEF p
        <5> QED  BY <1>3, <2>1
      <4> HIDE DEF p
      <4>2. QED  BY <4>1, OccurrencesTotal
    <3>2. d(n + 1)[k] = Occurrences(k, p(n + 1)) * sp[k] /\ d(n)[k] = Occurrences(k, p(n)) * sp[k]
      OBVIOUS
    <3>3. \A a, b \in Nat : (a + 1) * b = a * b + b /\ (a + 0) * b = a * b
      OBVIOUS
    <3>4. (Occurrences(k, p(n)) + 1) * sp[k] = Occurrences(k, p(n)) * sp[k] + sp[k]
          /\ (Occurrences(k, p(n)) + 0) * sp[k] = Occurrences(k, p(n)) * sp[k]
      <4> HIDE DEF p
      <4> QED  BY <3>1, <3>3
    <3>5. CASE k = x
      <4> HIDE DEF d, p, x
      <4> QED  BY <2>3, <3>2, <3>4, <3>5
    <3>6. CASE k # x
      <4> HIDE DEF d, p, x
      <4> QED  BY <2>3, <3>2, <3>4, <3>6
    <3>7. QED  BY <3>5, <3>6
  <2>5. d(n + 1) = [d(n) EXCEPT ![x] = d(n)[x] + sp[x]]
    <3>1. DOMAIN d(n) = Runs /\ d(n + 1) = [k \in Runs |-> d(n + 1)[k]]
      OBVIOUS
    <3> HIDE DEF d, x
    <3>2. QED  BY <2>4, <3>1
  <2>6. Total([d(n) EXCEPT ![x] = d(n)[x] + sp[x]]) = Total(d(n)) + sp[x]
    <3>1. x \in 1 .. Len(d(n)) /\ sp[x] \in Int /\ d(n) \in Seq(Int)
      <4> HIDE DEF d, x
      <4> QED  BY <1>5, <2>1 DEF Runs
    <3> HIDE DEF d, x
    <3>2. QED  BY <3>1, TotalExcept
  <2>7. t[n] = Total(d(n)) /\ t[n + 1] = Total(d(n + 1)) /\ c[n + 1] = sp[x]
    <3> HIDE DEF d, c
    <3> QED  BY <1>2, <2>1
  <2> HIDE DEF d, x, t, c
  <2>8. QED  BY <2>5, <2>6, <2>7
<1>8. t[Len(c)] = Total(c)
  <2>1. Sums(t, c)
    <3> HIDE DEF t, c
    <3> QED  BY <1>2, <1>6, <1>7 DEF Sums
  <2> HIDE DEF t, c
  <2>2. QED  BY <1>2, <2>1, TotalIs
<1>9. p(Len(s)) = s
  BY <1>1
<1>10. t[Len(c)] = Total([k \in Runs |-> Occurrences(k, s) * sp[k]])
  <2>1. Len(s) \in 0 .. Len(s)
    BY <1>1
  <2>2. t[Len(s)] = Total(d(Len(s)))
    <3> HIDE DEF d
    <3> QED  BY <2>1
  <2>3. d(Len(s)) = [k \in Runs |-> Occurrences(k, s) * sp[k]]
    <3> HIDE DEF p
    <3> QED  BY <1>9
  <2> HIDE DEF d, t, c
  <2>4. QED  BY <1>2, <2>2, <2>3
<1>11. QED  BY <1>8, <1>10

(* The number of the samples is the sum of the occurrences of each run. *)
LEMMA LenByRun ==
  ASSUME MaxRuns \in Nat, NEW s \in Seq(Runs)
  PROVE  Total([k \in Runs |-> Occurrences(k, s)]) = Len(s)
<1> DEFINE sp == [k \in Runs |-> 1]
           c == [i \in DOMAIN s |-> sp[s[i]]]
<1>1. Total([k \in Runs |-> Occurrences(k, s) * sp[k]]) = Total(c)
  <2>1. sp \in [Runs -> Nat]
    OBVIOUS
  <2> HIDE DEF sp
  <2>2. QED  BY <2>1, SumByRun
<1>2. [k \in Runs |-> Occurrences(k, s) * sp[k]] = [k \in Runs |-> Occurrences(k, s)]
  <2>1. ASSUME NEW k \in Runs PROVE Occurrences(k, s) * sp[k] = Occurrences(k, s)
    <3>1. Occurrences(k, s) \in Nat
      BY OccurrencesTotal
    <3>2. sp[k] = 1
      OBVIOUS
    <3> HIDE DEF sp
    <3>3. QED  BY <3>1, <3>2
  <2> HIDE DEF sp
  <2>2. QED  BY <2>1
<1>3. c \in Seq(Int) /\ Len(c) = Len(s) /\ \A i \in 1 .. Len(s) : c[i] = 1
  <2>1. c \in [1 .. Len(s) -> Int] /\ Len(s) \in Nat /\ \A i \in 1 .. Len(s) : c[i] = 1
    OBVIOUS
  <2> HIDE DEF c
  <2>2. QED  BY <2>1, FunctionIsSeq
<1>4. Total(c) = Len(s)
  <2> HIDE DEF c
  <2> QED  BY <1>3, TotalOnes
<1>5. QED  BY <1>1, <1>2, <1>4

(* Scaling both means by what they stand for changes no comparison. *)
LEMMA SlowerScaled ==
  ASSUME NEW q \in Nat \ {0}, NEW r \in Nat \ {0}, NEW a \in Int, NEW n \in Nat, NEW b \in Int, NEW m \in Nat,
         Slower(a, n, b, m)
  PROVE  Slower(q * a, q * n, r * b, r * m)
<1>1. 10 * a * m >= 11 * b * n
  BY DEF Slower
<1> DEFINE x == 10 * a * m
           y == 11 * b * n
           z == q * r
<1>2. x \in Int /\ y \in Int /\ z \in Nat
  OBVIOUS
<1>3. z * x >= z * y
  <2>1. \A u, v \in Int, w \in Nat : u >= v => w * u >= w * v
    OBVIOUS
  <2>2. x >= y
    BY <1>1
  <2> HIDE DEF x, y, z
  <2>3. QED  BY <1>2, <2>1, <2>2
<1>4. 10 * (q * a) * (r * m) = z * x
  OBVIOUS
<1>5. 11 * (r * b) * (q * n) = z * y
  OBVIOUS
<1>6. QED  BY <1>3, <1>4, <1>5 DEF Slower

-----------------------------------------------------------------------------
(***************************************************************************)
(* Every reachable file is sound.                                          *)
(***************************************************************************)
(* The strengthening: every file that can be read, and every benchmark in memory, *)
(* is sound for the runs that have measured.                                      *)
RunsKept == RunsType(runs)
FilesKept ==
  /\ disk = [f \in Files |-> disk[f]]
  /\ \A f \in Files : disk[f] \in {Absent, Torn} \/ Sound(disk[f], runs)
CommandKept ==
  /\ cmd \in Commands \cup {Idle}
  /\ pc \in {"ended", "read", "baselines", "save", "compare"}
  /\ pc # "ended" => cmd \in Commands /\ exit = "none"
  /\ pc = "baselines" => cmd.op = "benchmark"
DataKept ==
  /\ data = None \/ Sound(data, runs)
  /\ pc \in {"baselines", "save", "compare"} => Sound(data, runs)
BasesKept ==
  /\ \A f \in DOMAIN bases : f \in Files /\ Sound(bases[f], runs)
  /\ pc \in {"save", "compare"} /\ cmd.op = "benchmark" => DOMAIN bases = cmd.base
OutputsKept ==
  \A f \in DOMAIN written : f \in cmd.outs /\ written[f] \in {"todo", "open", "done"}
EndKept ==
  exit \in {"none", "0", "1", "-1", "killed"} /\ reported \in BOOLEAN /\ begun \in 0 .. MaxCommands

SoundInv ==
  RunsKept /\ FilesKept /\ CommandKept /\ DataKept /\ BasesKept /\ OutputsKept /\ EndKept

(* What a command line names. *)
LEMMA CommandParts ==
  ASSUME NEW c \in Commands
  PROVE  /\ c.op = "benchmark" => c.base \subseteq Files /\ c.load \in Files \cup {None}
         /\ c.op = "merge" => c.ins[1] \in Files /\ c.ins[2] \in Files /\ DOMAIN c.ins = {1, 2}
         /\ c.op = "patch" => c.benchmark \in Files /\ c.patch \in Files
<1>1. c \in BenchmarkCommand \/ c \in MergeCommand \/ c \in PatchCommand
  BY ConstantsAssumption
<1>2. CASE c \in BenchmarkCommand
  BY <1>2 DEF BenchmarkCommand
<1>3. CASE c \in MergeCommand
  <2>1. c.op = "merge" /\ c.ins \in Files \X Files
    BY <1>3 DEF MergeCommand
  <2>2. QED  BY <2>1
<1>4. CASE c \in PatchCommand
  BY <1>4 DEF PatchCommand
<1>5. QED  BY <1>1, <1>2, <1>3, <1>4

(* What the constants are assumed to be. *)
LEMMA Bounds ==
  /\ MaxRuns \in Nat /\ MaxCommands \in Nat /\ Len(AvailableHosts) \in Nat
  /\ AvailableHosts \in Seq(ToSet(AvailableHosts)) /\ HostsAreRecords
  /\ \A x \in Builds : x.speed \in Nat
<1>1. AvailableHosts \in Seq(ToSet(AvailableHosts))
  BY ConstantsAssumption
<1>2. Len(AvailableHosts) \in Nat
  BY <1>1
<1>3. QED  BY <1>1, <1>2, ConstantsAssumption DEF HostsAreRecords

(* What the options select is available. *)
LEMMA SelectionType ==
  ASSUME NEW o
  PROVE  /\ SelectedScenarios(o) \in Seq(ToSet(AvailableScenarios))
         /\ SelectedHosts(o) \in Seq(ToSet(AvailableHosts))
         /\ Len(SelectedHosts(o)) <= Len(AvailableHosts)
<1>1. /\ AvailableScenarios \in Seq(ToSet(AvailableScenarios))
      /\ AvailableHosts \in Seq(ToSet(AvailableHosts)) /\ Len(AvailableHosts) \in Nat
  BY Bounds, ConstantsAssumption
<1>2. SelectedScenarios(o) \in Seq(ToSet(AvailableScenarios))
  BY <1>1, SelectedType DEF SelectedScenarios
<1>3. SelectedHosts(o) \in Seq(ToSet(AvailableHosts)) /\ Len(SelectedHosts(o)) <= Len(AvailableHosts)
  BY <1>1, SelectedType DEF SelectedHosts
<1>4. QED  BY <1>2, <1>3

(* What is read from a file is sound. *)
LEMMA ReadIsSound ==
  ASSUME SoundInv, NEW f \in Files, Readable(f)
  PROVE  Sound(disk[f], runs) /\ Sound(Parsed(disk[f]), runs)
<1>1. Sound(disk[f], runs)
  BY DEF SoundInv, FilesKept, Readable
<1>2. QED  BY <1>1, SoundParsed

(* At first there is no file. *)
LEMMA SoundInit == Init => SoundInv
<1>1. SUFFICES ASSUME Init PROVE SoundInv
  OBVIOUS
<1>2. RunsKept
  <2>1. runs \in Seq(RunType) /\ Len(runs) = 0
    BY <1>1 DEF Init
  <2>2. QED  BY <2>1, Bounds DEF RunsKept, RunsType
<1>3. FilesKept
  BY <1>1 DEF Init, FilesKept
<1>4. CommandKept /\ DataKept
  BY <1>1 DEF Init, CommandKept, DataKept
<1>5. BasesKept
  BY <1>1 DEF Init, BasesKept
<1>6. OutputsKept
  <2>1. DOMAIN written = {}
    BY <1>1 DEF Init
  <2>2. QED  BY <2>1 DEF OutputsKept
<1>7. EndKept
  <2>1. begun \in 0 .. MaxCommands
    BY <1>1, Bounds DEF Init
  <2>2. QED  BY <1>1, <2>1 DEF Init, EndKept
<1>8. QED  BY <1>2, <1>3, <1>4, <1>5, <1>6, <1>7 DEF SoundInv

(* A command begins with nothing in memory. *)
LEMMA SoundBegin ==
  ASSUME SoundInv, NEW c \in Commands, Begin(c)
  PROVE  SoundInv'
<1>1. RunsKept' /\ FilesKept'
  BY DEF Begin, SoundInv, RunsKept, FilesKept
<1>2. CommandKept' /\ DataKept'
  BY DEF Begin, CommandKept, DataKept
<1>3. BasesKept'
  BY DEF Begin, BasesKept
<1>4. OutputsKept'
  BY DEF Begin, OutputsKept
<1>5. EndKept'
  <2>1. begun \in 0 .. MaxCommands /\ begun < MaxCommands /\ begun' = begun + 1
    BY DEF Begin, SoundInv, EndKept
  <2>2. begun' \in 0 .. MaxCommands
    BY <2>1, Bounds
  <2>3. QED  BY <2>2 DEF Begin, EndKept
<1>6. QED  BY <1>1, <1>2, <1>3, <1>4, <1>5 DEF SoundInv

(* The end of a process changes no file. *)
LEMMA SoundEnd ==
  ASSUME SoundInv, NEW code \in {"0", "1", "-1", "killed"}, NEW said \in BOOLEAN, End(code, said)
  PROVE  SoundInv'
<1>1. RunsKept' /\ FilesKept' /\ CommandKept' /\ DataKept'
  BY DEF End, SoundInv, RunsKept, FilesKept, CommandKept, DataKept
<1>2. BasesKept' /\ OutputsKept' /\ EndKept'
  BY DEF End, SoundInv, BasesKept, OutputsKept, EndKept
<1>3. QED  BY <1>1, <1>2 DEF SoundInv

(* Measuring adds a run, and nothing that was there has a sample of it. *)
LEMMA SoundMeasure ==
  ASSUME SoundInv, Measure
  PROVE  SoundInv'
<1>1. PICK x \in Builds :
        /\ data' = Benchmark(SelectedScenarios(cmd.options), SelectedHosts(cmd.options),
                             x.repository, x.keys, Len(runs) + 1)
        /\ runs' = Append(runs, [pairs |-> data'.measurements, keys |-> x.keys, speed |-> x.speed])
  BY DEF Measure
<1> DEFINE r == [pairs |-> data'.measurements, keys |-> x.keys, speed |-> x.speed]
<1>2. RunsType(runs) /\ Len(runs) < MaxRuns /\ x.speed \in Nat
  BY Bounds DEF SoundInv, RunsKept, Measure
<1>3. r \in RunType /\ Sound(data', runs') /\ runs' = Append(runs, r)
  BY <1>1, <1>2, Bounds, SelectionType, SoundFresh
<1> HIDE DEF r
<1>4. RunsKept'
  BY <1>2, <1>3, Bounds DEF RunsKept, RunsType
<1>5. \A b : Sound(b, runs) => Sound(b, runs')
  BY <1>2, <1>3, Bounds, SoundGrows
<1>6. FilesKept'
  BY <1>5 DEF Measure, SoundInv, FilesKept
<1>7. CommandKept' /\ DataKept'
  BY <1>3 DEF Measure, SoundInv, CommandKept, DataKept
<1>8. BasesKept'
  BY <1>5 DEF Measure, SoundInv, BasesKept
<1>9. OutputsKept' /\ EndKept'
  BY DEF Measure, SoundInv, OutputsKept, EndKept
<1>10. QED  BY <1>4, <1>6, <1>7, <1>8, <1>9 DEF SoundInv

(* Loading reads a file and filters it. *)
LEMMA SoundLoad ==
  ASSUME SoundInv, Load
  PROVE  SoundInv'
<1>1. cmd \in Commands /\ cmd.load \in Files /\ Readable(cmd.load)
  BY CommandParts DEF Load, SoundInv, CommandKept
<1>2. Sound(Parsed(disk[cmd.load]), runs)
  BY <1>1, ReadIsSound
<1>3. Sound(data', runs')
  BY <1>2, SoundFiltered, Bounds DEF Load, SoundInv, RunsKept
<1>4. RunsKept' /\ FilesKept'
  BY DEF Load, SoundInv, RunsKept, FilesKept
<1>5. CommandKept' /\ DataKept'
  BY <1>3 DEF Load, SoundInv, CommandKept, DataKept
<1>6. BasesKept'
  BY DEF Load, SoundInv, BasesKept
<1>7. OutputsKept' /\ EndKept'
  BY DEF Load, SoundInv, OutputsKept, EndKept
<1>8. QED  BY <1>4, <1>5, <1>6, <1>7 DEF SoundInv

(* Saving begins, for a benchmark command with the baselines it has read. *)
LEMMA SoundSaving ==
  ASSUME SoundInv, NEW b, Sound(b, runs), Saving(b), pc # "ended",
         UNCHANGED <<disk, cmd, exit, reported, runs, begun>>,
         \A f \in DOMAIN bases' : f \in Files /\ Sound(bases'[f], runs),
         cmd.op = "benchmark" => DOMAIN bases' = cmd.base
  PROVE  SoundInv'
<1>1. RunsKept' /\ FilesKept'
  BY DEF SoundInv, RunsKept, FilesKept
<1>2. CommandKept' /\ DataKept'
  BY DEF Saving, SoundInv, CommandKept, DataKept
<1>3. BasesKept'
  BY DEF BasesKept
<1>4. OutputsKept' /\ EndKept'
  BY DEF Saving, SoundInv, OutputsKept, EndKept
<1>5. QED  BY <1>1, <1>2, <1>3, <1>4 DEF SoundInv

(* The baselines are files too. *)
LEMMA SoundLoadBaselines ==
  ASSUME SoundInv, LoadBaselines
  PROVE  SoundInv'
<1>1. cmd \in Commands /\ cmd.op = "benchmark" /\ cmd.base \subseteq Files
  BY CommandParts DEF LoadBaselines, SoundInv, CommandKept
<1>2. bases' = [f \in cmd.base |-> Parsed(disk[f])]
  BY DEF LoadBaselines
<1>3. \A f \in cmd.base : Sound(Parsed(disk[f]), runs)
  BY <1>1, ReadIsSound DEF LoadBaselines
<1>4. Sound(data, runs)
  BY DEF LoadBaselines, SoundInv, DataKept
<1>5. DOMAIN bases' = cmd.base /\ \A f \in DOMAIN bases' : f \in Files /\ Sound(bases'[f], runs)
  BY <1>1, <1>2, <1>3
<1>6. Saving(data) /\ pc # "ended" /\ UNCHANGED <<disk, cmd, exit, reported, runs, begun>>
  BY DEF LoadBaselines
<1>7. QED  BY <1>4, <1>5, <1>6, SoundSaving

(* merge saves the merged files, or ends. *)
LEMMA SoundMergeFiles ==
  ASSUME SoundInv, MergeFiles
  PROVE  SoundInv'
<1> DEFINE b == Parsed(disk[cmd.ins[1]])
           o == Parsed(disk[cmd.ins[2]])
<1>1. cmd \in Commands /\ cmd.op = "merge" /\ pc = "read"
  BY DEF MergeFiles, SoundInv, CommandKept
<1>2. cmd.ins[1] \in Files /\ cmd.ins[2] \in Files /\ Readable(cmd.ins[1]) /\ Readable(cmd.ins[2])
  BY <1>1, CommandParts DEF MergeFiles
<1>3. Sound(b, runs) /\ Sound(o, runs)
  BY <1>2, ReadIsSound
<1>4. CASE Mergeable(b, o)
  <2>1. Saving(Merge(b, o)) /\ UNCHANGED <<disk, cmd, bases, exit, reported, runs, begun>>
    BY <1>4 DEF MergeFiles
  <2>2. Sound(Merge(b, o), runs)
    <3> HIDE DEF b, o
    <3> QED  BY <1>3, <1>4, Bounds, SoundMerged DEF SoundInv, RunsKept
  <2>3. \A f \in DOMAIN bases' : f \in Files /\ Sound(bases'[f], runs)
    BY <2>1 DEF SoundInv, BasesKept
  <2>4. QED
    <3> HIDE DEF b, o
    <3> QED  BY <1>1, <2>1, <2>2, <2>3, SoundSaving
<1>5. CASE ~Mergeable(b, o)
  <2>1. End("0", TRUE)
    BY <1>5 DEF MergeFiles
  <2>2. QED  BY <2>1, SoundEnd
<1>6. QED  BY <1>4, <1>5

(* What a patch makes of a file, field by field. *)
LEMMA EmptiedFile ==
  ASSUME NEW b, b = [repository |-> b.repository, scenarios |-> b.scenarios, hosts |-> b.hosts,
                     measurements |-> b.measurements, from |-> b.from]
  PROVE  [b EXCEPT !.hosts = <<>>, !.scenarios = <<>>, !.measurements = <<>>, !.from = NoRuns]
         = [repository |-> b.repository, scenarios |-> <<>>, hosts |-> <<>>,
            measurements |-> <<>>, from |-> NoRuns]
<1> DEFINE R(h, s, m, f) == [repository |-> b.repository, scenarios |-> s, hosts |-> h, measurements |-> m, from |-> f]
<1>1. \A h, s, m, f, n : [R(h, s, m, f) EXCEPT !.hosts = n] = R(n, s, m, f)
  OBVIOUS
<1>2. \A h, s, m, f, n : [R(h, s, m, f) EXCEPT !.scenarios = n] = R(h, n, m, f)
  OBVIOUS
<1>3. \A h, s, m, f, n : [R(h, s, m, f) EXCEPT !.measurements = n] = R(h, s, n, f)
  OBVIOUS
<1>4. \A h, s, m, f, n : [R(h, s, m, f) EXCEPT !.from = n] = R(h, s, m, n)
  OBVIOUS
<1>5. b = R(b.hosts, b.scenarios, b.measurements, b.from)
  OBVIOUS
<1>6. [b EXCEPT !.hosts = <<>>, !.scenarios = <<>>, !.measurements = <<>>, !.from = NoRuns]
      = [[[[b EXCEPT !.hosts = <<>>] EXCEPT !.scenarios = <<>>] EXCEPT !.measurements = <<>>] EXCEPT !.from = NoRuns]
  OBVIOUS
<1>7. [[[[b EXCEPT !.hosts = <<>>] EXCEPT !.scenarios = <<>>] EXCEPT !.measurements = <<>>] EXCEPT !.from = NoRuns]
      = R(<<>>, <<>>, <<>>, NoRuns)
  <2> HIDE DEF R
  <2>1. [b EXCEPT !.hosts = <<>>] = R(<<>>, b.scenarios, b.measurements, b.from)
    BY <1>1, <1>5
  <2>2. [R(<<>>, b.scenarios, b.measurements, b.from) EXCEPT !.scenarios = <<>>] = R(<<>>, <<>>, b.measurements, b.from)
    BY <1>2
  <2>3. [R(<<>>, <<>>, b.measurements, b.from) EXCEPT !.measurements = <<>>] = R(<<>>, <<>>, <<>>, b.from)
    BY <1>3
  <2>4. [R(<<>>, <<>>, <<>>, b.from) EXCEPT !.from = NoRuns] = R(<<>>, <<>>, <<>>, NoRuns)
    BY <1>4
  <2>5. QED  BY <2>1, <2>2, <2>3, <2>4
<1>8. QED  BY <1>6, <1>7

(* patch saves what is left of the benchmark, or ends. *)
LEMMA SoundPatch ==
  ASSUME SoundInv, Patch
  PROVE  SoundInv'
<1> DEFINE p == Filter(Parsed(disk[cmd.patch]), cmd.options.scenarios, cmd.options.hosts)
           b == Parsed(disk[cmd.benchmark])
           new == [b EXCEPT !.hosts = <<>>, !.scenarios = <<>>, !.measurements = <<>>, !.from = NoRuns]
<1>1. cmd \in Commands /\ cmd.op = "patch" /\ pc = "read" /\ cmd.benchmark \in Files /\ Readable(cmd.benchmark)
  BY CommandParts DEF Patch, SoundInv, CommandKept
<1>2. Sound(b, runs)
  BY <1>1, ReadIsSound
<1>3. CASE p.measurements # <<>>
  <2>1. End("1", FALSE)
    BY <1>3 DEF Patch
  <2>2. QED  BY <2>1, SoundEnd
<1>4. CASE p.measurements = <<>>
  <2>1. Saving(new) /\ UNCHANGED <<disk, cmd, bases, exit, reported, runs, begun>>
    BY <1>4 DEF Patch
  <2>2. /\ b.repository \in {x.repository : x \in Builds}
        /\ b = [repository |-> b.repository, scenarios |-> b.scenarios, hosts |-> b.hosts,
                measurements |-> b.measurements, from |-> b.from]
    <3> HIDE DEF b
    <3> QED  BY <1>2, PartsOfBenchmark DEF Sound
  <2>3. new = [repository |-> b.repository, scenarios |-> <<>>, hosts |-> <<>>,
               measurements |-> <<>>, from |-> NoRuns]
    <3> HIDE DEF b
    <3> QED  BY <2>2, EmptiedFile
  <2>4. NoRuns \in [Runs -> Nat]
    BY DEF NoRuns
  <2>5. /\ <<>> \in Seq(ToSet(AvailableScenarios)) /\ <<>> \in Seq(ToSet(AvailableHosts))
        /\ <<>> \in Seq(MeasurementType)
    OBVIOUS
  <2>6. new \in BenchmarkType /\ new.measurements = <<>> /\ new.from = NoRuns
    <3> HIDE DEF b, new
    <3>1. new \in BenchmarkType
      BY <2>2, <2>3, <2>4, <2>5, BenchmarkByParts
    <3>2. QED  BY <2>3, <3>1
  <2>7. Sound(new, runs)
    <3> HIDE DEF new
    <3> QED  BY <2>6, Bounds, SoundEmpty DEF SoundInv, RunsKept
  <2>8. \A f \in DOMAIN bases' : f \in Files /\ Sound(bases'[f], runs)
    BY <2>1 DEF SoundInv, BasesKept
  <2>9. QED
    <3> HIDE DEF new
    <3> QED  BY <1>1, <2>1, <2>7, <2>8, SoundSaving
<1>5. QED  BY <1>3, <1>4

(* A step on one output leaves nothing, a torn file, or the whole result. *)
LEMMA SoundWrote ==
  ASSUME SoundInv, pc = "save", NEW f \in Files, f \in cmd.outs, NEW how \in {"open", "done"},
         NEW content, Wrote(f, how, content), content \in {data, Torn}
  PROVE  SoundInv'
<1>1. /\ written' = [written EXCEPT ![f] = how] /\ disk' = [disk EXCEPT ![f] = content]
      /\ UNCHANGED <<cmd, pc, data, bases, exit, reported, runs, begun>>
  BY DEF Wrote
<1>2. Sound(data, runs)
  BY DEF SoundInv, DataKept
<1>3. RunsKept' /\ CommandKept' /\ DataKept' /\ EndKept'
  BY <1>1 DEF SoundInv, RunsKept, CommandKept, DataKept, EndKept
<1>4. BasesKept'
  BY <1>1 DEF SoundInv, BasesKept
<1>5. FilesKept'
  <2>1. DOMAIN disk = Files /\ DOMAIN disk' = Files
    BY <1>1 DEF SoundInv, FilesKept
  <2>2. \A g \in Files : disk'[g] = IF g = f THEN content ELSE disk[g]
    BY <1>1, <2>1
  <2>3. QED  BY <1>1, <1>2, <2>1, <2>2 DEF SoundInv, FilesKept
<1>6. OutputsKept'
  BY <1>1 DEF SoundInv, OutputsKept
<1>7. QED  BY <1>3, <1>4, <1>5, <1>6 DEF SoundInv

(* Every step keeps the files sound. *)
LEMMA SoundNext == SoundInv /\ [Next]_vars => SoundInv'
<1> SUFFICES ASSUME SoundInv, [Next]_vars PROVE SoundInv'
  OBVIOUS
<1>1. CASE UNCHANGED vars
  <2>1. RunsKept' /\ FilesKept' /\ CommandKept' /\ DataKept'
    BY <1>1 DEF vars, SoundInv, RunsKept, FilesKept, CommandKept, DataKept
  <2>2. BasesKept' /\ OutputsKept' /\ EndKept'
    BY <1>1 DEF vars, SoundInv, BasesKept, OutputsKept, EndKept
  <2>3. QED  BY <2>1, <2>2 DEF SoundInv
<1>2. ASSUME NEW c \in Commands, Begin(c) PROVE SoundInv'
  BY <1>2, SoundBegin
<1>3. CASE Measure
  BY <1>3, SoundMeasure
<1>4. CASE Load
  BY <1>4, SoundLoad
<1>5. CASE LoadBaselines
  BY <1>5, SoundLoadBaselines
<1>6. CASE Compare
  BY <1>6, SoundEnd DEF Compare
<1>7. CASE MergeFiles
  BY <1>7, SoundMergeFiles
<1>8. CASE Patch
  BY <1>8, SoundPatch
<1>9. ASSUME NEW f \in Files, Truncate(f) PROVE SoundInv'
  BY <1>9, SoundWrote DEF Truncate
<1>10. ASSUME NEW f \in Files, Write(f) PROVE SoundInv'
  BY <1>10, SoundWrote DEF Write
<1>11. ASSUME NEW f \in Files, Upload(f) PROVE SoundInv'
  <2>1. Uploaded(data) \in {data, Torn}
    BY DEF Uploaded
  <2>2. QED  BY <1>11, <2>1, SoundWrote DEF Upload
<1>12. CASE Saved
  <2>1. RunsKept' /\ FilesKept' /\ CommandKept' /\ DataKept'
    BY <1>12 DEF Saved, SoundInv, RunsKept, FilesKept, CommandKept, DataKept
  <2>2. BasesKept' /\ OutputsKept' /\ EndKept'
    BY <1>12 DEF Saved, SoundInv, BasesKept, OutputsKept, EndKept
  <2>3. QED  BY <2>1, <2>2 DEF SoundInv
<1>13. CASE Fails
  BY <1>13, SoundEnd DEF Fails
<1>14. CASE Killed
  BY <1>14, SoundEnd DEF Killed
<1>15. QED
  BY <1>1, <1>2, <1>3, <1>4, <1>5, <1>6, <1>7, <1>8, <1>9, <1>10, <1>11, <1>12, <1>13, <1>14 DEF Next

(* The files hold benchmarks or nothing that can be read, for any files, builds and *)
(* command lines, and what a command has in memory is a benchmark.                  *)
THEOREM FilesHoldBenchmarks == Spec => []TypeOK
<1>1. SoundInv => TypeOK
  <2> SUFFICES ASSUME SoundInv PROVE TypeOK
    OBVIOUS
  <2>1. \A b : Sound(b, runs) => b \in BenchmarkType
    BY DEF Sound
  <2>2. disk \in [Files -> BenchmarkType \cup {Absent, Torn}]
    <3>1. \A f \in Files : disk[f] \in BenchmarkType \cup {Absent, Torn}
      BY <2>1 DEF SoundInv, FilesKept
    <3>2. disk = [f \in Files |-> disk[f]]
      BY DEF SoundInv, FilesKept
    <3>3. QED  BY <3>1, <3>2
  <2>3. Len(runs) \in 0 .. MaxRuns
    BY Bounds DEF SoundInv, RunsKept, RunsType
  <2>4. data \in BenchmarkType \cup {None} /\ \A f \in DOMAIN bases : f \in Files /\ bases[f] \in BenchmarkType
    BY <2>1 DEF SoundInv, DataKept, BasesKept
  <2>5. QED  BY <2>2, <2>3, <2>4 DEF TypeOK, SoundInv, CommandKept, OutputsKept, EndKept
<1>2. QED  BY <1>1, SoundInit, SoundNext, PTL DEF Spec

(* Pairs of the history and of the file, counted by name. *)
LEMMA PairsByName ==
  ASSUME NEW k, NEW m
  PROVE  Pairs(k, m) = PairsIn(runs, k, m.scenario, m.host)
BY DEF Pairs, PairsIn, SameName, Named

(* What has been measured is a scenario and a host. *)
LEMMA MeasuredType ==
  ASSUME RunsType(runs), NEW m \in Measured
  PROVE  m.scenario \in ToSet(AvailableScenarios) /\ m.host \in ToSet(AvailableHosts)
<1>1. PICK k \in DOMAIN runs : m \in ToSet(runs[k].pairs)
  BY DEF Measured
<1>2. runs[k] \in RunType
  BY DEF RunsType
<1>3. runs[k].pairs \in Seq(MeasurementType)
  BY <1>2 DEF RunType
<1>4. m \in MeasurementType
  BY <1>1, <1>3 DEF ToSet
<1>5. QED  BY <1>4 DEF MeasurementType

(* A sound file accounts for every sample. *)
LEMMA SoundIsAccounted ==
  ASSUME RunsType(runs), NEW b, Sound(b, runs)
  PROVE  /\ \A m \in Measured, k \in DOMAIN runs :
              Total([i \in DOMAIN b.measurements |->
                       IF SameName(b.measurements[i], m)
                       THEN Occurrences(k, b.measurements[i].samples) ELSE 0])
                = b.from[k] * Pairs(k, m)
         /\ \A n \in ToSet(b.measurements) :
              HostIndexResolves(b, n) /\ \E m \in Measured : SameName(m, n)
<1> DEFINE ms == b.measurements
<1>1. ms \in Seq(MeasurementType) /\ DOMAIN ms = 1 .. Len(ms) /\ b.hosts \in Seq(ToSet(AvailableHosts))
  <2>1. ms \in Seq(MeasurementType) /\ b.hosts \in Seq(ToSet(AvailableHosts))
    BY PartsOfBenchmark DEF Sound
  <2>2. QED  BY <2>1
<1>2. ASSUME NEW m \in Measured, NEW k \in DOMAIN runs
      PROVE  Total([i \in DOMAIN ms |-> IF SameName(ms[i], m) THEN Occurrences(k, ms[i].samples) ELSE 0])
             = b.from[k] * Pairs(k, m)
  <2>1. k \in 1 .. Len(runs)
    BY DEF RunsType
  <2>2. CountOf(ms, m.scenario, m.host, k) = b.from[k] * PairsIn(runs, k, m.scenario, m.host)
    BY <2>1, MeasuredType DEF Sound, Counted
  <2>3. [i \in DOMAIN ms |-> IF SameName(ms[i], m) THEN Occurrences(k, ms[i].samples) ELSE 0]
        = Tally(ms, m.scenario, m.host, k)
    BY <1>1 DEF Tally, TallyOf, Named, SameName
  <2> HIDE DEF ms
  <2>4. QED  BY <2>2, <2>3, PairsByName DEF CountOf
<1>3. ASSUME NEW n \in ToSet(ms)
      PROVE  HostIndexResolves(b, n) /\ \E m \in Measured : SameName(m, n)
  <2>1. PICK i \in 1 .. Len(ms) : n = ms[i]
    BY <1>1 DEF ToSet
  <2>2. HostKnown(n, b.hosts) /\ MeasuredIn(n, runs)
    BY <2>1 DEF Sound
  <2>3. DOMAIN b.hosts = 1 .. Len(b.hosts)
    BY <1>1
  <2>4. HostIndexResolves(b, n)
    BY <2>2, <2>3 DEF HostIndexResolves, HostKnown
  <2>5. PICK k \in 1 .. Len(runs) : \E j \in 1 .. Len(runs[k].pairs) : SameName(runs[k].pairs[j], n)
    BY <2>2 DEF MeasuredIn
  <2>6. k \in DOMAIN runs /\ runs[k] \in RunType
    BY DEF RunsType
  <2>7. DOMAIN runs[k].pairs = 1 .. Len(runs[k].pairs)
    BY <2>6 DEF RunType
  <2>8. \E m \in Measured : SameName(m, n)
    <3>1. PICK j \in 1 .. Len(runs[k].pairs) : SameName(runs[k].pairs[j], n)
      BY <2>5
    <3>2. runs[k].pairs[j] \in ToSet(runs[k].pairs)
      BY <2>7 DEF ToSet
    <3>3. runs[k].pairs[j] \in Measured
      BY <2>6, <3>2 DEF Measured
    <3>4. QED  BY <3>1, <3>3
  <2>9. QED  BY <2>4, <2>8
<1>4. QED  BY <1>2, <1>3

(* benchmark.ts:165-240: however files are measured, filtered, merged and patched, each *)
(* holds for a scenario and a host exactly the samples that were taken there, as often  *)
(* as their run went into it; and each measurement still says which host is its own.    *)
THEOREM NoSampleLost == Spec => []SamplesAccounted
<1>1. SoundInv => SamplesAccounted
  <2> SUFFICES ASSUME SoundInv, NEW b \in Contents
               PROVE  /\ \A m \in Measured, k \in DOMAIN runs :
                           Total([i \in DOMAIN b.measurements |->
                                    IF SameName(b.measurements[i], m)
                                    THEN Occurrences(k, b.measurements[i].samples) ELSE 0])
                             = b.from[k] * Pairs(k, m)
                      /\ \A n \in ToSet(b.measurements) :
                           HostIndexResolves(b, n) /\ \E m \in Measured : SameName(m, n)
    BY DEF SamplesAccounted
  <2>1. PICK f \in Files : Readable(f) /\ b = disk[f]
    BY DEF Contents
  <2>2. Sound(b, runs) /\ RunsType(runs)
    BY <2>1, ReadIsSound DEF SoundInv, RunsKept
  <2>3. QED  BY <2>2, SoundIsAccounted
<1>2. QED  BY <1>1, SoundInit, SoundNext, PTL DEF Spec

-----------------------------------------------------------------------------
(***************************************************************************)
(* The range error is right.                                               *)
(***************************************************************************)
(* The samples of a measurement stand for all that was taken of its name, as  *)
(* often as one another: sum and number are those of the history, divided by *)
(* one and the same number.                                                   *)
LEMMA MeanIsTrue ==
  ASSUME RunsType(runs), MaxRuns \in Nat, NEW b, Sound(b, runs), NEW i \in DOMAIN b.measurements,
         TotalTime \in b.measurements[i].keys,
         NEW m \in Measured, SameName(b.measurements[i], m)
  PROVE  LET s == b.measurements[i].samples
         IN  /\ Len(s) \in Nat \ {0} /\ SumOf(s) \in Int
             /\ \E q \in Nat \ {0} : TrueCount(b, m) = q * Len(s) /\ TrueSum(b, m) = q * SumOf(s)
<1> DEFINE ms == b.measurements
           s == ms[i].samples
           sp == [k \in Runs |-> IF k \in DOMAIN runs THEN runs[k].speed ELSE 0]
           occ == [k \in Runs |-> Occurrences(k, s)]
<1>1. ms \in Seq(MeasurementType) /\ b.from \in [Runs -> Nat]
  BY PartsOfBenchmark DEF Sound
<1>2. i \in 1 .. Len(ms) /\ ms[i] \in MeasurementType
  BY <1>1
<1>3. s \in Seq(Runs)
  BY <1>2 DEF MeasurementType
<1>4. SamplesTaken(ms[i], runs)
  BY <1>2 DEF Sound
<1>5. Len(s) \in Nat \ {0}
  BY <1>3, <1>4 DEF SamplesTaken
<1>6. DOMAIN runs = 1 .. Len(runs) /\ Len(runs) \in Nat /\ DOMAIN runs \subseteq Runs
      /\ \A k \in DOMAIN runs : runs[k] \in RunType
  BY DEF RunsType, Runs
<1>7. sp \in [Runs -> Nat]
  BY <1>6 DEF RunType
<1>8. \A k \in Runs : Occurrences(k, s) \in Nat
  BY <1>3, OccurrencesTotal
<1>9. SumOf(s) = Total([j \in DOMAIN s |-> sp[s[j]]])
  <2>1. \A j \in DOMAIN s : s[j] \in Runs /\ s[j] \in DOMAIN runs
    BY <1>3, <1>4, <1>6 DEF SamplesTaken
  <2>2. [j \in DOMAIN s |-> runs[s[j]].speed] = [j \in DOMAIN s |-> sp[s[j]]]
    BY <2>1
  <2> HIDE DEF sp, s
  <2>3. QED  BY <2>2 DEF SumOf
<1>10. SumOf(s) \in Int
  <2>1. [j \in DOMAIN s |-> sp[s[j]]] \in Seq(Int)
    <3>1. \A j \in DOMAIN s : sp[s[j]] \in Int
      <4> HIDE DEF sp, s
      <4> QED  BY <1>3, <1>7
    <3>2. DOMAIN s = 1 .. Len(s)
      <4> HIDE DEF s
      <4> QED  BY <1>3
    <3> HIDE DEF sp, s
    <3>3. [j \in DOMAIN s |-> sp[s[j]]] \in [1 .. Len(s) -> Int]
      BY <3>1, <3>2
    <3>4. QED  BY <1>5, <3>3, FunctionIsSeq
  <2> HIDE DEF sp, s
  <2>2. QED  BY <1>9, <2>1, TotalInt
<1>11. PICK q \in Nat \ {0} : EvenAt(ms, i, q)
  BY <1>2 DEF Sound, Even
<1>12. ASSUME NEW k \in Runs PROVE Weight(b, m, k) = q * Occurrences(k, s)
  <2>1. CASE k \in DOMAIN runs /\ TotalTime \in runs[k].keys
    <3>1. Weight(b, m, k) = b.from[k] * PairsIn(runs, k, m.scenario, m.host)
      BY <2>1, PairsByName DEF Weight
    <3>2. CountOf(ms, m.scenario, m.host, k) = b.from[k] * PairsIn(runs, k, m.scenario, m.host)
      BY <1>6, <2>1, MeasuredType DEF Sound, Counted
    <3>3. CountOf(ms, m.scenario, m.host, k) = q * Occurrences(k, s)
      BY <1>11 DEF EvenAt, SameName
    <3>4. QED  BY <3>1, <3>2, <3>3
  <2>2. CASE ~(k \in DOMAIN runs /\ TotalTime \in runs[k].keys)
    <3>1. \A j \in DOMAIN s : s[j] # k
      BY <1>3, <1>4, <1>6, <2>2 DEF SamplesTaken
    <3>2. Occurrences(k, s) = 0
      BY <3>1, OccurrencesNone
    <3>3. Weight(b, m, k) = 0
      BY <2>2 DEF Weight
    <3>4. QED  BY <3>2, <3>3
  <2>3. QED  BY <2>1, <2>2
<1> HIDE DEF s, sp, ms
<1>13. TrueCount(b, m) = q * Len(s)
  <2> DEFINE w == [k \in Runs |-> Weight(b, m, k)]
  <2>1. occ \in Seq(Int) /\ Len(occ) = MaxRuns
    <3>1. occ \in [1 .. MaxRuns -> Int]
      BY <1>8 DEF Runs
    <3> HIDE DEF occ
    <3>2. QED  BY <3>1, FunctionIsSeq
  <2>2. w \in Seq(Int) /\ Len(w) = MaxRuns
    <3>1. \A k \in Runs : Weight(b, m, k) \in Int
      BY <1>8, <1>12
    <3>2. w \in [1 .. MaxRuns -> Int]
      BY <3>1 DEF Runs
    <3> HIDE DEF w
    <3>3. QED  BY <3>2, FunctionIsSeq
  <2>3. \A k \in 1 .. MaxRuns : w[k] = q * occ[k]
    BY <1>12 DEF Runs
  <2>4. Total(w) = q * Total(occ)
    <3> HIDE DEF w, occ
    <3> QED  BY <2>1, <2>2, <2>3, TotalTimes
  <2>5. Total(occ) = Len(s)
    BY <1>3, LenByRun
  <2>6. TrueCount(b, m) = Total(w)
    BY DEF TrueCount
  <2> HIDE DEF w, occ
  <2>7. QED  BY <2>4, <2>5, <2>6
<1>14. TrueSum(b, m) = q * SumOf(s)
  <2> DEFINE w == [k \in Runs |-> IF k \in DOMAIN runs THEN Weight(b, m, k) * runs[k].speed ELSE 0]
             v == [k \in Runs |-> Occurrences(k, s) * sp[k]]
  <2>1. ASSUME NEW k \in Runs PROVE v[k] \in Int /\ w[k] = q * v[k]
    <3>1. Occurrences(k, s) \in Nat /\ sp[k] \in Nat /\ q \in Nat /\ v[k] = Occurrences(k, s) * sp[k]
      BY <1>7, <1>8
    <3>2. \A x, y, z \in Nat : x * y \in Int /\ (z * x) * y = z * (x * y) /\ (z * x) * 0 = 0
      OBVIOUS
    <3>3. CASE k \in DOMAIN runs
      <4>1. sp[k] = runs[k].speed
        BY <3>3 DEF sp
      <4>2. w[k] = (q * Occurrences(k, s)) * sp[k]
        BY <1>12, <3>3, <4>1
      <4>3. Occurrences(k, s) * sp[k] \in Int
            /\ (q * Occurrences(k, s)) * sp[k] = q * (Occurrences(k, s) * sp[k])
        <5> HIDE DEF w, v
        <5> QED  BY <3>1, <3>2
      <4> HIDE DEF w, v
      <4>4. QED  BY <3>1, <4>2, <4>3
    <3>4. CASE k \notin DOMAIN runs
      <4>1. sp[k] = 0
        BY <3>4 DEF sp
      <4>2. w[k] = 0
        BY <3>4
      <4> HIDE DEF w, v
      <4>3. QED  BY <3>1, <4>1, <4>2
    <3>5. QED  BY <3>3, <3>4
  <2>2. v \in Seq(Int) /\ Len(v) = MaxRuns /\ w \in Seq(Int) /\ Len(w) = MaxRuns
    <3>1. v \in [1 .. MaxRuns -> Int]
      <4>1. v = [k \in Runs |-> v[k]]
        OBVIOUS
      <4> HIDE DEF v
      <4>2. QED  BY <2>1, <4>1 DEF Runs
    <3>2. w \in [1 .. MaxRuns -> Int]
      <4>1. w = [k \in Runs |-> w[k]]
        OBVIOUS
      <4>2. \A k \in Runs : w[k] \in Int
        <5> HIDE DEF w, v
        <5> QED  BY <2>1
      <4> HIDE DEF w
      <4>3. QED  BY <4>1, <4>2 DEF Runs
    <3> HIDE DEF v, w
    <3>3. QED  BY <3>1, <3>2, FunctionIsSeq
  <2>3. Total(w) = q * Total(v)
    <3> HIDE DEF v, w
    <3> QED  BY <2>1, <2>2, TotalTimes DEF Runs
  <2>4. Total(v) = SumOf(s)
    BY <1>3, <1>7, <1>9, SumByRun
  <2>5. TrueSum(b, m) = Total(w)
    BY DEF TrueSum
  <2> HIDE DEF v, w
  <2>6. QED  BY <2>3, <2>4, <2>5
<1>15. QED  BY <1>5, <1>10, <1>13, <1>14 DEF s, ms

(* An alarm that the comparison raises is one by the history too. *)
LEMMA AlarmIsTrue ==
  ASSUME SoundInv, pc = "compare", cmd.op = "benchmark", Alarms
  PROVE  TrulySlower
<1>1. PICK f \in cmd.base :
        OutOfRange(data, Filter(bases[f], cmd.options.scenarios, cmd.options.hosts))
  BY DEF Alarms
<1> DEFINE base == bases[f]
           seen == Filter(base, cmd.options.scenarios, cmd.options.hosts)
<1>2. PICK i \in DOMAIN data.measurements, j \in DOMAIN seen.measurements :
        LET m == data.measurements[i]
            n == seen.measurements[j]
        IN  /\ SameName(m, n)
            /\ TotalTime \in m.keys \cap n.keys
            /\ Slower(SumOf(m.samples), Len(m.samples), SumOf(n.samples), Len(n.samples))
  BY <1>1 DEF OutOfRange
<1>3. Sound(data, runs) /\ Sound(base, runs) /\ RunsType(runs) /\ MaxRuns \in Nat
  BY Bounds DEF SoundInv, DataKept, BasesKept, RunsKept
<1>4. seen = base
  <2>1. CASE cmd.options.scenarios = {} \/ cmd.options.hosts = {}
    BY <2>1 DEF Filter
  <2>2. CASE ~(cmd.options.scenarios = {} \/ cmd.options.hosts = {})
    <3>1. base = [repository |-> base.repository, scenarios |-> base.scenarios, hosts |-> base.hosts,
                  measurements |-> base.measurements, from |-> base.from]
      <4> HIDE DEF base
      <4> QED  BY <1>3, PartsOfBenchmark DEF Sound
    <3>2. seen.measurements = <<>>
      <4> HIDE DEF base
      <4> QED  BY <2>2, <3>1 DEF Filter
    <3>3. DOMAIN seen.measurements = {}
      <4> HIDE DEF seen
      <4> QED  BY <3>2
    <3>4. QED  BY <1>2, <3>3
  <2>3. QED  BY <2>1, <2>2
<1> DEFINE m == data.measurements[i]
           n == base.measurements[j]
           am == SumOf(m.samples)
           an == SumOf(n.samples)
           lm == Len(m.samples)
           ln == Len(n.samples)
<1>5. /\ j \in DOMAIN base.measurements /\ SameName(m, n)
      /\ TotalTime \in m.keys /\ TotalTime \in n.keys /\ Slower(am, lm, an, ln)
  <2> HIDE DEF seen, base
  <2> QED  BY <1>2, <1>4
<1>6. PICK x \in Measured : SameName(x, m)
  <2>1. data.measurements[i] \in ToSet(data.measurements)
    BY DEF ToSet
  <2>2. QED  BY <1>3, <2>1, SoundIsAccounted
<1>7. SameName(m, x) /\ SameName(n, x)
  BY <1>5, <1>6 DEF SameName
<1> HIDE DEF seen, base
<1>8. /\ lm \in Nat \ {0} /\ am \in Int
      /\ \E q \in Nat \ {0} : TrueCount(data, x) = q * lm /\ TrueSum(data, x) = q * am
  BY <1>3, <1>5, <1>7, MeanIsTrue
<1>9. /\ ln \in Nat \ {0} /\ an \in Int
      /\ \E q \in Nat \ {0} : TrueCount(base, x) = q * ln /\ TrueSum(base, x) = q * an
  BY <1>3, <1>5, <1>7, MeanIsTrue
<1> HIDE DEF am, an, lm, ln, m, n
<1>10. PICK q \in Nat \ {0} : TrueCount(data, x) = q * lm /\ TrueSum(data, x) = q * am
  BY <1>8
<1>11. PICK r \in Nat \ {0} : TrueCount(base, x) = r * ln /\ TrueSum(base, x) = r * an
  BY <1>9
<1>12. Slower(q * am, q * lm, r * an, r * ln)
  BY <1>5, <1>8, <1>9, SlowerScaled
<1>13. q * lm > 0 /\ r * ln > 0
  <2>1. \A u, v \in Nat \ {0} : u * v > 0
    OBVIOUS
  <2>2. QED  BY <1>8, <1>9, <2>1
<1>14. QED  BY <1>10, <1>11, <1>12, <1>13 DEF TrulySlower, base

(* The history of what is compared does not change while it stays in memory. *)
LEMMA SlowerStays ==
  ASSUME TrulySlower, UNCHANGED <<cmd, data, bases, runs>>
  PROVE  TrulySlower'
<1>1. PICK f \in cmd.base, m \in Measured :
        /\ TrueCount(data, m) > 0 /\ TrueCount(bases[f], m) > 0
        /\ Slower(TrueSum(data, m), TrueCount(data, m), TrueSum(bases[f], m), TrueCount(bases[f], m))
  BY DEF TrulySlower
<1>2. f \in cmd'.base /\ m \in Measured'
  BY DEF Measured
<1>3. TrueCount(data, m)' = TrueCount(data, m) /\ TrueCount(bases[f], m)' = TrueCount(bases[f], m)
  BY DEF TrueCount, Weight, Pairs
<1>4. TrueSum(data, m)' = TrueSum(data, m) /\ TrueSum(bases[f], m)' = TrueSum(bases[f], m)
  BY DEF TrueSum, Weight, Pairs
<1>5. QED  BY <1>1, <1>2, <1>3, <1>4 DEF TrulySlower, Slower

(* Only the comparison ends a command with -1; what it compared stays in memory *)
(* until the next command begins.                                               *)
AlarmInv == SoundInv /\ AlarmIsRight

(* Every step keeps the alarm right. *)
LEMMA AlarmNext == AlarmInv /\ [Next]_vars => AlarmInv'
<1> SUFFICES ASSUME AlarmInv, [Next]_vars PROVE AlarmIsRight'
  BY SoundNext DEF AlarmInv
<1>1. SoundInv /\ AlarmIsRight
  BY DEF AlarmInv
<1>2. CASE exit' # "-1"
  BY <1>2 DEF AlarmIsRight
<1>3. CASE UNCHANGED vars
  <2>1. UNCHANGED <<cmd, data, bases, runs, exit>>
    BY <1>3 DEF vars
  <2>2. TrulySlower => TrulySlower'
    BY <2>1, SlowerStays
  <2>3. QED  BY <1>1, <2>1, <2>2 DEF AlarmIsRight
<1>4. CASE pc # "ended" /\ UNCHANGED exit
  BY <1>1, <1>4 DEF SoundInv, CommandKept, AlarmIsRight
<1>5. CASE Compare
  <2>1. CASE cmd.op = "benchmark" /\ Alarms
    <3>1. TrulySlower
      BY <1>1, <1>5, <2>1, AlarmIsTrue DEF Compare
    <3>2. UNCHANGED <<cmd, data, bases, runs>>
      BY <1>5 DEF Compare, End
    <3>3. TrulySlower'
      BY <3>1, <3>2, SlowerStays
    <3>4. QED  BY <3>3 DEF AlarmIsRight
  <2>2. CASE ~(cmd.op = "benchmark" /\ Alarms)
    BY <1>5, <2>2, <1>2 DEF Compare, End
  <2>3. QED  BY <2>1, <2>2
<1>6. CASE \E c \in Commands : Begin(c)
  BY <1>2, <1>6 DEF Begin
<1>7. CASE Fails \/ Killed
  BY <1>2, <1>7 DEF Fails, Killed, End
<1>8. CASE Measure \/ Load \/ LoadBaselines \/ Saved
  BY <1>4, <1>8 DEF Measure, Load, LoadBaselines, Saved
<1>9. CASE MergeFiles
  BY <1>2, <1>4, <1>9 DEF MergeFiles, End
<1>10. CASE Patch
  BY <1>2, <1>4, <1>10 DEF Patch, End
<1>11. CASE \E f \in Files : Truncate(f) \/ Write(f) \/ Upload(f)
  BY <1>4, <1>11 DEF Truncate, Write, Upload, Wrote
<1>12. QED
  BY <1>3, <1>5, <1>6, <1>7, <1>8, <1>9, <1>10, <1>11 DEF Next

(* benchmark/index.ts:108-138: exit code -1 says that some scenario has become slower on *)
(* some host by what the runs measured there, whatever was merged into the files that    *)
(* were compared.                                                                        *)
THEOREM NoFalseAlarm == Spec => []AlarmIsRight
<1>1. Init => AlarmInv
  BY SoundInit DEF Init, AlarmInv, AlarmIsRight
<1>2. AlarmInv => AlarmIsRight
  BY DEF AlarmInv
<1>3. QED  BY <1>1, <1>2, AlarmNext, PTL DEF Spec
=============================================================================
