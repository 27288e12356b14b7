-------------------------- MODULE MeasureRun_proofs --------------------------
(***************************************************************************)
(* Proofs about MeasureRun, for every number of pairs, iterations, warmups *)
(* and lines.  The inductive invariant says which children exist (those of *)
(* later passes and iterations have not been spawned), that a total is the *)
(* last line of its pipe, and what a kept compiler sample has seen.        *)
(***************************************************************************)
EXTENDS MeasureRun, TLAPS

(* The children that the runner has not spawned yet. *)
Later(c) ==
    \/ pc = "begin"
    \/ c[1] > iter
    \/ c[1] = iter /\ pc = "clean"
    \/ c[1] = iter /\ pc = "compile" /\ c[2] > pass

LaterNotSpawned == \A c \in Iteration \X Pass : Later(c) => child[c] = NoProcess

TotalIsLast == \A c \in Iteration \X Pass : child[c].total = 1 => child[c].read = NumLines

PairLeft == pc # "done" => pair < NumPairs

(* The inductive invariant of what the children and the values hold. *)
LinesInv == TypeOK /\ PairLeft /\ LaterNotSpawned /\ TotalIsLast /\ LinesCreditedOnce

LEMMA RunsPositive == Runs \in Nat \ {0} /\ 0 \in Iteration
  BY MeasureAssumption DEF Runs, Iteration

LEMMA ProcessValues == NoProcess \in Process /\ Launched \in Process
  BY MeasureAssumption DEF NoProcess, Launched, Process

LEMMA ProcessUpdates ==
  ASSUME NEW p \in Process, NEW n \in 0 .. NumLines, NEW t \in {0, 1}
  PROVE  /\ Shown(p, n, t) \in Process
         /\ Shown(p, n, t).read = n
         /\ Shown(p, n, t).total = t
         /\ Exited(p, n) \in Process
         /\ Exited(p, n).read = p.read
         /\ Exited(p, n).total = p.total
  BY DEF Process, Exited, Shown

LEMMA FreshTypes ==
  /\ FreshChildren \in [Iteration \X Pass -> Process]
  /\ FreshValues \in [Iteration -> [Line -> Nat]]
  BY ProcessValues DEF FreshChildren, FreshValues

LEMMA MeasurementType ==
  ASSUME TypeOK, NEW s \in Seq(Iteration), NEW t \in Seq({0, 1})
  PROVE  Measurement(s, t) \in [keys : SUBSET MetricName, series : [MetricName -> Seq(Nat)]]
<1> USE MeasureAssumption
<1>1. MetricKeys \in SUBSET MetricName
  BY DEF TypeOK, MetricKeys, MetricName, Line, ExecutionTime
<1>2. ASSUME NEW k \in MetricKeys, k # ExecutionTime
      PROVE  [m \in 1 .. Len(s) |-> values[s[m]][k]] \in Seq(Nat)
  <2>1. k \in Line
    BY <1>1, <1>2 DEF MetricName, Line, ExecutionTime
  <2>2. \A m \in 1 .. Len(s) : values[s[m]][k] \in Nat
    BY <2>1 DEF TypeOK
  <2>3. QED
    BY <2>2
<1>3. t \in Seq(Nat)
  OBVIOUS
<1>4. ASSUME NEW k \in MetricName
      PROVE  (IF k \notin MetricKeys THEN <<>>
              ELSE IF k = ExecutionTime THEN t
              ELSE [m \in 1 .. Len(s) |-> values[s[m]][k]]) \in Seq(Nat)
  BY <1>2, <1>3
<1>5. QED
  BY <1>1, <1>4 DEF Measurement

-----------------------------------------------------------------------------
(* What the head of an iteration does, whose first child is not spawned yet. *)
LEMMA BeginIterationFacts ==
  ASSUME TypeOK, NEW n \in Iteration, NEW build \in BOOLEAN, BeginIteration(n, build),
         child[<<n, 1>>] = NoProcess
  PROVE  /\ iter' = n /\ pass' = 1 /\ inner' = 0 /\ cleaned' = "none"
         /\ pc' \in {"execute", "clean", "compile"}
         /\ child' \in [Iteration \X Pass -> Process]
         /\ \A c \in Iteration \X Pass : c # <<n, 1>> => child'[c] = child[c]
         /\ child'[<<n, 1>>].read = 0 /\ child'[<<n, 1>>].total = 0
         /\ pc' # "compile" => child'[<<n, 1>>] = NoProcess
<1> USE ProcessValues DEF TypeOK
<1>1. <<n, 1>> \in Iteration \X Pass
  BY DEF Pass
<1>2. CASE UNCHANGED child /\ pc' # "compile"
  BY <1>1, <1>2 DEF BeginIteration, NoProcess
<1>3. CASE pc' = "compile" /\ child' = [child EXCEPT ![<<n, 1>>] = Launched]
  BY <1>1, <1>3 DEF BeginIteration, Launched
<1>4. QED
  BY <1>2, <1>3 DEF BeginIteration

(* What the children have shown is all that the values depend on. *)
LEMMA SameReading ==
  ASSUME LinesInv, values' = values,
         \A c \in Iteration \X Pass : child'[c].read = child[c].read /\ child'[c].total = child[c].total
  PROVE  TotalIsLast' /\ LinesCreditedOnce'
<1>1. TotalIsLast'
  BY DEF LinesInv, TotalIsLast
<1>2. LinesCreditedOnce'
  <2> SUFFICES ASSUME NEW n \in Iteration, NEW k \in Line
               PROVE  values[n][k] = Credit(<<n, 1>>, k)' + Credit(<<n, 2>>, k)'
    BY DEF LinesCreditedOnce
  <2>1. <<n, 1>> \in Iteration \X Pass /\ <<n, 2>> \in Iteration \X Pass
    BY DEF Pass
  <2>2. Credit(<<n, 1>>, k)' = Credit(<<n, 1>>, k) /\ Credit(<<n, 2>>, k)' = Credit(<<n, 2>>, k)
    BY <2>1 DEF Credit
  <2>3. QED
    BY <2>2 DEF LinesInv, LinesCreditedOnce
<1>3. QED
  BY <1>1, <1>2

LEMMA FreshInv ==
  child = FreshChildren /\ values = FreshValues
     => LaterNotSpawned /\ TotalIsLast /\ LinesCreditedOnce
<1> SUFFICES ASSUME child = FreshChildren, values = FreshValues
             PROVE  LaterNotSpawned /\ TotalIsLast /\ LinesCreditedOnce
  OBVIOUS
<1> USE MeasureAssumption
<1>1. \A c \in Iteration \X Pass : child[c] = NoProcess
  BY DEF FreshChildren
<1>2. LaterNotSpawned /\ TotalIsLast
  BY <1>1 DEF LaterNotSpawned, TotalIsLast, NoProcess
<1>3. ASSUME NEW n \in Iteration, NEW k \in Line
      PROVE  values[n][k] = Credit(<<n, 1>>, k) + Credit(<<n, 2>>, k)
  <2>1. <<n, 1>> \in Iteration \X Pass /\ <<n, 2>> \in Iteration \X Pass
    BY DEF Pass
  <2>2. Credit(<<n, 1>>, k) = 0 /\ Credit(<<n, 2>>, k) = 0
    BY <1>1, <2>1 DEF Credit, NoProcess, Line
  <2>3. values[n][k] = 0
    BY DEF FreshValues
  <2>4. QED
    BY <2>2, <2>3
<1>4. QED
  BY <1>2, <1>3 DEF LinesCreditedOnce

LEMMA BeginIterationInv ==
  ASSUME LinesInv, NEW n \in Iteration, NEW build \in BOOLEAN, BeginIteration(n, build),
         \A c \in Iteration \X Pass : c[1] >= n => child[c] = NoProcess,
         values' = values
  PROVE  LaterNotSpawned' /\ TotalIsLast' /\ LinesCreditedOnce'
<1>0. TypeOK /\ <<n, 1>> \in Iteration \X Pass /\ child[<<n, 1>>] = NoProcess
  BY MeasureAssumption DEF Iteration, Pass, LinesInv, Runs
<1>1. /\ iter' = n /\ pass' = 1
      /\ pc' \in {"execute", "clean", "compile"}
      /\ \A c \in Iteration \X Pass : c # <<n, 1>> => child'[c] = child[c]
      /\ child'[<<n, 1>>].read = 0 /\ child'[<<n, 1>>].total = 0
      /\ pc' # "compile" => child'[<<n, 1>>] = NoProcess
  BY <1>0, BeginIterationFacts
<1>2. LaterNotSpawned'
  <2> SUFFICES ASSUME NEW c \in Iteration \X Pass, Later(c)' PROVE child'[c] = NoProcess
    BY DEF LaterNotSpawned
  <2>1. c[1] >= n
    BY <1>1, MeasureAssumption DEF Later, Iteration, Runs
  <2>2. CASE c = <<n, 1>>
    BY <1>1, <2>2, MeasureAssumption DEF Later, Iteration, Runs
  <2>3. CASE c # <<n, 1>>
    BY <1>1, <2>1, <2>3
  <2>4. QED
    BY <2>2, <2>3
<1>3. \A c \in Iteration \X Pass : child'[c].read = child[c].read /\ child'[c].total = child[c].total
  BY <1>0, <1>1 DEF NoProcess
<1>4. QED
  BY <1>2, <1>3, SameReading

LEMMA EndIterationInv ==
  ASSUME LinesInv, NEW s \in Seq(Iteration), NEW t \in Seq({0, 1}), EndIteration(s, t),
         pc # "done", kind' = kind, outputs' \in {"absent", "stale"}
  PROVE  LinesInv'
<1> USE MeasureAssumption
<1>1. CASE LastRun
  <2>1. FinishScenario(s, t)
    BY <1>1 DEF EndIteration
  <2>2. measurements' \in Seq([keys : SUBSET MetricName, series : [MetricName -> Seq(Nat)]])
    BY <2>1, MeasurementType DEF FinishScenario, LinesInv, TypeOK
  <2>3. TypeOK' /\ PairLeft'
    <3>1. pair' \in 0 .. NumPairs /\ (pc' # "done" => pair' < NumPairs) /\ pc' \in {"begin", "done"}
      BY <2>1 DEF FinishScenario, LinesInv, TypeOK, PairLeft
    <3>2. /\ child' \in [Iteration \X Pass -> Process]
          /\ values' \in [Iteration -> [Line -> Nat]]
          /\ iter' \in Iteration /\ inner' \in 0 .. Scale - 1 /\ pass' \in Pass
      BY <2>1, FreshTypes, RunsPositive DEF FinishScenario, Pass
    <3>3. valueKeys' \subseteq Line /\ samples' \in Seq(Iteration) /\ timed' \in Seq({0, 1})
      BY <2>1 DEF FinishScenario
    <3>4. hasBuild' \in BOOLEAN /\ kind' \in Kinds /\ cleaned' = "none"
      BY <2>1 DEF FinishScenario, LinesInv, TypeOK
    <3>5. QED
      BY <2>2, <3>1, <3>2, <3>3, <3>4 DEF TypeOK, PairLeft
  <2>4. LaterNotSpawned' /\ TotalIsLast' /\ LinesCreditedOnce'
    <3>1. (child = FreshChildren /\ values = FreshValues)'
      BY <2>1 DEF FinishScenario, FreshChildren, FreshValues
    <3>2. QED
      BY <3>1, FreshInv, PTL
  <2>5. QED
    BY <2>3, <2>4 DEF LinesInv
<1>2. CASE ~LastRun
  <2>1. /\ samples' = s /\ timed' = t
        /\ BeginIteration(iter + 1, hasBuild)
        /\ UNCHANGED <<pair, hasBuild, values, valueKeys, measurements>>
    BY <1>2 DEF EndIteration, NextRun
  <2>2. iter + 1 \in Iteration /\ iter \in Nat /\ hasBuild \in BOOLEAN
    BY <1>2, RunsPositive DEF LastRun, LinesInv, TypeOK, Iteration
  <2>3. \A c \in Iteration \X Pass : c[1] >= iter + 1 => child[c] = NoProcess
    BY <2>2, RunsPositive DEF LinesInv, LaterNotSpawned, Later, Iteration
  <2>4. LaterNotSpawned' /\ TotalIsLast' /\ LinesCreditedOnce'
    BY <2>1, <2>2, <2>3, BeginIterationInv
  <2>5. child[<<iter + 1, 1>>] = NoProcess
    BY <2>2, <2>3 DEF Pass
  <2>6. /\ iter' = iter + 1 /\ pass' = 1 /\ inner' = 0 /\ cleaned' = "none"
        /\ pc' \in {"execute", "clean", "compile"}
        /\ child' \in [Iteration \X Pass -> Process]
    BY <2>1, <2>2, <2>5, BeginIterationFacts DEF LinesInv
  <2>7. TypeOK'
    BY <2>1, <2>2, <2>6 DEF LinesInv, TypeOK, Pass
  <2>8. PairLeft'
    BY <2>1 DEF LinesInv, PairLeft
  <2>9. QED
    BY <2>4, <2>7, <2>8 DEF LinesInv
<1>3. QED
  BY <1>1, <1>2

-----------------------------------------------------------------------------
LEMMA InitInv == Init => LinesInv
<1> SUFFICES ASSUME Init PROVE LinesInv
  OBVIOUS
<1>1. pair \in 0 .. NumPairs /\ PairLeft /\ inner \in 0 .. Scale - 1
  BY MeasureAssumption DEF Init, PairLeft
<1>2. TypeOK
  <2>1. /\ child \in [Iteration \X Pass -> Process]
        /\ values \in [Iteration -> [Line -> Nat]]
        /\ iter \in Iteration
    BY FreshTypes, RunsPositive DEF Init
  <2>2. samples \in Seq(Iteration) /\ timed \in Seq({0, 1})
    BY DEF Init
  <2>3. measurements \in Seq([keys : SUBSET MetricName, series : [MetricName -> Seq(Nat)]])
    BY DEF Init
  <2>4. QED
    BY <1>1, <2>1, <2>2, <2>3 DEF Init, TypeOK, Pass
<1>3. QED
  BY <1>1, <1>2, FreshInv DEF Init, LinesInv

LEMMA BeginScenarioInv == LinesInv /\ BeginScenario => LinesInv'
<1> SUFFICES ASSUME LinesInv, BeginScenario PROVE LinesInv'
  OBVIOUS
<1> PICK build \in BOOLEAN : hasBuild' = build /\ BeginIteration(0, build)
  BY DEF BeginScenario
<1>1. \A c \in Iteration \X Pass : c[1] >= 0 => child[c] = NoProcess
  BY RunsPositive DEF LinesInv, TypeOK, LaterNotSpawned, Later, BeginScenario, Iteration
<1>2. LaterNotSpawned' /\ TotalIsLast' /\ LinesCreditedOnce'
  BY <1>1, RunsPositive, BeginIterationInv DEF BeginScenario
<1>3. child[<<0, 1>>] = NoProcess
  BY <1>1, RunsPositive DEF Pass
<1>4. /\ iter' = 0 /\ pass' = 1 /\ inner' = 0 /\ cleaned' = "none"
      /\ pc' \in {"execute", "clean", "compile"}
      /\ child' \in [Iteration \X Pass -> Process]
  BY <1>3, RunsPositive, BeginIterationFacts DEF LinesInv
<1>5. TypeOK' /\ PairLeft'
  BY <1>4, RunsPositive, MeasureAssumption DEF LinesInv, TypeOK, PairLeft, BeginScenario, Pass
<1>6. QED
  BY <1>2, <1>5 DEF LinesInv

(* The line is added to its child and to the values of its iteration. *)
LEMMA LineArrivesInv ==
  ASSUME LinesInv, NEW c \in Iteration \X Pass, LineArrives(c)
  PROVE  LinesInv'
<1> DEFINE k == child[c].read + 1
<1> USE MeasureAssumption
<1>0. TypeOK /\ PairLeft /\ LaterNotSpawned /\ TotalIsLast /\ LinesCreditedOnce
  BY DEF LinesInv
<1>1. PICK v \in {0, 1} :
        /\ k # TotalTime => v = 1
        /\ child' = [child EXCEPT ![c] = Shown(child[c], k, IF k = TotalTime THEN v ELSE 0)]
        /\ values' = [values EXCEPT ![c[1]][k] = @ + v]
  BY DEF LineArrives, Credited
<1>2. /\ child[c] \in Process /\ child[c].read \in Nat /\ k \in Line /\ c[1] \in Iteration
      /\ child[c].read < NumLines
  BY <1>0 DEF TypeOK, Process, Line, LineArrives
<1>3. /\ UNCHANGED <<kind, pair, hasBuild, pc, iter, pass, samples, outputs, cleaned, inner,
                     timed, measurements>>
      /\ valueKeys' \in {valueKeys, valueKeys \cup {k}}
      /\ child[c].status # "none"
  BY DEF LineArrives
<1>4. /\ child'[c].read = k
      /\ child'[c].total = IF k = TotalTime THEN v ELSE 0
      /\ child'[c] \in Process
      /\ \A d \in Iteration \X Pass : d # c => child'[d] = child[d]
  <2> DEFINE total == IF k = TotalTime THEN v ELSE 0
  <2>1. k \in 0 .. NumLines /\ total \in {0, 1}
    BY <1>2 DEF Line
  <2>2. child \in [Iteration \X Pass -> Process]
    BY <1>0 DEF TypeOK
  <2>3. child' = [child EXCEPT ![c] = Shown(child[c], k, total)]
    BY <1>1
  <2> HIDE DEF k, total
  <2>4. /\ child'[c] = Shown(child[c], k, total)
        /\ \A d \in Iteration \X Pass : d # c => child'[d] = child[d]
    BY <2>2, <2>3
  <2>5. child[c] \in Process
    BY <2>2
  <2>6. /\ Shown(child[c], k, total) \in Process
        /\ Shown(child[c], k, total).read = k
        /\ Shown(child[c], k, total).total = total
    BY ONLY <2>1, <2>5, ProcessUpdates
  <2>7. QED
    BY <2>4, <2>6 DEF total
<1>5. child' \in [Iteration \X Pass -> Process]
  BY <1>0, <1>1, <1>4 DEF TypeOK
<1>6. /\ values' \in [Iteration -> [Line -> Nat]]
      /\ \A n \in Iteration, l \in Line :
            values'[n][l] = IF n = c[1] /\ l = k THEN values[n][l] + v ELSE values[n][l]
  <2> HIDE DEF k
  <2>1. values \in [Iteration -> [Line -> Nat]]
    BY <1>0 DEF TypeOK
  <2>2. values' = [values EXCEPT ![c[1]] = [values[c[1]] EXCEPT ![k] = values[c[1]][k] + v]]
    BY <1>1
  <2>3. [values[c[1]] EXCEPT ![k] = values[c[1]][k] + v] \in [Line -> Nat]
    BY <1>2, <2>1
  <2>4. QED
    BY <1>2, <2>1, <2>2, <2>3
<1>7. TypeOK' /\ PairLeft'
  BY <1>0, <1>2, <1>3, <1>5, <1>6 DEF TypeOK, PairLeft
<1>8. LaterNotSpawned'
  <2>1. ~Later(c)
    BY <1>0, <1>3 DEF LaterNotSpawned, NoProcess
  <2>2. QED
    BY <1>0, <1>3, <1>4, <2>1 DEF LaterNotSpawned, Later
<1>9. TotalIsLast'
  BY <1>0, <1>4 DEF TotalIsLast, TotalTime
<1>10. LinesCreditedOnce'
  <2>1. child[c].total = 0
    BY <1>0, <1>2 DEF TotalIsLast, Process
  <2>2. ASSUME NEW d \in Iteration \X Pass, NEW l \in Line
        PROVE  Credit(d, l)' = IF d = c /\ l = k THEN Credit(d, l) + v ELSE Credit(d, l)
    <3>1. CASE d # c
      BY <1>4, <3>1 DEF Credit
    <3>2. CASE d = c /\ l = TotalTime
      BY <1>2, <1>4, <2>1, <3>2 DEF Credit
    <3>3. CASE d = c /\ l # TotalTime
      <4>1. child[c].read \in Nat /\ l \in Nat
        BY <1>2 DEF Line
      <4>2. Credit(c, l) = (IF child[c].read >= l THEN 1 ELSE 0)
        BY <3>3 DEF Credit
      <4>3. Credit(c, l)' = (IF child[c].read + 1 >= l THEN 1 ELSE 0)
        BY <1>4, <3>3 DEF Credit
      <4>4. l = k => v = 1
        BY <1>1, <3>3
      <4>5. QED
        BY <3>3, <4>1, <4>2, <4>3, <4>4
    <3>4. QED
      BY <3>1, <3>2, <3>3
  <2>3. ASSUME NEW d \in Iteration \X Pass, NEW l \in Line
        PROVE  Credit(d, l) \in Nat
    <3>1. child[d] \in Process
      BY <1>0 DEF TypeOK
    <3>2. QED
      BY <3>1 DEF Credit, Process
  <2>4. ASSUME NEW n \in Iteration, NEW l \in Line
        PROVE  values'[n][l] = Credit(<<n, 1>>, l)' + Credit(<<n, 2>>, l)'
    <3>1. /\ <<n, 1>> \in Iteration \X Pass /\ <<n, 2>> \in Iteration \X Pass
          /\ values[n][l] = Credit(<<n, 1>>, l) + Credit(<<n, 2>>, l)
      BY <1>0 DEF Pass, LinesCreditedOnce
    <3>2. c = <<c[1], 1>> \/ c = <<c[1], 2>>
      BY DEF Pass
    <3>3. CASE n = c[1] /\ l = k
      BY <1>6, <2>2, <2>3, <3>1, <3>2, <3>3
    <3>4. CASE ~(n = c[1] /\ l = k)
      BY <1>6, <2>2, <3>1, <3>2, <3>4
    <3>5. QED
      BY <3>3, <3>4
  <2>5. QED
    BY <2>4 DEF LinesCreditedOnce
<1>11. QED
  BY <1>7, <1>8, <1>9, <1>10 DEF LinesInv

LEMMA CleanExitsInv == LinesInv /\ CleanExits => LinesInv'
<1> SUFFICES ASSUME LinesInv, CleanExits PROVE LinesInv'
  OBVIOUS
<1>0. TypeOK /\ PairLeft /\ LaterNotSpawned /\ TotalIsLast /\ LinesCreditedOnce
  BY DEF LinesInv
<1>1. /\ pc = "clean"
      /\ outputs' \in {"absent", "stale"}
      /\ UNCHANGED <<kind, pair, hasBuild, iter, pass, values, valueKeys, samples, inner, timed,
                     measurements>>
  BY <1>0 DEF CleanExits, TypeOK
<1>2. iter \in Iteration /\ <<iter, 1>> \in Iteration \X Pass
  BY <1>0 DEF TypeOK, Pass
<1>3. child[<<iter, 1>>] = NoProcess
  BY <1>0, <1>1, <1>2 DEF LaterNotSpawned, Later
<1>4. CASE pc' = "failed" /\ UNCHANGED <<child, cleaned>>
  <2>1. TypeOK' /\ PairLeft'
    BY <1>0, <1>1, <1>4 DEF TypeOK, PairLeft
  <2>2. LaterNotSpawned'
    BY <1>0, <1>1, <1>4 DEF LaterNotSpawned, Later
  <2>3. QED
    BY <1>1, <1>4, <2>1, <2>2, SameReading DEF LinesInv
<1>5. CASE /\ pc' = "compile"
           /\ cleaned' \in {"ok", "signal"}
           /\ child' = [child EXCEPT ![<<iter, 1>>] = Launched]
  <2>1. /\ child' \in [Iteration \X Pass -> Process]
        /\ child'[<<iter, 1>>] = Launched
        /\ \A c \in Iteration \X Pass : c # <<iter, 1>> => child'[c] = child[c]
    BY <1>0, <1>2, <1>5, ProcessValues DEF TypeOK
  <2>2. TypeOK' /\ PairLeft'
    BY <1>0, <1>1, <1>5, <2>1 DEF TypeOK, PairLeft
  <2>3. LaterNotSpawned'
    <3> SUFFICES ASSUME NEW c \in Iteration \X Pass, Later(c)' PROVE child'[c] = NoProcess
      BY DEF LaterNotSpawned
    <3>1. iter \in Nat /\ pass \in {1, 2}
      BY <1>0, RunsPositive DEF TypeOK, Iteration, Pass
    <3>2. Later(c)
      BY <1>1, <1>5 DEF Later
    <3>3. c # <<iter, 1>>
      BY <1>1, <1>5, <3>1 DEF Later
    <3>4. QED
      BY <1>0, <2>1, <3>2, <3>3 DEF LaterNotSpawned
  <2>4. \A c \in Iteration \X Pass : child'[c].read = child[c].read /\ child'[c].total = child[c].total
    BY <1>3, <2>1 DEF NoProcess, Launched
  <2>5. QED
    BY <1>1, <2>2, <2>3, <2>4, SameReading DEF LinesInv
<1>6. QED
  BY <1>4, <1>5 DEF CleanExits, CleanRefused, ExitCode

LEMMA CompileExitsInv == LinesInv /\ CompileExits => LinesInv'
<1> SUFFICES ASSUME LinesInv, CompileExits PROVE LinesInv'
  OBVIOUS
<1>0. TypeOK /\ PairLeft /\ LaterNotSpawned /\ TotalIsLast /\ LinesCreditedOnce
  BY DEF LinesInv
<1> DEFINE now == <<iter, pass>>
           next == <<iter, 2>>
<1>1. /\ pc = "compile"
      /\ outputs' \in {"absent", "stale"}
      /\ UNCHANGED <<kind, pair, hasBuild, iter, values, valueKeys, samples, cleaned, inner,
                     timed, measurements>>
  BY <1>0 DEF CompileExits, TypeOK
<1>2. /\ iter \in Iteration /\ iter \in Nat /\ pass \in {1, 2}
      /\ now \in Iteration \X Pass /\ next \in Iteration \X Pass
      /\ child \in [Iteration \X Pass -> Process]
  BY <1>0, RunsPositive DEF TypeOK, Pass, Iteration
<1>3. PICK n \in 0 .. NumLines :
        \/ /\ pass = 1 /\ pass' = 2 /\ pc' = pc
           /\ child' = [[child EXCEPT ![now] = Exited(child[now], n)] EXCEPT ![next] = Launched]
        \/ /\ pass' = pass /\ pc' = "remove"
           /\ child' = [child EXCEPT ![now] = Exited(child[now], n)]
  BY <1>2, MeasureAssumption DEF CompileExits, Process
<1>4. /\ Exited(child[now], n) \in Process
      /\ Exited(child[now], n).read = child[now].read
      /\ Exited(child[now], n).total = child[now].total
  BY <1>2, ProcessUpdates
<1>5. CASE /\ pass = 1 /\ pass' = 2 /\ pc' = pc
           /\ child' = [[child EXCEPT ![now] = Exited(child[now], n)] EXCEPT ![next] = Launched]
  <2>1. now # next
    BY <1>5
  <2>2. /\ child' \in [Iteration \X Pass -> Process]
        /\ child'[now] = Exited(child[now], n)
        /\ child'[next] = Launched
        /\ \A c \in Iteration \X Pass : c \notin {now, next} => child'[c] = child[c]
    BY <1>2, <1>4, <1>5, <2>1, ProcessValues
  <2>3. child[next] = NoProcess
    BY <1>0, <1>1, <1>2, <1>5 DEF LaterNotSpawned, Later
  <2>4. TypeOK' /\ PairLeft'
    BY <1>0, <1>1, <1>5, <2>2 DEF TypeOK, PairLeft, Pass
  <2>5. LaterNotSpawned'
    <3> SUFFICES ASSUME NEW c \in Iteration \X Pass, Later(c)' PROVE child'[c] = NoProcess
      BY DEF LaterNotSpawned
    <3>1. c[1] > iter
      BY <1>1, <1>5 DEF Later, Pass
    <3>2. Later(c) /\ c \notin {now, next}
      BY <1>2, <3>1 DEF Later
    <3>3. QED
      BY <1>0, <2>2, <3>2 DEF LaterNotSpawned
  <2>6. \A c \in Iteration \X Pass : child'[c].read = child[c].read /\ child'[c].total = child[c].total
    BY <1>4, <2>2, <2>3 DEF NoProcess, Launched
  <2>7. QED
    BY <1>1, <2>4, <2>5, <2>6, SameReading DEF LinesInv
<1>6. CASE /\ pass' = pass /\ pc' = "remove"
           /\ child' = [child EXCEPT ![now] = Exited(child[now], n)]
  <2>1. /\ child' \in [Iteration \X Pass -> Process]
        /\ child'[now] = Exited(child[now], n)
        /\ \A c \in Iteration \X Pass : c # now => child'[c] = child[c]
    BY <1>2, <1>4, <1>6
  <2>2. TypeOK' /\ PairLeft'
    BY <1>0, <1>1, <1>6, <2>1 DEF TypeOK, PairLeft
  <2>3. LaterNotSpawned'
    BY <1>0, <1>1, <1>2, <1>6, <2>1 DEF LaterNotSpawned, Later
  <2>4. \A c \in Iteration \X Pass : child'[c].read = child[c].read /\ child'[c].total = child[c].total
    BY <1>4, <2>1
  <2>5. QED
    BY <1>1, <2>2, <2>3, <2>4, SameReading DEF LinesInv
<1>7. QED
  BY <1>3, <1>5, <1>6

LEMMA RemoveOutputInv == LinesInv /\ RemoveOutput => LinesInv'
<1> SUFFICES ASSUME LinesInv, RemoveOutput PROVE LinesInv'
  OBVIOUS
<1> DEFINE s == IF Kept(iter) THEN Append(samples, iter) ELSE samples
<1>1. s \in Seq(Iteration) /\ timed \in Seq({0, 1}) /\ outputs' \in {"absent", "stale"}
  BY DEF LinesInv, TypeOK, RemoveOutput
<1>2. EndIteration(s, timed) /\ pc # "done" /\ kind' = kind
  BY DEF RemoveOutput
<1> HIDE DEF s
<1>3. QED
  BY <1>1, <1>2, EndIterationInv

LEMMA ExecutionExitsInv == LinesInv /\ ExecutionExits => LinesInv'
<1> SUFFICES ASSUME LinesInv, ExecutionExits PROVE LinesInv'
  OBVIOUS
<1>0. TypeOK /\ PairLeft /\ LaterNotSpawned /\ TotalIsLast /\ LinesCreditedOnce
  BY DEF LinesInv
<1>1. PICK code \in ExitCode :
        LET idle == UntimedAfter(code)
            t == IF IsWarmup(iter) THEN timed
                 ELSE Append(timed, 1) \o [m \in 1 .. idle |-> 0]
        IN  \/ /\ inner + 1 + idle < Scale
               /\ inner' = inner + 1
               /\ timed' = t
               /\ UNCHANGED <<pair, hasBuild, pc, iter, pass, child, values, valueKeys,
                              samples, cleaned, measurements>>
            \/ EndIteration(samples, t)
  BY DEF ExecutionExits
<1> DEFINE idle == UntimedAfter(code)
           t == IF IsWarmup(iter) THEN timed ELSE Append(timed, 1) \o [m \in 1 .. idle |-> 0]
<1>2. pc = "execute" /\ kind' = kind /\ outputs' = outputs
  BY DEF ExecutionExits
<1>3. inner \in 0 .. Scale - 1 /\ idle \in Nat
  BY <1>0, MeasureAssumption DEF TypeOK, UntimedAfter
<1>4. t \in Seq({0, 1})
  <2> HIDE DEF idle
  <2>1. [m \in 1 .. idle |-> 0] \in Seq({0, 1})
    BY <1>3
  <2>2. QED
    BY <1>0, <2>1 DEF TypeOK
<1>5. CASE /\ inner + 1 + idle < Scale
           /\ inner' = inner + 1
           /\ timed' = t
           /\ UNCHANGED <<pair, hasBuild, pc, iter, pass, child, values, valueKeys,
                          samples, cleaned, measurements>>
  <2> HIDE DEF t, idle
  <2>1. inner' \in 0 .. Scale - 1
    BY <1>3, <1>5, MeasureAssumption
  <2>2. TypeOK' /\ PairLeft'
    BY <1>0, <1>2, <1>4, <1>5, <2>1 DEF TypeOK, PairLeft
  <2>3. LaterNotSpawned'
    BY <1>0, <1>5 DEF LaterNotSpawned, Later
  <2>4. QED
    BY <1>5, <2>2, <2>3, SameReading DEF LinesInv
<1>6. CASE EndIteration(samples, t)
  <2> HIDE DEF t
  <2>1. samples \in Seq(Iteration) /\ outputs' \in {"absent", "stale"}
    BY <1>0, <1>2 DEF TypeOK
  <2>2. QED
    BY <1>2, <1>4, <1>6, <2>1, EndIterationInv
<1>7. QED
  BY <1>1, <1>5, <1>6

LEMMA SpawnFailsInv == LinesInv /\ SpawnFails => LinesInv'
<1> SUFFICES ASSUME LinesInv, SpawnFails PROVE LinesInv'
  OBVIOUS
<1>1. TypeOK' /\ PairLeft'
  BY DEF SpawnFails, LinesInv, TypeOK, PairLeft
<1>2. LaterNotSpawned'
  BY DEF SpawnFails, LinesInv, LaterNotSpawned, Later
<1>3. QED
  BY <1>1, <1>2, SameReading DEF SpawnFails, LinesInv

LEMMA StutterInv == LinesInv /\ UNCHANGED vars => LinesInv'
  BY DEF LinesInv, TypeOK, Process, PairLeft, LaterNotSpawned, Later, TotalIsLast,
     LinesCreditedOnce, Credit, vars

LEMMA LinesStep == LinesInv /\ [Next]_vars => LinesInv'
  BY BeginScenarioInv, LineArrivesInv, CleanExitsInv, CompileExitsInv, RemoveOutputInv,
     ExecutionExitsInv, SpawnFailsInv, StutterInv DEF Next, Ended

(* For every number of pairs, iterations, warmups, executions and lines, the   *)
(* state of the runner keeps its type: it never indexes a run that does not    *)
(* exist, and a measurement holds numbers only.                                *)
THEOREM TypeCorrect == Spec => []TypeOK
<1>1. LinesInv => TypeOK
  BY DEF LinesInv
<1>2. QED
  BY <1>1, InitInv, LinesStep, PTL DEF Spec

(* No line of one child is ever added to the values of another iteration, and  *)
(* none is added twice, however late the pipe delivers it.                     *)
THEOREM EachLineCreditedOnce == Spec => []LinesCreditedOnce
<1>1. LinesInv => LinesCreditedOnce
  BY DEF LinesInv
<1>2. QED
  BY <1>1, InitInv, LinesStep, PTL DEF Spec

-----------------------------------------------------------------------------
(* What the test of totalTime guarantees for a compiler scenario. *)
TotalsRead(s) == \A m \in 1 .. Len(s) : values[s[m]][TotalTime] > 0

Complete(r) == \A k \in Line : \A m \in 1 .. Len(r.series[k]) : r.series[k][m] >= 1

KeptInv ==
    kind = "tsc" => /\ TotalsRead(samples)
                    /\ \A p \in 1 .. Len(measurements) : Complete(measurements[p])

(* The total is the last line: whoever has it has every line. *)
LEMMA TotalMeansAll ==
  ASSUME LinesInv, NEW n \in Iteration, values[n][TotalTime] > 0, NEW k \in Line
  PROVE  values[n][k] >= 1
<1> USE MeasureAssumption
<1>1. /\ <<n, 1>> \in Iteration \X Pass /\ <<n, 2>> \in Iteration \X Pass
      /\ TotalTime \in Line /\ k \in Nat /\ k <= NumLines
  BY DEF Pass, TotalTime, Line
<1>2. ASSUME NEW c \in Iteration \X Pass, NEW l \in Line
      PROVE  Credit(c, l) \in {0, 1}
  <2>1. child[c] \in Process
    BY DEF LinesInv, TypeOK
  <2>2. QED
    BY <2>1 DEF Credit, Process
<1>3. \A l \in Line : values[n][l] = Credit(<<n, 1>>, l) + Credit(<<n, 2>>, l)
  BY DEF LinesInv, LinesCreditedOnce
<1>4. PICK c \in {<<n, 1>>, <<n, 2>>} : Credit(c, TotalTime) = 1
  BY <1>1, <1>2, <1>3
<1>5. child[c].read = NumLines
  BY <1>1, <1>4 DEF Credit, LinesInv, TotalIsLast
<1>6. Credit(c, k) = 1
  BY <1>1, <1>4, <1>5 DEF Credit
<1>7. QED
  BY <1>1, <1>2, <1>3, <1>6

LEMMA KeptComplete == LinesInv /\ KeptInv => CompilerSamplesComplete
<1> SUFFICES ASSUME LinesInv, KeptInv, kind = "tsc" PROVE CompilerSamplesComplete
  BY DEF CompilerSamplesComplete
<1>1. ASSUME NEW m \in 1 .. Len(samples), NEW k \in Line
      PROVE  values[samples[m]][k] >= 1
  <2>1. samples[m] \in Iteration
    BY DEF LinesInv, TypeOK
  <2>2. QED
    BY <2>1, TotalMeansAll DEF KeptInv, TotalsRead
<1>2. QED
  BY <1>1 DEF CompilerSamplesComplete, KeptInv, Complete

LEMMA EndIterationKept ==
  ASSUME LinesInv, KeptInv, NEW s \in Seq(Iteration), NEW t, EndIteration(s, t),
         kind = "tsc" => TotalsRead(s), kind' = kind
  PROVE  KeptInv'
<1> SUFFICES ASSUME kind = "tsc" PROVE KeptInv'
  BY DEF KeptInv
<1>1. CASE samples' = s /\ UNCHANGED <<values, measurements>>
  BY <1>1 DEF KeptInv, TotalsRead, Complete
<1>2. CASE FinishScenario(s, t)
  <2>1. /\ samples' = <<>>
        /\ measurements' = Append(measurements, Measurement(s, t))
        /\ measurements \in Seq([keys : SUBSET MetricName, series : [MetricName -> Seq(Nat)]])
    BY <1>2 DEF FinishScenario, LinesInv, TypeOK
  <2>2. Complete(Measurement(s, t))
    <3> SUFFICES ASSUME NEW k \in Line,
                        NEW m \in 1 .. Len(Measurement(s, t).series[k])
                 PROVE  Measurement(s, t).series[k][m] >= 1
      BY DEF Complete
    <3>1. k \in MetricName /\ k \in MetricKeys /\ k # ExecutionTime
      BY DEF MetricName, MetricKeys, Line, ExecutionTime
    <3>2. Measurement(s, t).series[k] = [i \in 1 .. Len(s) |-> values[s[i]][k]]
      BY <3>1 DEF Measurement
    <3>3. m \in 1 .. Len(s) /\ s[m] \in Iteration
      BY <3>2
    <3>4. values[s[m]][k] >= 1
      BY <3>3, TotalMeansAll DEF TotalsRead
    <3>5. QED
      BY <3>2, <3>3, <3>4
  <2>3. \A p \in 1 .. Len(measurements') : Complete(measurements'[p])
    BY <2>1, <2>2 DEF KeptInv
  <2>4. QED
    BY <2>1, <2>3 DEF KeptInv, TotalsRead, Complete
<1>3. QED
  BY <1>1, <1>2 DEF EndIteration

LEMMA KeptStep == LinesInv /\ KeptInv /\ [Next]_vars => KeptInv'
<1> SUFFICES ASSUME LinesInv, KeptInv, [Next]_vars PROVE KeptInv'
  OBVIOUS
<1>0. TypeOK
  BY DEF LinesInv
<1>1. CASE UNCHANGED <<kind, values, samples, measurements>>
  BY <1>1 DEF KeptInv, TotalsRead, Complete
<1>2. ASSUME NEW c \in Iteration \X Pass, LineArrives(c) PROVE KeptInv'
  <2> DEFINE k == child[c].read + 1
  <2>0. k \in Nat
    BY <1>0 DEF TypeOK, Process
  <2>1. PICK v \in {0, 1} : values' = [values EXCEPT ![c[1]][k] = @ + v]
    BY <1>2 DEF LineArrives, Credited
  <2> HIDE DEF k
  <2>2. UNCHANGED <<kind, samples, measurements>>
    BY <1>2 DEF LineArrives
  <2>3. ASSUME NEW n \in Iteration, values[n][TotalTime] > 0
        PROVE  values'[n][TotalTime] > 0
    BY <1>0, <2>0, <2>1, <2>3, MeasureAssumption DEF TypeOK, TotalTime, Line
  <2>4. \A m \in 1 .. Len(samples) : samples[m] \in Iteration
    BY <1>0 DEF TypeOK
  <2>5. QED
    BY <2>2, <2>3, <2>4 DEF KeptInv, TotalsRead, Complete
<1>3. CASE RemoveOutput
  <2> DEFINE s == IF Kept(iter) THEN Append(samples, iter) ELSE samples
  <2>1. s \in Seq(Iteration)
    BY <1>0 DEF TypeOK
  <2>2. kind = "tsc" => TotalsRead(s)
    <3> SUFFICES ASSUME kind = "tsc", NEW m \in 1 .. Len(s) PROVE values[s[m]][TotalTime] > 0
      BY DEF TotalsRead
    <3>1. CASE m \in 1 .. Len(samples) /\ s[m] = samples[m]
      BY <3>1 DEF KeptInv, TotalsRead
    <3>2. CASE Kept(iter) /\ s[m] = iter
      BY <3>2 DEF Kept
    <3>3. QED
      BY <1>0, <3>1, <3>2 DEF TypeOK
  <2>3. EndIteration(s, timed) /\ kind' = kind
    BY <1>3 DEF RemoveOutput
  <2> HIDE DEF s
  <2>4. QED
    BY <2>1, <2>2, <2>3, EndIterationKept
<1>4. CASE ExecutionExits
  <2>1. kind' = kind /\ samples \in Seq(Iteration) /\ (kind = "tsc" => TotalsRead(samples))
    BY <1>0, <1>4 DEF ExecutionExits, TypeOK, KeptInv
  <2>2. UNCHANGED <<values, samples, measurements>> \/ \E t : EndIteration(samples, t)
    BY <1>4 DEF ExecutionExits
  <2>3. QED
    BY <1>1, <2>1, <2>2, EndIterationKept
<1>5. CASE BeginScenario \/ CleanExits \/ CompileExits \/ SpawnFails \/ UNCHANGED vars
  BY <1>1, <1>5 DEF BeginScenario, CleanExits, CompileExits, SpawnFails, vars
<1>6. QED
  BY <1>2, <1>3, <1>4, <1>5 DEF Next, Ended

(* runCompilerScenario never reports a mean over a sample that lacks a metric  *)
(* of the compiler: the test of totalTime before samples.push is enough,       *)
(* however late the pipe of the child is read.                                 *)
THEOREM CompilerSamplesAreComplete == Spec => []CompilerSamplesComplete
<1>1. Init => KeptInv
  BY DEF Init, KeptInv, TotalsRead
<1>2. QED
  BY <1>1, InitInv, LinesStep, KeptStep, KeptComplete, PTL DEF Spec

(* A build scenario whose clean process has not been killed compiles a clean    *)
(* tree the first time: the invariant is inductive on its own.                  *)
THEOREM FirstCompileIsClean == Spec => []FirstCompileStartsClean
<1> DEFINE Inv == FirstCompileStartsClean
<1>1. Init => Inv
  BY DEF Init, FirstCompileStartsClean
<1>2. TypeOK /\ Inv /\ [Next]_vars => Inv'
  <2> SUFFICES ASSUME TypeOK, Inv, [Next]_vars PROVE Inv'
    OBVIOUS
  <2> USE DEF FirstCompileStartsClean
  <2>1. ASSUME NEW s, NEW t, EndIteration(s, t) PROVE Inv'
    BY <2>1 DEF EndIteration, FinishScenario, BeginIteration
  <2>2. CASE BeginScenario
    BY <2>2 DEF BeginScenario, BeginIteration
  <2>3. ASSUME NEW c \in Iteration \X Pass, LineArrives(c) PROVE Inv'
    BY <2>3 DEF LineArrives
  <2>4. CASE CleanExits
    BY <2>4 DEF CleanExits, CleanRefused, ExitCode
  <2>5. CASE CompileExits
    BY <2>5 DEF CompileExits
  <2>6. CASE RemoveOutput
    BY <2>1, <2>6 DEF RemoveOutput
  <2>7. CASE ExecutionExits
    <3>1. \/ \E t : EndIteration(samples, t)
          \/ pc = "execute" /\ UNCHANGED pc
      BY <2>7 DEF ExecutionExits
    <3>2. QED
      BY <2>1, <3>1
  <2>8. CASE SpawnFails
    BY <2>8 DEF SpawnFails
  <2>9. CASE UNCHANGED vars
    BY <2>9 DEF vars
  <2>10. QED
    BY <2>2, <2>3, <2>4, <2>5, <2>6, <2>7, <2>8, <2>9 DEF Next, Ended
<1>3. QED
  BY <1>1, <1>2, TypeCorrect, PTL DEF Spec

-----------------------------------------------------------------------------
(* How many of the runs before run n are measured. *)
Measured(n) == IF n < NumWarmups THEN 0 ELSE n - NumWarmups

(* The iterations of s are measured, before run n and in order. *)
Ordered(s, n) ==
    /\ \A m \in 1 .. Len(s) : NumWarmups <= s[m] /\ s[m] < n
    /\ \A m \in 1 .. Len(s) - 1 : s[m] < s[m + 1]

(* The samples s and t of the runs before run n, and of j executions of it. *)
Counts(s, t, n, j) ==
    /\ kind = "server" => Len(s) = Measured(n)
    /\ kind = "tsc" => Len(s) <= Measured(n)
    /\ kind = "startup" => Len(t) = Measured(n) * Scale + j

InnerMeasured == IF IsWarmup(iter) THEN 0 ELSE inner

SizeRight(r, what) ==
    \A k \in r.keys :
        /\ what = "server" => Len(r.series[k]) = NumIterations
        /\ what = "startup" => Len(r.series[k]) = NumIterations * Scale
        /\ what = "tsc" => Len(r.series[k]) <= NumIterations

AllSizesRight == \A p \in 1 .. Len(measurements) : SizeRight(measurements[p], kind)

SizesInv ==
    /\ Ordered(samples, iter)
    /\ pc = "begin" => samples = <<>> /\ timed = <<>> /\ iter = 0 /\ inner = 0
    /\ pc \in {"clean", "compile", "remove"} => kind # "startup"
    /\ pc = "execute" => kind = "startup"
    /\ pc \in {"clean", "compile", "remove", "execute"} =>
        Counts(samples, timed, iter, InnerMeasured)
    /\ AllSizesRight

LEMMA SizesImply == TypeOK /\ SizesInv => MeasurementSizes
  BY MeasureAssumption DEF TypeOK, SizesInv, Ordered, AllSizesRight, SizeRight, MeasurementSizes

LEMMA MeasuredNext ==
  ASSUME NEW n \in Nat
  PROVE  /\ Measured(n) \in Nat
         /\ IsWarmup(n) => Measured(n) = 0 /\ Measured(n + 1) = 0
         /\ ~IsWarmup(n) => Measured(n + 1) = Measured(n) + 1
         /\ Measured(n + 1) >= Measured(n)
  BY MeasureAssumption DEF Measured, IsWarmup

LEMMA IterationsAreNat == ASSUME NEW s \in Seq(Iteration) PROVE \A m \in 1 .. Len(s) : s[m] \in Nat
<1>1. \A m \in 1 .. Len(s) : s[m] \in Iteration
  OBVIOUS
<1>2. Iteration \subseteq Nat
  BY RunsPositive DEF Iteration
<1>3. QED
  BY <1>1, <1>2

(* The samples of an iteration of a startup scenario. *)
LEMMA TimedGrows ==
  ASSUME NEW s \in Seq({0, 1}), NEW n \in Nat
  PROVE  LET t == Append(s, 1) \o [m \in 1 .. n |-> 0]
         IN  t \in Seq({0, 1}) /\ Len(t) = Len(s) + 1 + n
<1> DEFINE first == Append(s, 1)
           rest == [m \in 1 .. n |-> 0]
<1>1. first \in Seq({0, 1}) /\ Len(first) = Len(s) + 1
  OBVIOUS
<1>2. rest \in Seq({0, 1}) /\ Len(rest) = n
  OBVIOUS
<1> HIDE DEF first, rest
<1>3. first \o rest \in Seq({0, 1}) /\ Len(first \o rest) = Len(first) + Len(rest)
  BY <1>1, <1>2
<1>4. QED
  BY <1>1, <1>2, <1>3 DEF first, rest

LEMMA OneMoreScale == ASSUME NEW n \in Nat PROVE (n + 1) * Scale = n * Scale + Scale
  BY MeasureAssumption

(* The measurement of a scenario whose runs have all been counted. *)
LEMMA MeasurementSize ==
  ASSUME TypeOK, NEW s \in Seq(Iteration), NEW t \in Seq({0, 1}), Counts(s, t, Runs, 0)
  PROVE  SizeRight(Measurement(s, t), kind)
<1>1. Measured(Runs) = NumIterations
  BY MeasureAssumption DEF Measured, Runs
<1>2. NumIterations * Scale \in Nat
  BY MeasureAssumption
<1>3. ASSUME NEW k \in MetricKeys
      PROVE  Measurement(s, t).series[k] =
               IF k = ExecutionTime THEN t ELSE [m \in 1 .. Len(s) |-> values[s[m]][k]]
  <2>1. k \in MetricName
    BY <1>3, MeasureAssumption DEF TypeOK, MetricKeys, MetricName, Line, ExecutionTime
  <2>2. QED
    BY <1>3, <2>1 DEF Measurement
<1>4. ASSUME NEW k \in MetricKeys
      PROVE  /\ kind = "startup" => k = ExecutionTime
             /\ kind # "startup" => k # ExecutionTime
             /\ kind \in {"tsc", "server", "startup"}
  BY <1>4, MeasureAssumption DEF TypeOK, MetricKeys, Line, ExecutionTime
<1>5. ASSUME NEW k \in MetricKeys
      PROVE  /\ kind = "startup" => Len(Measurement(s, t).series[k]) = NumIterations * Scale
             /\ kind # "startup" => Len(Measurement(s, t).series[k]) = Len(s)
  <2>1. CASE kind = "startup"
    <3>1. Measurement(s, t).series[k] = t
      BY <1>3, <1>4, <1>5, <2>1
    <3>2. Len(t) = NumIterations * Scale
      BY <1>1, <1>2, <2>1 DEF Counts
    <3>3. QED
      BY <2>1, <3>1, <3>2
  <2>2. CASE kind # "startup"
    <3>1. Measurement(s, t).series[k] = [m \in 1 .. Len(s) |-> values[s[m]][k]]
      BY <1>3, <1>4, <1>5, <2>2
    <3>2. QED
      BY <2>2, <3>1
  <2>3. QED
    BY <2>1, <2>2
<1>6. Measurement(s, t).keys = MetricKeys
  BY DEF Measurement
<1>7. QED
  BY <1>1, <1>5, <1>6 DEF SizeRight, Counts

LEMMA EndIterationSizes ==
  ASSUME TypeOK, SizesInv, NEW s \in Seq(Iteration), NEW t \in Seq({0, 1}),
         EndIteration(s, t), kind' = kind,
         Ordered(s, iter + 1), Counts(s, t, iter + 1, 0)
  PROVE  SizesInv'
<1> USE MeasureAssumption
<1>1. CASE LastRun /\ FinishScenario(s, t)
  <2>1. /\ samples' = <<>> /\ timed' = <<>> /\ iter' = 0 /\ inner' = 0
        /\ pc' \in {"begin", "done"}
        /\ measurements' = Append(measurements, Measurement(s, t))
        /\ measurements \in Seq([keys : SUBSET MetricName, series : [MetricName -> Seq(Nat)]])
    BY <1>1 DEF FinishScenario, TypeOK
  <2>2. SizeRight(Measurement(s, t), kind)
    BY <1>1, MeasurementSize DEF LastRun
  <2>3. AllSizesRight'
    BY <2>1, <2>2 DEF SizesInv, AllSizesRight
  <2>4. Ordered(samples, iter)'
    BY <2>1 DEF Ordered
  <2>5. QED
    BY <2>1, <2>3, <2>4 DEF SizesInv
<1>2. CASE ~LastRun /\ samples' = s /\ timed' = t /\ BeginIteration(NextRun, hasBuild)
           /\ UNCHANGED measurements
  <2>1. /\ iter' = iter + 1 /\ inner' = 0
        /\ \/ kind = "startup" /\ pc' = "execute"
           \/ kind # "startup" /\ pc' \in {"clean", "compile"}
    BY <1>2 DEF BeginIteration, NextRun
  <2>2. InnerMeasured' = 0
    BY <2>1 DEF InnerMeasured
  <2>3. Counts(samples, timed, iter, InnerMeasured)'
    BY <1>2, <2>1, <2>2 DEF Counts, Measured
  <2>4. Ordered(samples, iter)'
    BY <1>2, <2>1 DEF Ordered
  <2>5. AllSizesRight'
    BY <1>2 DEF SizesInv, AllSizesRight
  <2>6. pc' # "begin" /\ (pc' = "execute" => kind' = "startup")
        /\ (pc' \in {"clean", "compile", "remove"} => kind' # "startup")
    BY <2>1
  <2>7. QED
    BY <2>3, <2>4, <2>5, <2>6 DEF SizesInv
<1>3. QED
  BY <1>1, <1>2 DEF EndIteration

LEMMA SizesSame ==
  ASSUME SizesInv, UNCHANGED <<kind, iter, inner, samples, timed, measurements>>,
         \/ pc' = pc
         \/ pc' \in {"failed"}
         \/ pc \in {"clean", "compile"} /\ pc' \in {"clean", "compile", "remove"}
  PROVE  SizesInv'
<1>1. Ordered(samples, iter)' /\ AllSizesRight' /\ InnerMeasured' = InnerMeasured
  BY DEF SizesInv, Ordered, AllSizesRight, InnerMeasured, IsWarmup
<1>2. Counts(samples, timed, iter, InnerMeasured) => Counts(samples, timed, iter, InnerMeasured)'
  BY <1>1 DEF Counts
<1>3. QED
  BY <1>1, <1>2 DEF SizesInv

LEMMA BeginScenarioSizes == TypeOK /\ SizesInv /\ BeginScenario => SizesInv'
<1> SUFFICES ASSUME TypeOK, SizesInv, BeginScenario PROVE SizesInv'
  OBVIOUS
<1>1. PICK build \in BOOLEAN : BeginIteration(0, build)
  BY DEF BeginScenario
<1>2. /\ iter' = 0 /\ inner' = 0 /\ samples' = <<>> /\ timed' = <<>>
      /\ UNCHANGED <<kind, measurements>>
      /\ \/ kind = "startup" /\ pc' = "execute"
         \/ kind # "startup" /\ pc' \in {"clean", "compile"}
  BY <1>1 DEF BeginScenario, BeginIteration, SizesInv
<1>3. AllSizesRight' /\ Ordered(samples, iter)'
  BY <1>2 DEF SizesInv, AllSizesRight, Ordered
<1>4. Counts(<<>>, <<>>, 0, 0)
  BY MeasureAssumption DEF Counts, Measured
<1>5. Counts(samples, timed, iter, InnerMeasured)'
  BY <1>2, <1>4 DEF Counts, InnerMeasured
<1>6. QED
  BY <1>2, <1>3, <1>5 DEF SizesInv

LEMMA RemoveOutputSizes == TypeOK /\ SizesInv /\ RemoveOutput => SizesInv'
<1> SUFFICES ASSUME TypeOK, SizesInv, RemoveOutput PROVE SizesInv'
  OBVIOUS
<1> DEFINE s == IF Kept(iter) THEN Append(samples, iter) ELSE samples
<1>1. EndIteration(s, timed) /\ kind' = kind /\ pc = "remove" /\ kind # "startup"
  BY DEF RemoveOutput, SizesInv
<1>2. samples \in Seq(Iteration) /\ timed \in Seq({0, 1}) /\ iter \in Iteration /\ iter \in Nat
  BY MeasureAssumption DEF TypeOK, Iteration
<1>3. Counts(samples, timed, iter, InnerMeasured) /\ Ordered(samples, iter)
  BY <1>1 DEF SizesInv
<1>4. IsWarmup(iter) => ~Kept(iter)
  BY DEF Kept
<1>5. kind = "server" => (Kept(iter) <=> ~IsWarmup(iter))
  BY DEF Kept
<1>6. s \in Seq(Iteration) /\ Ordered(s, iter + 1)
  <2>1. CASE Kept(iter)
    <3>1. NumWarmups <= iter
      BY <1>2, <1>4, <2>1, MeasureAssumption DEF IsWarmup
    <3>2. s = Append(samples, iter)
      BY <2>1
    <3> HIDE DEF s
    <3>3. \A m \in 1 .. Len(samples) : s[m] = samples[m] /\ samples[m] \in Nat
      <4>1. \A m \in 1 .. Len(samples) : s[m] = samples[m]
        BY <1>2, <3>2
      <4>2. QED
        BY <1>2, <4>1, IterationsAreNat
    <3>4. s \in Seq(Iteration) /\ Len(s) = Len(samples) + 1 /\ s[Len(samples) + 1] = iter
          /\ Len(samples) \in Nat
      BY <1>2, <3>2
    <3>5. \A m \in 1 .. Len(s) : NumWarmups <= s[m] /\ s[m] < iter + 1
      BY <1>2, <1>3, <3>1, <3>3, <3>4, MeasureAssumption DEF Ordered
    <3>6. ASSUME NEW m \in 1 .. Len(s) - 1 PROVE s[m] < s[m + 1]
      <4>1. m \in 1 .. Len(samples) /\ s[m] = samples[m] /\ samples[m] < iter
        BY <1>3, <3>3, <3>4 DEF Ordered
      <4>2. CASE m = Len(samples)
        BY <3>4, <4>1, <4>2
      <4>3. CASE m # Len(samples)
        <5>1. m \in 1 .. Len(samples) - 1 /\ m + 1 \in 1 .. Len(samples)
          BY <3>4, <4>1, <4>3
        <5>2. QED
          BY <1>3, <3>3, <4>1, <5>1 DEF Ordered
      <4>4. QED
        BY <4>2, <4>3
    <3>7. QED
      BY <3>4, <3>5, <3>6 DEF Ordered
  <2>2. CASE ~Kept(iter)
    <3>1. s = samples
      BY <2>2
    <3> HIDE DEF s
    <3>2. \A m \in 1 .. Len(samples) : samples[m] \in Nat
      BY <1>2, IterationsAreNat
    <3>3. QED
      BY <1>2, <1>3, <3>1, <3>2 DEF Ordered
  <2>3. QED
    BY <2>1, <2>2
<1>7. Len(s) = Len(samples) + IF Kept(iter) THEN 1 ELSE 0
  BY <1>2
<1> HIDE DEF s
<1>8. Counts(s, timed, iter + 1, 0)
  <2> DEFINE before == Measured(iter)
             after == Measured(iter + 1)
  <2>0. /\ before \in Nat /\ after >= before /\ after \in Nat
        /\ ~IsWarmup(iter) => after = before + 1
        /\ IsWarmup(iter) => after = before
        /\ kind = "server" => Len(samples) = before
        /\ kind = "tsc" => Len(samples) <= before
        /\ Len(samples) \in Nat
    <3>1. before \in Nat /\ after >= before /\ after \in Nat
          /\ (~IsWarmup(iter) => after = before + 1)
          /\ (IsWarmup(iter) => after = before)
      <4>1. before \in Nat /\ after \in Nat
        BY <1>2, MeasuredNext
      <4>2. QED
        BY <1>2, <4>1, MeasuredNext
    <3>2. Len(samples) \in Nat
      BY <1>2
    <3>3. QED
      BY <1>3, <3>1, <3>2 DEF Counts
  <2> HIDE DEF before, after
  <2>1. kind = "server" => Len(s) = after
    BY <1>4, <1>5, <1>7, <2>0
  <2>2. kind = "tsc" => Len(s) <= after
    <3>1. CASE Kept(iter)
      BY <1>4, <1>7, <2>0, <3>1
    <3>2. CASE ~Kept(iter)
      BY <1>7, <2>0, <3>2
    <3>3. QED
      BY <3>1, <3>2
  <2>3. QED
    BY <1>1, <2>1, <2>2 DEF Counts, after
<1>9. QED
  BY <1>1, <1>2, <1>6, <1>8, EndIterationSizes

LEMMA ExecutionExitsSizes == TypeOK /\ SizesInv /\ ExecutionExits => SizesInv'
<1> SUFFICES ASSUME TypeOK, SizesInv, ExecutionExits PROVE SizesInv'
  OBVIOUS
<1> USE MeasureAssumption
<1>1. PICK code \in ExitCode :
        LET idle == UntimedAfter(code)
            t == IF IsWarmup(iter) THEN timed
                 ELSE Append(timed, 1) \o [m \in 1 .. idle |-> 0]
        IN  \/ /\ inner + 1 + idle < Scale
               /\ inner' = inner + 1
               /\ timed' = t
               /\ UNCHANGED <<pair, hasBuild, pc, iter, pass, child, values, valueKeys,
                              samples, cleaned, measurements>>
            \/ /\ inner + 1 + idle = Scale
               /\ EndIteration(samples, t)
  BY DEF ExecutionExits
<1> DEFINE idle == UntimedAfter(code)
           t == IF IsWarmup(iter) THEN timed ELSE Append(timed, 1) \o [m \in 1 .. idle |-> 0]
<1>2. pc = "execute" /\ kind' = kind /\ kind = "startup"
  BY DEF ExecutionExits, SizesInv
<1>3. /\ inner \in 0 .. Scale - 1 /\ idle \in Nat /\ iter \in Nat
      /\ idle # 0 => inner + 1 + idle = Scale
      /\ timed \in Seq({0, 1}) /\ samples \in Seq(Iteration)
  BY DEF TypeOK, UntimedAfter, Iteration
<1>4. Len(timed) = Measured(iter) * Scale + InnerMeasured /\ Ordered(samples, iter)
  BY <1>2 DEF SizesInv, Counts
<1>5. Measured(iter) \in Nat /\ Measured(iter) * Scale \in Nat
  <2>1. Measured(iter) \in Nat
    BY <1>3, MeasuredNext
  <2>2. QED
    BY <2>1
<1>6. t \in Seq({0, 1}) /\ Len(t) = Len(timed) + IF IsWarmup(iter) THEN 0 ELSE 1 + idle
  <2>3. CASE IsWarmup(iter)
    BY <1>3, <2>3
  <2>4. CASE ~IsWarmup(iter)
    <3>1. t = Append(timed, 1) \o [m \in 1 .. idle |-> 0]
      BY <2>4
    <3>2. Len(t) = Len(timed) + 1 + idle /\ t \in Seq({0, 1})
      BY <1>3, <3>1, TimedGrows
    <3>3. QED
      BY <1>3, <2>4, <3>2
  <2>5. QED
    BY <2>3, <2>4
<1>7. CASE /\ inner + 1 + idle < Scale
           /\ inner' = inner + 1
           /\ timed' = t
           /\ UNCHANGED <<pc, iter, samples, measurements>>
  <2>1. Ordered(samples, iter)' /\ AllSizesRight'
    BY <1>2, <1>7 DEF SizesInv, Ordered, AllSizesRight
  <2>2. InnerMeasured' = IF IsWarmup(iter) THEN 0 ELSE inner + 1
    BY <1>7 DEF InnerMeasured, IsWarmup
  <2> HIDE DEF t, idle
  <2>3. Len(t) = Measured(iter) * Scale + IF IsWarmup(iter) THEN 0 ELSE inner + 1
    BY <1>3, <1>4, <1>5, <1>6, <1>7 DEF InnerMeasured
  <2>4. Counts(samples, timed, iter, InnerMeasured)'
    BY <1>2, <1>7, <2>2, <2>3 DEF Counts, Measured
  <2>5. QED
    BY <1>2, <1>7, <2>1, <2>4 DEF SizesInv
<1>8. CASE inner + 1 + idle = Scale /\ EndIteration(samples, t)
  <2> HIDE DEF t, idle
  <2>1. Len(t) = Measured(iter + 1) * Scale
    <3>1. CASE IsWarmup(iter)
      <4>1. Measured(iter) = 0 /\ Measured(iter + 1) = 0 /\ InnerMeasured = 0
        BY <1>3, <3>1, MeasuredNext DEF InnerMeasured
      <4>2. Len(t) = 0
        BY <1>3, <1>4, <1>6, <3>1, <4>1
      <4>3. QED
        BY <4>1, <4>2
    <3>2. CASE ~IsWarmup(iter)
      <4>1. Len(t) = Measured(iter) * Scale + Scale
        <5> DEFINE before == Measured(iter) * Scale
        <5>1. Len(timed) = before + inner
          BY <1>4, <3>2 DEF InnerMeasured
        <5>2. before \in Nat /\ Len(t) = Len(timed) + (1 + idle)
          BY <1>5, <1>6, <3>2
        <5> HIDE DEF before
        <5>3. Len(t) = before + Scale
          BY <1>3, <1>8, <5>1, <5>2
        <5>4. QED
          BY <5>3 DEF before
      <4>2. QED
        BY <1>3, <1>5, <3>2, <4>1, MeasuredNext, OneMoreScale
    <3>3. QED
      BY <3>1, <3>2
  <2>2. Counts(samples, t, iter + 1, 0)
    <3>1. Len(t) = Measured(iter + 1) * Scale + 0
      BY <1>6, <2>1
    <3>2. QED
      BY <1>2, <3>1 DEF Counts
  <2>3. Ordered(samples, iter + 1)
    <3>1. \A m \in 1 .. Len(samples) : samples[m] \in Nat
      BY <1>3, IterationsAreNat
    <3>2. QED
      BY <1>3, <1>4, <3>1 DEF Ordered
  <2>4. QED
    BY <1>2, <1>3, <1>6, <1>8, <2>2, <2>3, EndIterationSizes
<1>9. QED
  BY <1>1, <1>7, <1>8

(* Every sample is of one measured run, in order, and a measurement has as     *)
(* many as its runner has measured, for any numbers of warmups, iterations and *)
(* executions.                                                                 *)
THEOREM MeasurementsHaveTheirSizes == Spec => []MeasurementSizes
<1>1. Init => SizesInv
  BY DEF Init, SizesInv, Ordered, AllSizesRight
<1>2. TypeOK /\ SizesInv /\ [Next]_vars => SizesInv'
  <2> SUFFICES ASSUME TypeOK, SizesInv, [Next]_vars PROVE SizesInv'
    OBVIOUS
  <2>1. CASE BeginScenario
    BY <2>1, BeginScenarioSizes
  <2>2. ASSUME NEW c \in Iteration \X Pass, LineArrives(c) PROVE SizesInv'
    BY <2>2, SizesSame DEF LineArrives
  <2>3. CASE CleanExits
    <3>1. UNCHANGED <<kind, iter, inner, samples, timed, measurements>>
          /\ pc = "clean" /\ pc' \in {"compile", "failed"}
      BY <2>3 DEF CleanExits
    <3>2. QED
      BY <3>1, SizesSame
  <2>4. CASE CompileExits
    <3>1. UNCHANGED <<kind, iter, inner, samples, timed, measurements>>
          /\ pc = "compile" /\ pc' \in {"compile", "remove"}
      BY <2>4 DEF CompileExits
    <3>2. QED
      BY <3>1, SizesSame
  <2>5. CASE RemoveOutput
    BY <2>5, RemoveOutputSizes
  <2>6. CASE ExecutionExits
    BY <2>6, ExecutionExitsSizes
  <2>7. CASE SpawnFails
    BY <2>7, SizesSame DEF SpawnFails
  <2>8. CASE UNCHANGED vars
    BY <2>8, SizesSame DEF vars
  <2>9. QED
    BY <2>1, <2>2, <2>3, <2>4, <2>5, <2>6, <2>7, <2>8 DEF Next, Ended
<1>3. QED
  BY <1>1, <1>2, SizesImply, TypeCorrect, PTL DEF Spec
=============================================================================
