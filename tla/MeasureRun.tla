------------------------------ MODULE MeasureRun ------------------------------
(***************************************************************************)
(* One `ts-perf benchmark` run: measureAndRunScenarios walks the scenarios *)
(* and hosts, and for each pair runs the benchmarked program NumWarmups +  *)
(* NumIterations times as child processes whose diagnostics lines, read    *)
(* from a pipe, become the samples of a measurement.                       *)
(*                                                                         *)
(* The event loop is the scheduler: the code between two awaits is one     *)
(* action, and what may happen between two actions is that a line arrives  *)
(* or a child ends.  A child's 'exit' event does not wait for its pipe:    *)
(* lines may still arrive after it, even in a later iteration, and they    *)
(* go to the `values` object of the iteration that spawned the child.      *)
(*                                                                         *)
(* Data.  A child prints the lines 1..NumLines in this order, the last one *)
(* being "Total time".  Every line is worth 1, except that a total may be  *)
(* printed as 0 (`total`).  An entry of `values` that the code has not set *)
(* is 0 here: the code reads it with `?? 0` or tests it for truth.         *)
(***************************************************************************)
EXTENDS Naturals, Sequences

CONSTANTS
    Kinds,          \* the kinds of benchmark a run is asked for
    NumPairs,       \* numScenarios * numHosts
    NumIterations,  \* options.iterations
    NumWarmups,     \* options.warmups
    NumLines,       \* the diagnostics lines of one child process
    Scale           \* executions per iteration of a startup scenario

ASSUME MeasureAssumption ==
    /\ Kinds \subseteq {"tsc", "server", "startup"}
    /\ NumPairs \in Nat \ {0}
    /\ NumIterations \in Nat \ {0}
    /\ NumWarmups \in Nat
    /\ NumLines \in Nat \ {0}
    /\ Scale \in Nat \ {0}

VARIABLES
    kind,           \* "tsc", "server" (the tsserver and lsp runners) or "startup"
    pair,           \* index of the scenario and host being measured
    hasBuild,       \* the scenario's arguments have -b or --build
    pc,             \* what the runner awaits
    iter,           \* i
    pass,           \* first or second compile of an iteration with hasBuild
    child,          \* the compiler or server processes, by iteration and pass
    values,         \* the `values` object of each iteration
    valueKeys,      \* the metric names seen by a server runner
    samples,        \* the pushed `values` objects, by iteration: a reference, not a copy
    outputs,        \* products of an earlier compile that the next one would find
    cleaned,        \* exit of this iteration's clean process
    inner,          \* j: executions done in this iteration of a startup scenario
    timed,          \* startup samples: executions that each one timed, 1 or 0
    measurements    \* what measureAndRunScenarios has collected

vars == <<kind, pair, hasBuild, pc, iter, pass, child, values, valueKeys,
          samples, outputs, cleaned, inner, timed, measurements>>

Runs == NumIterations + NumWarmups
Iteration == 0 .. Runs - 1
Pass == {1, 2}
Line == 1 .. NumLines
TotalTime == NumLines
ExecutionTime == 0
MetricName == 0 .. NumLines

ExitCode == {"ok", "errors", "signal"}

Process == [status : {"none", "running", "exited"},
            read   : 0 .. NumLines,    \* lines that reached the runner
            last   : 0 .. NumLines,    \* lines it prints: known once it exits
            total  : {0, 1}]           \* what its "Total time" line said

NoProcess == [status |-> "none", read |-> 0, last |-> 0, total |-> 0]

Launched == [status |-> "running", read |-> 0, last |-> NumLines, total |-> 0]

(* The state in which runCompilerScenario and its siblings start: every one *)
(* of these variables is local to the call.                                  *)
FreshChildren == [c \in Iteration \X Pass |-> NoProcess]
FreshValues == [n \in Iteration |-> [k \in Line |-> 0]]

Init ==
    /\ kind \in Kinds
    /\ pair = 0
    /\ hasBuild = FALSE
    /\ pc = "begin"
    /\ iter = 0
    /\ pass = 1
    /\ child = FreshChildren
    /\ values = FreshValues
    /\ valueKeys = {}
    /\ samples = <<>>
    /\ outputs = "absent"
    /\ cleaned = "none"
    /\ inner = 0
    /\ timed = <<>>
    /\ measurements = <<>>

-----------------------------------------------------------------------------
(* Head of the iteration loop: the first process of iteration n is spawned. *)
BeginIteration(n, build) ==
    /\ iter' = n
    /\ pass' = 1
    /\ inner' = 0
    /\ cleaned' = "none"
    /\ \/ /\ kind = "startup"
          /\ pc' = "execute"
          /\ UNCHANGED child
       \/ /\ kind # "startup"
          /\ build
          /\ pc' = "clean"
          /\ UNCHANGED child
       \/ /\ kind # "startup"
          /\ ~build
          /\ pc' = "compile"
          /\ child' = [child EXCEPT ![<<n, 1>>] = Launched]

(* metrics of the finished scenario.  A compiler scenario has every known   *)
(* sample key, a server scenario the names its runs have printed.           *)
MetricKeys ==
    CASE kind = "startup" -> {ExecutionTime}
      [] kind = "tsc"     -> Line
      [] kind = "server"  -> valueKeys

Measurement(s, t) ==
    [keys   |-> MetricKeys,
     series |-> [k \in MetricName |->
                   IF k \notin MetricKeys THEN <<>>
                   ELSE IF k = ExecutionTime THEN t
                   ELSE [m \in 1 .. Len(s) |-> values[s[m]][k]]]]

(* After the last run of a scenario: its measurement is pushed and the next *)
(* pair begins.  What the children of this one still print is lost.         *)
FinishScenario(s, t) ==
    /\ measurements' = Append(measurements, Measurement(s, t))
    /\ pair' = pair + 1
    /\ pc' = IF pair + 1 < NumPairs THEN "begin" ELSE "done"
    /\ hasBuild' = FALSE
    /\ iter' = 0
    /\ pass' = 1
    /\ inner' = 0
    /\ cleaned' = "none"
    /\ child' = FreshChildren
    /\ values' = FreshValues
    /\ valueKeys' = {}
    /\ samples' = <<>>
    /\ timed' = <<>>

LastRunLate == iter = Runs      \* mutant: the loop runs once too often

LastRun == iter + 1 = Runs
NextRun == iter + 1

(* End of an iteration, with s and t the samples including its own. *)
EndIteration(s, t) ==
    \/ /\ ~LastRun
       /\ samples' = s
       /\ timed' = t
       /\ BeginIteration(NextRun, hasBuild)
       /\ UNCHANGED <<pair, hasBuild, values, valueKeys, measurements>>
    \/ /\ LastRun
       /\ FinishScenario(s, t)

-----------------------------------------------------------------------------
(* The scenario's files and directories are ready. *)
BeginScenario ==
    /\ pc = "begin"
    /\ \E build \in BOOLEAN :
        /\ build => kind = "tsc"
        /\ hasBuild' = build
        /\ BeginIteration(0, build)
    /\ UNCHANGED <<kind, pair, values, valueKeys, samples, outputs, timed, measurements>>

(* Mutant: one `values` object is shared, so a late line goes to whichever    *)
(* iteration is running.                                                      *)
CreditedToCurrent(c) == iter

(* The iteration whose `values` the 'line' listener of child c closes over. *)
Credited(c) == c[1]

(* Process p after n of its lines have been read, the total saying t. *)
Shown(p, n, t) == [p EXCEPT !.read = n, !.total = t]

(* 'line' on a child's stdout, before or after its 'exit'. *)
LineArrives(c) ==
    LET k == child[c].read + 1 IN
    /\ child[c].status # "none"
    /\ child[c].read < child[c].last
    /\ \E v \in (IF k = TotalTime THEN {0, 1} ELSE {1}) :
        /\ child' = [child EXCEPT ![c] = Shown(@, k, IF k = TotalTime THEN v ELSE 0)]
        /\ values' = [values EXCEPT ![Credited(c)][k] = @ + v]
    /\ valueKeys' = IF kind = "server" THEN valueKeys \cup {k} ELSE valueKeys
    /\ UNCHANGED <<kind, pair, hasBuild, pc, iter, pass, samples, outputs,
                   cleaned, inner, timed, measurements>>

(* 'exit' of the --clean process.  A positive exit code throws, which ends   *)
(* the whole run; a signal gives the code null, which is not above 0.        *)
CleanRefusedNever(code) == FALSE    \* mutant: the exit code is not looked at

CleanRefused(code) == code = "errors"

CleanExits ==
    /\ pc = "clean"
    /\ \E code \in ExitCode :
        /\ outputs' = IF code = "ok" THEN "absent" ELSE outputs
        /\ \/ /\ CleanRefused(code)
              /\ pc' = "failed"
              /\ UNCHANGED <<child, cleaned>>
           \/ /\ ~CleanRefused(code)
              /\ pc' = "compile"
              /\ cleaned' = code
              /\ child' = [child EXCEPT ![<<iter, 1>>] = Launched]
    /\ UNCHANGED <<kind, pair, hasBuild, iter, pass, values, valueKeys, samples,
                   inner, timed, measurements>>

(* A process that has exited after printing n lines. *)
Exited(p, n) == [p EXCEPT !.status = "exited", !.last = n]

(* 'exit' of a compiler or server.  It may have printed only some of its      *)
(* lines, and some of those may still be in the pipe.  The exit code is only   *)
(* logged.  With hasBuild, the first compile is followed by a second one.      *)
CompileExits ==
    /\ pc = "compile"
    /\ child[<<iter, pass>>].status = "running"
    /\ outputs' \in {outputs, "stale"}
    /\ \E n \in child[<<iter, pass>>].read .. NumLines :
        LET gone == [child EXCEPT ![<<iter, pass>>] = Exited(@, n)]
        IN  \/ /\ hasBuild
               /\ pass = 1
               /\ pass' = 2
               /\ child' = [gone EXCEPT ![<<iter, 2>>] = Launched]
               /\ UNCHANGED pc
            \/ /\ ~(hasBuild /\ pass = 1)
               /\ child' = gone
               /\ pc' = "remove"
               /\ UNCHANGED pass
    /\ UNCHANGED <<kind, pair, hasBuild, iter, values, valueKeys, samples,
                   cleaned, inner, timed, measurements>>

(* The test that turns this iteration's values into a sample. *)
IsWarmupOneLess(n) == n + 1 < NumWarmups    \* mutant: off by one

IsWarmup(n) == n < NumWarmups

KeptAlways(n) == ~IsWarmup(n)      \* mutant: no test of totalTime

Kept(n) == ~IsWarmup(n) /\ (kind = "tsc" => values[n][TotalTime] > 0)

(* The removal of outDirectory ends, its failure being ignored.  The outputs *)
(* of a build are not there.                                                 *)
RemoveOutput ==
    /\ pc = "remove"
    /\ outputs' \in {outputs} \cup (IF hasBuild THEN {} ELSE {"absent"})
    /\ EndIteration(IF Kept(iter) THEN Append(samples, iter) ELSE samples, timed)
    /\ UNCHANGED kind

(* 'exit' of one execution of a startup scenario.  execute() is evaluated    *)
(* only while exitCode is undefined, and code || undefined leaves it so after *)
(* a success or a signal: once an execution of this iteration has failed, the *)
(* rest of the inner loop times nothing, in the same turn of the event loop.  *)
UntimedAfter(code) == IF code = "errors" THEN Scale - inner - 1 ELSE 0

ExecutionExits ==
    /\ pc = "execute"
    /\ \E code \in ExitCode :
        LET idle == UntimedAfter(code)
            t == IF IsWarmup(iter) THEN timed
                 ELSE Append(timed, 1) \o [m \in 1 .. idle |-> 0]
        IN  \/ /\ inner + 1 + idle < Scale
               /\ inner' = inner + 1
               /\ timed' = t
               /\ UNCHANGED <<pair, hasBuild, pc, iter, pass, child, values, valueKeys,
                              samples, cleaned, measurements>>
            \/ /\ inner + 1 + idle = Scale
               /\ EndIteration(samples, t)
    /\ UNCHANGED <<kind, outputs>>

(* A spawn that fails emits 'error', which nothing listens to: the process dies. *)
SpawnFails ==
    /\ pc \in {"clean", "compile", "execute"}
    /\ pc = "compile" => /\ child[<<iter, pass>>].read = 0
                         /\ child[<<iter, pass>>].status = "running"
    /\ pc' = "failed"
    /\ UNCHANGED <<kind, pair, hasBuild, iter, pass, child, values, valueKeys, samples,
                   outputs, cleaned, inner, timed, measurements>>

(* The run is over, with a Benchmark or with an error. *)
Ended == pc \in {"done", "failed"} /\ UNCHANGED vars

Next ==
    \/ BeginScenario
    \/ \E c \in Iteration \X Pass : pc # "failed" /\ LineArrives(c)
    \/ CleanExits
    \/ CompileExits
    \/ RemoveOutput
    \/ ExecutionExits
    \/ SpawnFails
    \/ Ended

Spec == Init /\ [][Next]_vars

-----------------------------------------------------------------------------
TypeOK ==
    /\ kind \in Kinds
    /\ pair \in 0 .. NumPairs
    /\ hasBuild \in BOOLEAN
    /\ pc \in {"begin", "clean", "compile", "remove", "execute", "done", "failed"}
    /\ iter \in Iteration
    /\ pass \in Pass
    /\ child \in [Iteration \X Pass -> Process]
    /\ values \in [Iteration -> [Line -> Nat]]
    /\ valueKeys \subseteq Line
    /\ samples \in Seq(Iteration)
    /\ outputs \in {"absent", "stale"}
    /\ cleaned \in {"none", "ok", "signal"}
    /\ inner \in 0 .. Scale - 1
    /\ timed \in Seq({0, 1})
    /\ measurements \in Seq([keys : SUBSET MetricName, series : [MetricName -> Seq(Nat)]])

(* What child c contributes to entry k of the values of its iteration. *)
Credit(c, k) ==
    CASE k = TotalTime -> child[c].total
      [] k # TotalTime -> IF child[c].read >= k THEN 1 ELSE 0

(* A line counts for the iteration whose process printed it, once, however   *)
(* late it arrives: no iteration is charged for another's compile.           *)
LinesCreditedOnce ==
    \A n \in Iteration, k \in Line :
        values[n][k] = Credit(<<n, 1>>, k) + Credit(<<n, 2>>, k)

(* A compile sample that is kept lacks none of the compiler's metrics: its     *)
(* total was read, and the total is the last line of the pipe.  Otherwise a    *)
(* missing entry would be averaged as 0.                                       *)
CompilerSamplesComplete ==
    kind = "tsc" =>
        /\ \A m \in 1 .. Len(samples), k \in Line : values[samples[m]][k] >= 1
        /\ \A p \in 1 .. Len(measurements), k \in Line :
             \A m \in 1 .. Len(measurements[p].series[k]) : measurements[p].series[k][m] >= 1

(* The samples of a scenario come from distinct measured iterations, in       *)
(* order, never from a warmup or from one still running; and a measurement    *)
(* has one for each of its measured runs: a compiler run may be left out of   *)
(* it, a startup execution counts by itself.                                  *)
MeasurementSizes ==
    /\ \A m \in 1 .. Len(samples) : NumWarmups <= samples[m] /\ samples[m] < iter
    /\ \A m \in 1 .. Len(samples) - 1 : samples[m] < samples[m + 1]
    /\ \A p \in 1 .. Len(measurements) : \A k \in measurements[p].keys :
        LET size == Len(measurements[p].series[k])
        IN  CASE kind = "server"  -> size = NumIterations
              [] kind = "startup" -> size = NumIterations * Scale
              [] kind = "tsc"     -> size <= NumIterations

(* The first compile of a build finds no products of an earlier one, unless    *)
(* the clean process was killed by a signal: then it measures an up-to-date    *)
(* check instead of a build.                                                   *)
FirstCompileStartsClean ==
    hasBuild /\ pc = "compile" /\ pass = 1 /\ cleaned # "signal" => outputs = "absent"
=============================================================================
