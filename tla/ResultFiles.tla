----------------------------- MODULE ResultFiles -----------------------------
(***************************************************************************)
(* The commands that make and use benchmark files, one after another on    *)
(* one machine: benchmark (measure or load, compare, save), merge and      *)
(* patch, of ts-perf/packages/commands/src.                                *)
(*                                                                         *)
(* A command reads its files, then writes its outputs in parallel.  A      *)
(* local file is emptied before it is written; a blob is replaced at once. *)
(* The first failure ends the process, whatever is still being written.    *)
(***************************************************************************)
EXTENDS BenchmarkFile, FiniteSets

CONSTANTS
  Files,              \* the paths that the commands name
  Blobs,              \* those with the prefix blob:
  AvailableScenarios, \* the scenarios found on disk, in order
  AvailableHosts,     \* the hosts found on disk, in order
  Builds,             \* what may be measured: commits, with the keys and the total time
  PlainRepositories,  \* the commits whose data is ASCII text
  Commands,           \* the command lines that are given
  MaxCommands,        \* bound: how many commands run
  Absent, Torn,       \* contents of a file that are no benchmark
  TotalTime           \* the key that errorOutOfRange looks at

OptionValues == [scenarios : SUBSET ToSet(AvailableScenarios), hosts : SUBSET ToSet(AvailableHosts)]

BenchmarkCommand ==  \* base: the files of --baseline and --midline
  [op : {"benchmark"}, load : Files \cup {None}, base : SUBSET Files, outs : SUBSET Files,
   options : OptionValues, gate : BOOLEAN, shows : BOOLEAN]
MergeCommand ==
  [op : {"merge"}, ins : Files \X Files, outs : SUBSET Files]
PatchCommand ==
  [op : {"patch"}, benchmark : Files, patch : Files, outs : SUBSET Files, options : OptionValues]

ASSUME ConstantsAssumption ==
  /\ Commands \subseteq BenchmarkCommand \cup MergeCommand \cup PatchCommand
  /\ \A c \in Commands : /\ c.op = "merge" => Cardinality(c.outs) = 1
                         /\ c.op = "patch" => c.outs = {c.benchmark}
  /\ MaxRuns \in Nat /\ MaxCommands \in Nat
  /\ Blobs \subseteq Files
  /\ AvailableScenarios \in Seq(ToSet(AvailableScenarios))
  /\ AvailableHosts \in Seq(ToSet(AvailableHosts))
  /\ \A h \in ToSet(AvailableHosts) : h = [name |-> h.name, version |-> h.version]
  /\ \A x \in Builds : x.speed \in Nat \ {0}
  /\ TotalTime \in SampleKeys

VARIABLES
  disk,      \* what each file holds
  cmd,       \* the command that runs, or the one that ran last
  pc,        \* where it is
  data,      \* the benchmark in its memory
  bases,     \* the baseline and the midline it has read, before filtering
  written,   \* how far each of its outputs is
  exit,      \* how it ended
  reported,  \* whether it has printed an error without failing
  runs,      \* history: the measuring runs, with their pairs, keys and speed
  begun      \* how many commands have begun

vars == <<disk, cmd, pc, data, bases, written, exit, reported, runs, begun>>
-----------------------------------------------------------------------------
Idle == [op |-> "none", outs |-> {}]

(* Files that a benchmark can be read from. *)
Readable(f) == disk[f] \notin {Absent, Torn}

(* validatePath: the local files a benchmark command reads have to exist. *)
Valid(c) ==
  c.op = "benchmark" => \A f \in (c.base \cup {c.load}) \ (Blobs \cup {None}) : disk[f] # Absent

(***************************************************************************)
(* The scenarios and hosts that the options select, or all.                *)
(***************************************************************************)
SelectedScenarios(o) ==
  IF o.scenarios = {} THEN AvailableScenarios ELSE Selected(AvailableScenarios, o.scenarios)
SelectedHosts(o) ==
  IF o.hosts = {} THEN AvailableHosts ELSE Selected(AvailableHosts, MatchedBy(o.hosts, AvailableHosts))

Total(f) == FoldLeft(LAMBDA sum, x : sum + x, 0, f)

(***************************************************************************)
(* The mean total time of a measurement, as a sum and a count, and whether *)
(* one is at least a tenth above another.                                  *)
(***************************************************************************)
SumOf(samples) == Total([i \in DOMAIN samples |-> runs[samples[i]].speed])

Slower(sum, n, baseSum, baseN) == 10 * sum * baseN >= 11 * baseSum * n

(* Mutant: whatever the samples time. *)
OutOfRangeAnyKey(b, base) ==
  \E i \in DOMAIN b.measurements, j \in DOMAIN base.measurements :
    LET m == b.measurements[i]
        n == base.measurements[j]
    IN  /\ SameName(m, n)
        /\ Slower(SumOf(m.samples), Len(m.samples), SumOf(n.samples), Len(n.samples))

OutOfRange(b, base) ==
  \E i \in DOMAIN b.measurements, j \in DOMAIN base.measurements :
    LET m == b.measurements[i]
        n == base.measurements[j]
    IN  /\ SameName(m, n)
        /\ TotalTime \in m.keys \cap n.keys
        /\ Slower(SumOf(m.samples), Len(m.samples), SumOf(n.samples), Len(n.samples))
-----------------------------------------------------------------------------
Init ==
  /\ disk = [f \in Files |-> Absent]
  /\ cmd = Idle /\ pc = "ended"
  /\ data = None /\ bases = <<>> /\ written = <<>>
  /\ exit = "none" /\ reported = FALSE
  /\ runs = <<>> /\ begun = 0

Begin(c) ==
  /\ pc = "ended" /\ begun < MaxCommands
  /\ Valid(c)
  /\ cmd' = c /\ pc' = "read"
  /\ begun' = begun + 1
  /\ data' = None /\ bases' = <<>> /\ written' = <<>>
  /\ exit' = "none" /\ reported' = FALSE
  /\ UNCHANGED <<disk, runs>>

(* The process ends: main calls process.exit whatever is still going on. *)
End(code, said) ==
  /\ pc' = "ended" /\ exit' = code /\ reported' = said
  /\ UNCHANGED <<disk, cmd, data, bases, written, runs, begun>>

Saving(b) ==
  /\ data' = b
  /\ pc' = "save"
  /\ written' = [f \in cmd.outs |-> "todo"]
-----------------------------------------------------------------------------
(***************************************************************************)
(* benchmark                                                               *)
(***************************************************************************)
Measure ==
  /\ pc = "read" /\ cmd.op = "benchmark" /\ cmd.load = None
  /\ Len(runs) < MaxRuns
  /\ \E x \in Builds :
       LET b == Benchmark(SelectedScenarios(cmd.options), SelectedHosts(cmd.options),
                          x.repository, x.keys, Len(runs) + 1)
       IN  /\ data' = b
           /\ runs' = Append(runs, [pairs |-> b.measurements, keys |-> x.keys, speed |-> x.speed])
  /\ pc' = "baselines"
  /\ UNCHANGED <<disk, cmd, bases, written, exit, reported, begun>>

Load ==
  /\ pc = "read" /\ cmd.op = "benchmark" /\ cmd.load # None
  /\ Readable(cmd.load)
  /\ data' = Filter(Parsed(disk[cmd.load]), cmd.options.scenarios, cmd.options.hosts)
  /\ pc' = "baselines"
  /\ UNCHANGED <<disk, cmd, bases, written, exit, reported, runs, begun>>

(* Only now, after measuring, are the baselines read. *)
LoadBaselines ==
  /\ pc = "baselines"
  /\ \A f \in cmd.base : Readable(f)
  /\ bases' = [f \in cmd.base |-> Parsed(disk[f])]
  /\ Saving(data)
  /\ UNCHANGED <<disk, cmd, exit, reported, runs, begun>>

(***************************************************************************)
(* The comparison and its range error come after the saves, and only when  *)
(* something is printed.                                                   *)
(***************************************************************************)
Prints == cmd.outs = {} \/ cmd.shows

Alarms ==
  /\ Prints /\ cmd.gate
  /\ \E f \in cmd.base :
       OutOfRange(data, Filter(bases[f], cmd.options.scenarios, cmd.options.hosts))

Compare ==
  /\ pc = "compare"
  /\ IF cmd.op = "benchmark" /\ Alarms THEN End("-1", TRUE) ELSE End("0", FALSE)
-----------------------------------------------------------------------------
(***************************************************************************)
(* merge: a failure is printed, and the command ends well all the same.    *)
(***************************************************************************)
MergeFiles ==
  /\ pc = "read" /\ cmd.op = "merge"
  /\ \A i \in DOMAIN cmd.ins : Readable(cmd.ins[i])
  /\ LET b == Parsed(disk[cmd.ins[1]])
         o == Parsed(disk[cmd.ins[2]])
     IN  IF Mergeable(b, o)
         THEN Saving(Merge(b, o)) /\ UNCHANGED <<disk, cmd, bases, exit, reported, runs, begun>>
         ELSE End("0", TRUE)
-----------------------------------------------------------------------------
(***************************************************************************)
(* patch: a measurement of the patch has no scenarioIndex, so its scenario *)
(* is undefined and the first use of it throws.  A patch that is left      *)
(* without measurements, by its filter or from the start, is written: the  *)
(* three lists of what it adds replace those of the benchmark.             *)
(***************************************************************************)
Patch ==
  /\ pc = "read" /\ cmd.op = "patch"
  /\ Readable(cmd.benchmark) /\ Readable(cmd.patch)
  /\ LET p == Filter(Parsed(disk[cmd.patch]), cmd.options.scenarios, cmd.options.hosts)
     IN  IF p.measurements # <<>> THEN End("1", FALSE)
         ELSE /\ Saving([Parsed(disk[cmd.benchmark]) EXCEPT
                           !.hosts = <<>>, !.scenarios = <<>>,
                           !.measurements = <<>>, !.from = NoRuns])
              /\ UNCHANGED <<disk, cmd, bases, exit, reported, runs, begun>>
-----------------------------------------------------------------------------
(***************************************************************************)
(* Saving.  A local file is truncated, then written.  A blob is uploaded   *)
(* with the number of characters as its length: what is not ASCII is cut.  *)
(***************************************************************************)
Wrote(f, how, content) ==
  /\ written' = [written EXCEPT ![f] = how]
  /\ disk' = [disk EXCEPT ![f] = content]
  /\ UNCHANGED <<cmd, pc, data, bases, exit, reported, runs, begun>>

Truncate(f) ==
  /\ pc = "save" /\ f \in cmd.outs \ Blobs /\ written[f] = "todo"
  /\ Wrote(f, "open", Torn)

Write(f) ==
  /\ pc = "save" /\ f \in cmd.outs /\ written[f] = "open"
  /\ Wrote(f, "done", data)

Uploaded(b) == IF b.repository \in PlainRepositories THEN b ELSE Torn

Upload(f) ==
  /\ pc = "save" /\ f \in cmd.outs \cap Blobs /\ written[f] = "todo"
  /\ Wrote(f, "done", Uploaded(data))

(* Mutant: the first save that ends is enough. *)
SavesDoneOne == cmd.outs = {} \/ \E f \in cmd.outs : written[f] = "done"

SavesDone == \A f \in cmd.outs : written[f] = "done"

Saved ==
  /\ pc = "save" /\ SavesDone
  /\ pc' = "compare"
  /\ UNCHANGED <<disk, cmd, data, bases, written, exit, reported, runs, begun>>
-----------------------------------------------------------------------------
(***************************************************************************)
(* Reading, measuring or writing fails.  Benchmark and patch let the error *)
(* through to main, merge prints it.                                       *)
(***************************************************************************)
Fails ==
  /\ pc \in {"read", "baselines", "save"}
  /\ IF cmd.op = "merge" THEN End("0", TRUE) ELSE End("1", FALSE)

Killed ==
  /\ pc # "ended"
  /\ End("killed", FALSE)

Next ==
  \/ \E c \in Commands : Begin(c)
  \/ Measure \/ Load \/ LoadBaselines \/ Compare
  \/ MergeFiles \/ Patch
  \/ \E f \in Files : Truncate(f) \/ Write(f) \/ Upload(f)
  \/ Saved
  \/ Fails \/ Killed

Spec == Init /\ [][Next]_vars
-----------------------------------------------------------------------------
MeasurementType ==
  [scenario : ToSet(AvailableScenarios), host : ToSet(AvailableHosts),
   hostIndex : 1..Len(AvailableHosts), keys : SUBSET UNION {x.keys : x \in Builds}, samples : Seq(Runs)]

BenchmarkType ==
  [repository : {x.repository : x \in Builds},
   scenarios : Seq(ToSet(AvailableScenarios)),
   hosts : Seq(ToSet(AvailableHosts)),
   measurements : Seq(MeasurementType),
   from : [Runs -> Nat]]

(* Files hold benchmarks or nothing that can be read, and what a command *)
(* has in memory is a benchmark whose hosts are among its own.           *)
TypeOK ==
  /\ disk \in [Files -> BenchmarkType \cup {Absent, Torn}]
  /\ cmd \in Commands \cup {Idle}
  /\ pc \in {"ended", "read", "baselines", "save", "compare"}
  /\ data \in BenchmarkType \cup {None}
  /\ \A f \in DOMAIN bases : f \in Files /\ bases[f] \in BenchmarkType
  /\ \A f \in DOMAIN written : f \in cmd.outs /\ written[f] \in {"todo", "open", "done"}
  /\ exit \in {"none", "0", "1", "-1", "killed"}
  /\ reported \in BOOLEAN
  /\ Len(runs) \in 0..MaxRuns
  /\ begun \in 0..MaxCommands

Occurrences(x, s) == Cardinality({i \in DOMAIN s : s[i] = x})

(* How many measurements of run k have the name of m: more than one if a *)
(* scenario is there twice.                                              *)
Pairs(k, m) == Cardinality({i \in DOMAIN runs[k].pairs : SameName(runs[k].pairs[i], m)})

Measured == UNION {ToSet(runs[k].pairs) : k \in DOMAIN runs}

Contents == {disk[f] : f \in {g \in Files : Readable(g)}}

(* The position that a measurement keeps in a file is that of its own host *)
(* in the file's list, unless a host without a version took it.            *)
HostIndexResolves(b, m) ==
  /\ m.hostIndex \in DOMAIN b.hosts
  /\ \/ b.hosts[m.hostIndex] = m.host
     \/ b.hosts[m.hostIndex] = [m.host EXCEPT !.version = None]

(* However files are merged, each holds for a scenario and a host exactly *)
(* the samples that were taken there, as often as their run was merged    *)
(* into it, and no others; and each measurement still says which host.    *)
SamplesAccounted ==
  \A b \in Contents :
    /\ \A m \in Measured, k \in DOMAIN runs :
         Total([i \in DOMAIN b.measurements |->
                  IF SameName(b.measurements[i], m)
                  THEN Occurrences(k, b.measurements[i].samples) ELSE 0])
           = b.from[k] * Pairs(k, m)
    /\ \A n \in ToSet(b.measurements) :
         HostIndexResolves(b, n) /\ \E m \in Measured : SameName(m, n)

(* A command that ends without an error has left its whole result in each *)
(* of its outputs; except a blob of text that is not ASCII.               *)
SavedOrReported ==
  pc = "ended" /\ (exit = "-1" \/ (exit = "0" /\ ~reported)) =>
    \A f \in cmd.outs :
      disk[f] = data \/ (f \in Blobs /\ data.repository \notin PlainRepositories)

(* The sum and the number of the total times taken for m by the runs that *)
(* went into b: from the history, not from the file.                      *)
Weight(b, m, k) == IF k \in DOMAIN runs /\ TotalTime \in runs[k].keys THEN b.from[k] * Pairs(k, m) ELSE 0
TrueCount(b, m) == Total([k \in Runs |-> Weight(b, m, k)])
TrueSum(b, m) == Total([k \in Runs |-> IF k \in DOMAIN runs THEN Weight(b, m, k) * runs[k].speed ELSE 0])

TrulySlower ==
  \E f \in cmd.base, m \in Measured :
    /\ TrueCount(data, m) > 0 /\ TrueCount(bases[f], m) > 0
    /\ Slower(TrueSum(data, m), TrueCount(data, m), TrueSum(bases[f], m), TrueCount(bases[f], m))

(* Exit code -1 says that some scenario has become slower on some host, by *)
(* what was measured there.                                                *)
AlarmIsRight == exit = "-1" => TrulySlower

(* "Exit with a negative error code if the benchmark is out of the          *)
(* acceptable range from the baseline" (benchmark/index.ts:293).            *)
AlarmRaised ==
  pc = "ended" /\ exit = "0" /\ cmd.op = "benchmark" /\ cmd.gate => ~TrulySlower
=============================================================================
