---------------------------- MODULE BenchmarkFile ----------------------------
(***************************************************************************)
(* What a benchmark file holds and the operations on it: the classes       *)
(* Benchmark, Measurement and Value of ts-perf/packages/api/src/model.     *)
(*                                                                         *)
(* A measurement belongs to a scenario and a host, has a position in the   *)
(* list of hosts, the keys of its values and its samples.  The samples of  *)
(* all its values are pushed together, so one sequence stands for them; a  *)
(* sample is the number of the run that took it.  The name of a            *)
(* measurement is its scenario and its host as they are displayed.         *)
(*                                                                         *)
(* scenarioIndex is left out: it is written to a file as scenarioArgs and  *)
(* never read back, so what is read from a file has none.                  *)
(*                                                                         *)
(* `from' is history, not data: how often each run went into the file.     *)
(***************************************************************************)
EXTENDS Integers, Sequences, SequencesExt

CONSTANTS
  None,        \* the version of a host that is only a path to an executable
  SampleKeys,  \* the keys of values that are read back (isSampleKey)
  MaxRuns      \* bound: how many runs measure

Runs == 1..MaxRuns
NoRuns == [k \in Runs |-> 0]

SameName(m, n) == m.scenario = n.scenario /\ m.host = n.host

(* Mutant: only a host with a version matches. *)
MatchesVersions(p, h) == p.name = h.name /\ p.version # None /\ p.version = h.version

(* A host of the list as a pattern: what it does not say, it does not ask. *)
Matches(p, h) == p.name = h.name /\ (p.version = None \/ p.version = h.version)

(* The elements of s that are in T, in their order. *)
Selected(s, T) == FoldLeft(LAMBDA r, x : IF x \in T THEN Append(r, x) ELSE r, <<>>, s)

MatchedBy(patterns, hosts) == {h \in ToSet(hosts) : \E p \in patterns : Matches(p, h)}

Deduped(s) == FoldLeft(LAMBDA r, t : IF t \in ToSet(r) THEN r ELSE Append(r, t), <<>>, s)

(***************************************************************************)
(* What measuring every scenario on every host makes.                      *)
(***************************************************************************)
Measurements(scenarios, hosts, keys, k) ==
  FlattenSeq([i \in DOMAIN scenarios |->
    [j \in DOMAIN hosts |->
      [scenario |-> scenarios[i], host |-> hosts[j], hostIndex |-> j,
       keys |-> keys, samples |-> <<k>>]]])

Benchmark(scenarios, hosts, repository, keys, k) ==
  [repository |-> repository, scenarios |-> scenarios, hosts |-> hosts,
   measurements |-> Measurements(scenarios, hosts, keys, k),
   from |-> [NoRuns EXCEPT ![k] = 1]]

(* Reading a file back keeps only the values whose keys are known. *)
Parsed(b) ==
  [b EXCEPT !.measurements =
    [i \in DOMAIN b.measurements |-> [b.measurements[i] EXCEPT !.keys = @ \cap SampleKeys]]]

(***************************************************************************)
(* Filtering acts only when scenarios and hosts are both given, and then   *)
(* looks the scenario of each measurement up by its scenarioIndex.  It is  *)
(* only called on what was read from a file, where no measurement has one, *)
(* and so keeps none.                                                      *)
(***************************************************************************)
Filter(b, scenarios, hosts) ==
  IF scenarios = {} \/ hosts = {} THEN b
  ELSE [b EXCEPT !.scenarios = Selected(@, scenarios),
                 !.hosts = Selected(@, MatchedBy(hosts, @)),
                 !.measurements = <<>>,
                 !.from = NoRuns]

(***************************************************************************)
(* Merging two files.  The measurements of both are given their place in   *)
(* the new list of hosts, then grouped by name, each group reduced to one  *)
(* measurement with the samples of all.                                    *)
(***************************************************************************)
MergedHosts(b, o) == Deduped(b.hosts \o o.hosts)

Reindexed(b, o) ==
  LET ms == b.measurements \o o.measurements
      hosts == MergedHosts(b, o)
  IN  [i \in DOMAIN ms |->
        [ms[i] EXCEPT !.hostIndex = SelectInSeq(hosts, LAMBDA p : Matches(p, ms[i].host))]]

MergeMeasurement(m, n) == [m EXCEPT !.samples = @ \o n.samples]

(* Mutant: hosts that differ only in their version are one. *)
GroupedByName(groups, m) ==
  LET g == SelectInSeq(groups, LAMBDA n : n.scenario = m.scenario /\ n.host.name = m.host.name)
  IN  IF g = 0 THEN Append(groups, m)
      ELSE [groups EXCEPT ![g] = MergeMeasurement(@, m)]

Grouped(groups, m) ==
  LET g == SelectInSeq(groups, LAMBDA n : SameName(n, m))
  IN  IF g = 0 THEN Append(groups, m)
      ELSE [groups EXCEPT ![g] = MergeMeasurement(@, m)]

(* Two files of different commits, or measurements with different values, *)
(* are refused: merge throws.                                              *)
Mergeable(b, o) ==
  /\ b.repository = o.repository
  /\ LET ms == Reindexed(b, o)
     IN  \A i, j \in DOMAIN ms :
           SameName(ms[i], ms[j]) => /\ ms[i].keys = ms[j].keys
                                     /\ ms[i].hostIndex = ms[j].hostIndex

Merge(b, o) ==
  [repository |-> b.repository,
   scenarios |-> Deduped(b.scenarios \o o.scenarios),
   hosts |-> MergedHosts(b, o),
   measurements |-> FoldLeft(Grouped, <<>>, Reindexed(b, o)),
   from |-> [k \in Runs |-> b.from[k] + o.from[k]]]
=============================================================================
