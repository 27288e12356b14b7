---------------------------- MODULE SetupPipeline ----------------------------
(***************************************************************************)
(* The job Setup of build/benchmark.yml: setupPipeline reads the preset    *)
(* and its arguments and plans the jobs of each agent; then the compilers  *)
(* to compare are checked out and built, one after the other in one clone. *)
(*                                                                         *)
(* Left out are the amounts of the costs, which are printed, the names of  *)
(* the commits, and the number of warmups, which is the same everywhere.   *)
(***************************************************************************)
EXTENDS Naturals, SequencesExt

CONSTANTS
    HostLists,      \* what may follow hosts=, each as a sequence
    Sanitized,      \* sanitizeJobName of each host
    NumCommits,     \* the history is 1 .. NumCommits, and each is the parent of the next
    MaxParts        \* bound on the parts of TSPERF_PRESET

KnownHosts == DOMAIN Sanitized
Commits == 1 .. NumCommits

(* What git is asked for: HEAD, its parent, a commit by its hash, or nothing. *)
HEAD == [by |-> "head", n |-> 0]
ParentOfHEAD == [by |-> "head", n |-> 1]
Hash(c) == [by |-> "hash", n |-> c]
NoCommit == [by |-> "none", n |-> 0]

RevParse(rev, at) == IF rev.by = "head" THEN at - rev.n ELSE rev.n

(* Hosts whose names differ only in other characters would share their jobs. *)
ASSUME SetupAssumption ==
    /\ NumCommits \in Nat /\ NumCommits >= 2
    /\ MaxParts \in Nat
    /\ {"node20", "node18", "bun", "vscode", "native"} \subseteq KnownHosts
    /\ \A g, h \in KnownHosts : Sanitized[g] = Sanitized[h] => g = h
    /\ HostLists \subseteq Seq(KnownHosts) \ {<<>>}

VARIABLES
    ref,            \* what REF is: a pull request, a branch to upload for, or another
    baselining,     \* USE_BASELINE_MACHINE
    implementation, \* of the TypeScript in the clone
    parts,          \* the parts that have been read
    parameters,     \* Parameters
    step,           \* the step that is next, or the result
    matrix,         \* the jobs of each agent, by name
    processKinds,   \* TSPERF_PROCESS_KINDS
    head,           \* the commit that is checked out
    built           \* the commit of each compiler, or 0 if it is not built

plan == <<matrix, processKinds>>
clone == <<head, built>>
setupVars == <<ref, baselining, implementation, parts, parameters, step, plan, clone>>

isPr == ref = "pull"
shouldUpload == ref = "main" /\ baselining
isCorsa == implementation = "corsa"

-----------------------------------------------------------------------------
Scenario(kind, name, agent, runIn) == [kind |-> kind, name |-> name, agent |-> agent, runIn |-> runIn]
Always == {"baseline", "onDemand"}

AllScenarios == <<
    Scenario("tsc", "angular-1", "ts-perf1", Always),
    Scenario("tsc", "Compiler-Unions", "ts-perf2", Always),
    Scenario("tsc", "vscode", "ts-perf3", Always),
    Scenario("tsc", "ts-pre-modules", "ts-perf1", Always),
    Scenario("tsc", "strada-compiler", "ts-perf1", Always),
    Scenario("tsc", "strada-build-src", "ts-perf2", Always),
    Scenario("tsc", "self-build-src-public-api", "ts-perf2", Always),
    Scenario("tsc", "mui-docs", "ts-perf4", {"onDemand"}),
    Scenario("tsc", "mui-docs-1", "ts-perf4", {"baseline"}),
    Scenario("tsc", "webpack", "ts-perf3", {"onDemand"}),
    Scenario("tsc", "webpack-1", "ts-perf3", {"baseline"}),
    Scenario("tsc", "xstate-main", "ts-perf4", {"onDemand"}),
    Scenario("tsc", "xstate-main-1", "ts-perf4", {"baseline"}),
    Scenario("tsserver", "Compiler-UnionsTSServer", "ts-perf1", Always),
    Scenario("tsserver", "CompilerTSServer", "ts-perf3", Always),
    Scenario("tsserver", "xstate-main-1-tsserver", "ts-perf4", Always),
    Scenario("lsp", "Compiler-UnionsLSP", "ts-perf1", Always),
    Scenario("lsp", "CompilerLSP", "ts-perf3", Always),
    Scenario("lsp", "xstate-main-1-LSP", "ts-perf4", Always),
    Scenario("startup", "tsc-startup", "ts-perf1", Always),
    Scenario("startup", "tsgo-startup", "ts-perf1", Always),
    Scenario("startup", "tsserver-startup", "ts-perf2", Always),
    Scenario("startup", "lsp-startup", "ts-perf2", Always),
    Scenario("startup", "tsserverlibrary-startup", "ts-perf4", Always),
    Scenario("startup", "typescript-startup", "ts-perf4", Always) >>

JobKinds == {"tsc", "tsserver", "lsp", "startup"}
Agents == {"any"} \cup {s.agent : s \in ToSet(AllScenarios)}
DefaultIterations == 6
CorsaIterations == 12

PresetNames == {"baseline", "full", "regular", "public", "tsc-only", "faster", "tsserver-only",
                "startup-only", "bun", "vscode"}

(* The presets that keep to one kind, and the hosts on which a preset measures *)
(* a scenario.                                                                 *)
OnlyKind == ("tsc-only" :> "tsc") @@ ("faster" :> "tsc") @@ ("tsserver-only" :> "tsserver")
            @@ ("startup-only" :> "startup")

PresetHosts(preset, s) ==
    CASE preset \in {"baseline", "full"} /\ s.kind = "tsc" -> <<"node20", "node18">>
      [] preset = "bun" ->
            IF s.kind = "tsc" \/ (s.kind = "startup" /\ s.name # "tsserver-startup")
            THEN <<"bun">> ELSE <<>>
      [] preset = "vscode" -> <<"vscode">>
      [] preset \in DOMAIN OnlyKind /\ s.kind # OnlyKind[preset] -> <<>>
      [] OTHER -> IF s.kind = "lsp" THEN <<"native">> ELSE <<"node18">>

PresetIterations(preset, s) ==
    IF preset = "bun" /\ s.kind = "tsc" THEN DefaultIterations * 2 ELSE DefaultIterations

RunsIn(preset, s) == (IF preset = "baseline" THEN "baseline" ELSE "onDemand") \in s.runIn

Measured(s, host, iterations) == [scenario |-> s, host |-> host, iterations |-> iterations]

(* What a preset yields. *)
Preset(preset) ==
    LET Yields(s) ==
            IF RunsIn(preset, s)
            THEN [i \in DOMAIN PresetHosts(preset, s) |->
                    Measured(s, PresetHosts(preset, s)[i], PresetIterations(preset, s))]
            ELSE <<>>
    IN  FlattenSeq([i \in DOMAIN AllScenarios |-> Yields(AllScenarios[i])])

-----------------------------------------------------------------------------
(* transformPreset. *)
CorsaStartup == {"tsgo-startup", "lsp-startup"}

Supported(s) ==
    IF isCorsa THEN s.kind # "tsserver" /\ s.name # "self-build-src-public-api"
                    /\ (s.kind = "startup" => s.name \in CorsaStartup)
               ELSE s.kind # "lsp" /\ s.name \notin CorsaStartup

(* Mutant: the hosts that are asked for are used with the native compiler too. *)
ScenarioHostsAsked(m) == IF parameters.hosts # <<>> THEN parameters.hosts ELSE <<m.host>>

ScenarioHosts(m) ==
    IF isCorsa THEN <<"native">>
    ELSE IF parameters.hosts # <<>> THEN parameters.hosts ELSE <<m.host>>

Worker(measured) ==
    LET Yields(m) ==
            IF Supported(m.scenario)
            THEN [i \in DOMAIN ScenarioHosts(m) |->
                    Measured(m.scenario, ScenarioHosts(m)[i],
                             IF isCorsa THEN CorsaIterations ELSE m.iterations)]
            ELSE <<>>
    IN  FlattenSeq([i \in DOMAIN measured |-> Yields(measured[i])])

(* A copy of another is not yielded, nor is the other. *)
Kept(all) == {i \in DOMAIN all : \A j \in DOMAIN all \ {i} : all[j] # all[i]}

planned == Worker(Preset(parameters.preset))

-----------------------------------------------------------------------------
Agent(m) == IF baselining THEN m.scenario.agent ELSE "any"

JobName(m) == <<m.scenario.kind, Sanitized[m.host], m.scenario.name>>

Job(m) == [kind |-> m.scenario.kind, name |-> JobName(m), host |-> m.host,
           scenario |-> m.scenario.name, iterations |-> m.iterations]

(* The matrix of an agent: of two jobs of one name the later one stays. *)
MatrixOf(all, agent) ==
    LET mine == {i \in Kept(all) : Agent(all[i]) = agent} IN
    [n \in {JobName(all[i]) : i \in mine} |->
        Job(all[CHOOSE i \in mine : JobName(all[i]) = n
                    /\ \A j \in mine : JobName(all[j]) = n => j <= i])]

-----------------------------------------------------------------------------
SetupInit ==
    /\ ref \in {"pull", "main", "other"}
    /\ baselining \in BOOLEAN
    /\ implementation \in {"strada", "corsa"}
    /\ parts = 0
    /\ parameters = [preset |-> IF isPr THEN "regular" ELSE "baseline",
                     predictable |-> FALSE, hosts |-> <<>>,
                     isComparison |-> isPr, isCustomCommitRange |-> FALSE,
                     baselineCommit |-> IF isPr THEN ParentOfHEAD ELSE HEAD,
                     newCommit |-> IF isPr THEN HEAD ELSE NoCommit]
    /\ step = "parse"
    /\ matrix = [a \in Agents |-> <<>>]
    /\ processKinds = {}
    /\ head = NumCommits
    /\ built = [new |-> 0, baseline |-> 0]

(* Mutant: the range is not marked as one that was asked for. *)
CommitsAskedUnmarked(p, baseline, new) ==
    [p EXCEPT !.baselineCommit = baseline, !.newCommit = new, !.isComparison = new # NoCommit]

(* commits=A...B or commits=A. *)
CommitsAsked(p, baseline, new) ==
    [p EXCEPT !.baselineCommit = baseline, !.newCommit = new, !.isComparison = new # NoCommit,
              !.isCustomCommitRange = TRUE]

(* One part of the input: the name of a preset if it is the first, or an argument; *)
(* what is neither is passed over.                                                 *)
ReadPart ==
    /\ step = "parse"
    /\ parts < MaxParts
    /\ parts' = parts + 1
    /\ \/ parts = 0 /\ \E p \in PresetNames : parameters' = [parameters EXCEPT !.preset = p]
       \/ \E b \in BOOLEAN : parameters' = [parameters EXCEPT !.predictable = b]
       \/ \E l \in HostLists : parameters' = [parameters EXCEPT !.hosts = @ \o l]
       \/ \E baseline, new \in Commits :
            parameters' = CommitsAsked(parameters, Hash(baseline), Hash(new))
       \/ \E baseline \in Commits : parameters' = CommitsAsked(parameters, Hash(baseline), NoCommit)
       \/ UNCHANGED parameters
    /\ UNCHANGED <<ref, baselining, implementation, step, plan, clone>>

(* A value is missing, the range has two dots, or git does not know a commit. *)
ReadFails ==
    /\ step = "parse"
    /\ parts < MaxParts
    /\ step' = "failed"
    /\ UNCHANGED <<ref, baselining, implementation, parts, parameters, plan, clone>>

(* The agent with the highest cost is looked for: of none it is Math.max() = -Infinity, *)
(* and prettyMilliseconds throws.                                                       *)
NothingToPrint == baselining /\ Kept(planned) = {}

(* The loop over what is left of the preset. *)
Plan ==
    /\ step = "parse"
    /\ ~NothingToPrint
    /\ step' = "switchToNew"
    /\ matrix' = [a \in Agents |-> MatrixOf(planned, a)]
    /\ processKinds' = {planned[i].scenario.kind : i \in Kept(planned)}
    /\ UNCHANGED <<ref, baselining, implementation, parts, parameters, clone>>

PlanFails ==
    /\ step = "parse"
    /\ NothingToPrint
    /\ step' = "failed"
    /\ UNCHANGED <<ref, baselining, implementation, parts, parameters, plan, clone>>

-----------------------------------------------------------------------------
(* Mutant: the baseline is built first. *)
BuildStepsBaselineFirst == <<"switchToBaseline", "buildBaseline", "switchToNew", "buildNew", "publish">>

(* The steps after setupPipeline; some are skipped. *)
BuildSteps == <<"switchToNew", "buildNew", "switchToBaseline", "buildBaseline", "publish">>

Skipped(at) ==
    \/ at \in {"switchToNew", "buildNew"} /\ ~parameters.isComparison
    \/ at = "switchToBaseline" /\ parameters.baselineCommit = HEAD

After(at) ==
    LET i == CHOOSE i \in DOMAIN BuildSteps : BuildSteps[i] = at IN
    IF i = Len(BuildSteps) THEN "succeeded" ELSE BuildSteps[i + 1]

BuildStep ==
    /\ step \in ToSet(BuildSteps)
    /\ step' = After(step)
    /\ IF Skipped(step) THEN UNCHANGED clone
       ELSE /\ head' = CASE step = "switchToNew"      -> RevParse(parameters.newCommit, head)
                          [] step = "switchToBaseline" -> RevParse(parameters.baselineCommit, head)
                          [] OTHER                   -> head
            /\ built' = CASE step = "buildNew"      -> [built EXCEPT !.new = head]
                           [] step = "buildBaseline" -> [built EXCEPT !.baseline = head]
                           [] OTHER                -> built
    /\ UNCHANGED <<ref, baselining, implementation, parts, parameters, plan>>

BuildFails ==
    /\ step \in ToSet(BuildSteps)
    /\ ~Skipped(step)
    /\ step' = "failed"
    /\ UNCHANGED <<ref, baselining, implementation, parts, parameters, plan, clone>>

Ended == step \in {"succeeded", "failed"} /\ UNCHANGED setupVars

SetupNext == ReadPart \/ ReadFails \/ Plan \/ PlanFails \/ BuildStep \/ BuildFails \/ Ended

SetupSpec == SetupInit /\ [][SetupNext]_setupVars

-----------------------------------------------------------------------------
JobsOf(agent) == Range(matrix[agent])

(* How often a scenario is asked for on a host. *)
TimesAsked(s, h) ==
    LET Times(hosts) == Cardinality({i \in DOMAIN hosts : hosts[i] = h})
        asked == PresetHosts(parameters.preset, s)
        given == IF isCorsa THEN <<"native">> ELSE parameters.hosts
    IN  IF ~RunsIn(parameters.preset, s) \/ ~Supported(s) THEN 0
        ELSE IF given = <<>> THEN Times(asked)
        ELSE Len(asked) * Times(given)

(* What is asked for once is a job of one agent, its own one on the baseline machines; *)
(* nothing is a job that is not asked for or that is one twice; and results are merged *)
(* of just the kinds that have jobs.  (Of what is asked for twice there is no job.)    *)
PlannedAsAsked ==
    step = "succeeded" =>
        /\ \A s \in ToSet(AllScenarios), h \in KnownHosts :
            LET jobs == {job \in Agents \X UNION {JobsOf(a) : a \in Agents} :
                            /\ job[2] \in JobsOf(job[1])
                            /\ job[2].scenario = s.name /\ job[2].host = h}
            IN  /\ Cardinality(jobs) <= 1
                /\ TimesAsked(s, h) = 0 => jobs = {}
                /\ TimesAsked(s, h) = 1 => \E j \in JobsOf(IF baselining THEN s.agent ELSE "any") :
                        <<j.scenario, j.host, j.kind>> = <<s.name, h, s.kind>>
        /\ processKinds = {j.kind : j \in UNION {JobsOf(a) : a \in Agents}}

(* What is built is what the parameters say of the clone as it was: the new compiler *)
(* from the new commit if there is a comparison, the baseline from the baseline      *)
(* commit, although HEAD moves in between.                                           *)
BuildsWhatIsAsked ==
    step = "succeeded" =>
        built = [new      |-> IF parameters.isComparison THEN RevParse(parameters.newCommit, NumCommits)
                              ELSE 0,
                 baseline |-> RevParse(parameters.baselineCommit, NumCommits)]

(* The pipeline, of which this is the first job: nothing else has run yet. *)
Succeeded == step = "succeeded"
PossibleJobs == {Job(Measured(s, h, n)) : s \in ToSet(AllScenarios), h \in KnownHosts,
                                          n \in {DefaultIterations, DefaultIterations * 2}}

Pipeline == INSTANCE BenchmarkPipeline WITH
    Jobs <- PossibleJobs, Kinds <- JobKinds, Kind <- [j \in PossibleJobs |-> j.kind],
    MaxRetries <- 0, isPR <- isPr,
    setup <- IF step \in {"succeeded", "failed"} THEN step ELSE "running",
    comparison <- Succeeded /\ parameters.isComparison,
    custom <- Succeeded /\ parameters.isCustomCommitRange,
    matrix <- [a \in Agents |-> IF Succeeded THEN JobsOf(a) ELSE {}],
    leg <- [j \in PossibleJobs |-> "waiting"], retries <- [j \in PossibleJobs |-> 0],
    files <- [j \in PossibleJobs |-> {}], published <- {},
    at <- [r \in {"ProcessResults", "OnFailedPRRun"} |-> "waiting"],
    ok <- [r \in {"ProcessResults", "OnFailedPRRun"} |-> TRUE],
    token <- [r \in {"ProcessResults", "OnFailedPRRun"} |-> "none"],
    merged <- [v \in {"new", "baseline"} |-> {}],
    isLatest <- FALSE, dated <- {}, latest <- {}, resultsPosted <- FALSE,
    failurePosted <- FALSE, canceled <- FALSE, stopped <- {}

(* This is what the pipeline assumes of its first job: disjoint matrices, and a pull *)
(* request that is compared unless other commits are asked for.                      *)
ImplementsSetup ==
    /\ Pipeline!Init
    /\ [][Pipeline!SetupSucceeds \/ Pipeline!SetupFails]_(Pipeline!vars)
=============================================================================
