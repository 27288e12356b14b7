--------------------------- MODULE BenchmarkPipeline ---------------------------
(***************************************************************************)
(* One run of build/benchmark.yml: Setup plans jobs for the agents, each   *)
(* job measures on its agent and publishes its files, ProcessResults merges *)
(* them and posts or uploads the outcome, and OnFailedPRRun tells the      *)
(* person who asked that it failed.                                        *)
(*                                                                         *)
(* Any step may fail and the run may be cancelled at any moment: a running *)
(* job then ends its current step and goes on with the steps that are      *)
(* declared always(), and a job that has not started evaluates its         *)
(* condition.  A step that fails may have had its effect.                  *)
(***************************************************************************)
EXTENDS Naturals, FiniteSets

CONSTANTS
    Agents,         \* the parameter AGENTS
    Jobs,           \* the jobs that a preset may ask for
    Kinds,          \* JobKind
    Kind,           \* TSPERF_JOB_KIND of each job
    MaxRetries      \* retryCountOnTaskFailure

ASSUME PipelineAssumption ==
    /\ Kind \in [Jobs -> Kinds]
    /\ MaxRetries \in Nat

VARIABLES
    isPR,           \* IS_PR
    shouldUpload,   \* SHOULD_UPLOAD
    setup,          \* result of the job Setup
    comparison,     \* TSPERF_IS_COMPARISON
    custom,         \* TSPERF_IS_CUSTOM_COMMIT_RANGE: no branch is known
    matrix,         \* the jobs of each agent
    leg,            \* step or result of each benchmark job
    retries,        \* of the step it is at
    files,          \* the benchmarks each job has saved
    published,      \* the jobs whose files are artifacts
    at,             \* step or result of ProcessResults and of OnFailedPRRun
    ok,             \* no step of them has failed
    token,          \* the GitHub App token of each of them
    merged,         \* the jobs in the merged files
    isLatest,       \* TSPERF_BLOB_LATEST
    dated,          \* kinds uploaded under the commit's name
    latest,         \* kinds uploaded as the latest of the ref
    resultsPosted,  \* "The results of the perf run you requested are in!"
    failurePosted,  \* "the perf run you requested failed."
    canceled,       \* the run has been cancelled
    stopped         \* those of the last two jobs that ran at that moment

planVars == <<isPR, shouldUpload, setup, comparison, custom, matrix>>
legVars == <<leg, retries, files, published>>
reportVars == <<at, ok, token, merged, isLatest, dated, latest, resultsPosted, failurePosted>>
vars == <<planVars, legVars, reportVars, canceled, stopped>>

Version == {"new", "baseline"}
LegStep == {"installHosts", "setUpNew", "runNew", "setUpBaseline", "runBaseline",
            "compare", "publish"}
Reporter == {"ProcessResults", "OnFailedPRRun"}
ReportStep == {"gather", "createToken", "merge", "publish", "comment", "checkLatest",
               "upload", "revoke"}
Result == {"succeeded", "failed", "canceled", "skipped"}

Planned == UNION {matrix[a] : a \in Agents}
ProcessKinds == {Kind[j] : j \in Planned}

Init ==
    /\ isPR \in BOOLEAN
    /\ shouldUpload \in BOOLEAN
    /\ ~(isPR /\ shouldUpload)
    /\ setup = "running"
    /\ comparison = FALSE
    /\ custom = FALSE
    /\ matrix = [a \in Agents |-> {}]
    /\ leg = [j \in Jobs |-> "waiting"]
    /\ retries = [j \in Jobs |-> 0]
    /\ files = [j \in Jobs |-> {}]
    /\ published = {}
    /\ at = [r \in Reporter |-> "waiting"]
    /\ ok = [r \in Reporter |-> TRUE]
    /\ token = [r \in Reporter |-> "none"]
    /\ merged = [v \in Version |-> {}]
    /\ isLatest = FALSE
    /\ dated = {}
    /\ latest = {}
    /\ resultsPosted = FALSE
    /\ failurePosted = FALSE
    /\ canceled = FALSE
    /\ stopped = {}

-----------------------------------------------------------------------------
(* Setup.  The preset and its arguments decide what is measured where; all of *)
(* it may have been filtered out.  A pull request is compared with its base   *)
(* unless a commit is given; only a given range compares without one.         *)
SetupSucceeds ==
    /\ setup = "running"
    /\ ~canceled
    /\ setup' = "succeeded"
    /\ custom' \in BOOLEAN
    /\ comparison' \in IF custom' THEN BOOLEAN ELSE {isPR}
    /\ matrix' \in [Agents -> SUBSET Jobs]
    /\ \A a, b \in Agents : a # b => matrix'[a] \cap matrix'[b] = {}
    /\ UNCHANGED <<isPR, shouldUpload, legVars, reportVars, canceled, stopped>>

SetupFails ==
    /\ setup = "running"
    /\ setup' = IF canceled THEN "canceled" ELSE "failed"
    /\ UNCHANGED <<isPR, shouldUpload, comparison, custom, matrix, legVars, reportVars,
                   canceled, stopped>>

-----------------------------------------------------------------------------
(* A leg of the matrix starts on its agent, or is not to run any more. *)
LegStarts(j) ==
    /\ j \in Planned
    /\ leg[j] = "waiting"
    /\ leg' = [leg EXCEPT ![j] = IF canceled THEN "canceled" ELSE "installHosts"]
    /\ UNCHANGED <<planVars, retries, files, published, reportVars, canceled, stopped>>

Retried == {"installHosts", "setUpNew", "setUpBaseline"}

AfterLegStep(step) ==
    CASE step = "installHosts"  -> IF comparison THEN "setUpNew" ELSE "setUpBaseline"
      [] step = "setUpNew"      -> "runNew"
      [] step = "runNew"        -> "setUpBaseline"
      [] step = "setUpBaseline" -> "runBaseline"
      [] step = "runBaseline"   -> IF comparison THEN "compare" ELSE "publish"
      [] step = "compare"       -> "publish"
      [] step = "publish"       -> "succeeded"

LegStepPasses(j) ==
    /\ leg[j] \in LegStep
    /\ leg' = [leg EXCEPT ![j] = IF canceled THEN "canceled" ELSE AfterLegStep(@)]
    /\ retries' = [retries EXCEPT ![j] = 0]
    /\ files' = [files EXCEPT ![j] = @ \cup (CASE leg[j] = "runNew"      -> {"new"}
                                               [] leg[j] = "runBaseline" -> {"baseline"}
                                               [] OTHER                  -> {})]
    /\ published' = published \cup (IF leg[j] = "publish" THEN {j} ELSE {})
    /\ UNCHANGED <<planVars, reportVars, canceled, stopped>>

(* Mutant: tried again without end. *)
TriedAgainAlways(j) == ~canceled /\ leg[j] \in Retried

(* A failure is tried again where the step says so; else the leg has failed. *)
TriedAgain(j) == ~canceled /\ leg[j] \in Retried /\ retries[j] < MaxRetries

LegStepFails(j) ==
    /\ leg[j] \in LegStep
    /\ \/ /\ TriedAgain(j)
          /\ retries' = [retries EXCEPT ![j] = @ + 1]
          /\ UNCHANGED leg
       \/ /\ ~TriedAgain(j)
          /\ leg' = [leg EXCEPT ![j] = IF canceled THEN "canceled" ELSE "failed"]
          /\ UNCHANGED retries
    /\ UNCHANGED <<planVars, files, published, reportVars, canceled, stopped>>

(* Result of the matrix job of an agent.  An agent without jobs is skipped, as *)
(* are all of them when Setup has not succeeded.                               *)
BenchmarkResult(a) ==
    IF matrix[a] = {} THEN "skipped"
    ELSE IF \E j \in matrix[a] : leg[j] = "failed" THEN "failed"
    ELSE IF \E j \in matrix[a] : leg[j] = "canceled" THEN "canceled"
    ELSE "succeeded"

BenchmarksEnded ==
    /\ setup # "running"
    /\ \A j \in Planned : leg[j] \in Result

BenchmarkFailed == setup = "failed" \/ \E a \in Agents : BenchmarkResult(a) = "failed"

-----------------------------------------------------------------------------
(* A waiting reporter starts or is skipped. *)
Launch(r, wanted) ==
    /\ at[r] = "waiting"
    /\ at' = [at EXCEPT ![r] = IF wanted THEN "gather" ELSE "skipped"]
    /\ UNCHANGED <<planVars, legVars, ok, token, merged, isLatest, dated, latest,
                   resultsPosted, failurePosted, canceled, stopped>>

(* Mutants: the condition forgets that the run may be cancelled; it is left to *)
(* its default, succeeded().                                                    *)
ProcessWantedCanceled == ~BenchmarkFailed
ProcessWantedSucceeded ==
    setup = "succeeded" /\ \A a \in Agents : BenchmarkResult(a) = "succeeded"

(* "If any dependency was skipped [...], succeeded() will be false." *)
ProcessWanted == ~BenchmarkFailed /\ ~canceled

ProcessStarts ==
    /\ BenchmarksEnded
    /\ Launch("ProcessResults", ProcessWanted)

ReportReady == BenchmarksEnded /\ at["ProcessResults"] \in Result

Failure == BenchmarkFailed \/ at["ProcessResults"] = "failed"

ReportStarts ==
    /\ ReportReady
    /\ Launch("OnFailedPRRun", Failure /\ isPR)

(* Mutant: the token is revoked only if everything went well. *)
AfterFailureEnd == "failed"

(* Where a job goes on after a step has failed: at the one that is always(). *)
AfterFailure == "revoke"

AfterReportStep(r) ==
    CASE at[r] = "gather"      -> "createToken"
      [] at[r] = "createToken" -> IF r = "ProcessResults" THEN "merge" ELSE "comment"
      [] at[r] = "merge"       -> "publish"
      [] at[r] = "publish"     -> IF isPR THEN "comment"
                                  ELSE IF shouldUpload THEN "checkLatest" ELSE "revoke"
      [] at[r] = "comment"     -> "revoke"
      [] at[r] = "checkLatest" -> "upload"
      [] at[r] = "upload"      -> "revoke"

(* The current step ends; if the run was cancelled meanwhile, so does the job. *)
Pass(r) ==
    /\ at' = [at EXCEPT ![r] = IF r \in stopped THEN AfterFailure ELSE AfterReportStep(r)]
    /\ UNCHANGED ok

Fail(r) ==
    /\ at' = [at EXCEPT ![r] = AfterFailure]
    /\ ok' = [ok EXCEPT ![r] = FALSE]

(* Downloads, and the clone and build of the benchmark repository.  Without a *)
(* file to move, the step fails.                                              *)
Gather(r) ==
    /\ at[r] = "gather"
    /\ \/ /\ r = "ProcessResults" => \E j \in published : files[j] # {}
          /\ Pass(r)
       \/ Fail(r)
    /\ UNCHANGED <<planVars, legVars, token, merged, isLatest, dated, latest,
                   resultsPosted, failurePosted, canceled, stopped>>

(* GitHub makes the token, then the step puts it out; if it fails in between *)
(* there is a token that no later step has seen.                             *)
CreateToken(r) ==
    /\ at[r] = "createToken"
    /\ \/ token' = [token EXCEPT ![r] = "live"] /\ Pass(r)
       \/ \E t \in {"none", "unseen"} : token' = [token EXCEPT ![r] = t] /\ Fail(r)
    /\ UNCHANGED <<planVars, legVars, merged, isLatest, dated, latest,
                   resultsPosted, failurePosted, canceled, stopped>>

(* For each kind, the artifacts of one version; new ones in a comparison only. *)
Mergeable(v) == {j \in published : v \in files[j] /\ Kind[j] \in ProcessKinds}

VersionsMerged == IF comparison THEN Version ELSE {"baseline"}

Merge ==
    /\ at["ProcessResults"] = "merge"
    /\ \/ /\ \A v \in VersionsMerged, k \in ProcessKinds :
                \E j \in Mergeable(v) : Kind[j] = k
          /\ merged' = [v \in Version |-> IF v \in VersionsMerged THEN Mergeable(v) ELSE {}]
          /\ Pass("ProcessResults")
       \/ UNCHANGED merged /\ Fail("ProcessResults")
    /\ UNCHANGED <<planVars, legVars, token, isLatest, dated, latest,
                   resultsPosted, failurePosted, canceled, stopped>>

PublishMerged ==
    /\ at["ProcessResults"] = "publish"
    /\ Pass("ProcessResults") \/ Fail("ProcessResults")
    /\ UNCHANGED <<planVars, legVars, token, merged, isLatest, dated, latest,
                   resultsPosted, failurePosted, canceled, stopped>>

(* postPerfResult.js: the comment may be there although the script has failed. *)
Comment(r) ==
    /\ at[r] = "comment"
    /\ \/ Fail(r) /\ UNCHANGED <<resultsPosted, failurePosted>>
       \/ /\ Pass(r) \/ Fail(r)
          /\ resultsPosted' = (resultsPosted \/ r = "ProcessResults")
          /\ failurePosted' = (failurePosted \/ r = "OnFailedPRRun")
    /\ UNCHANGED <<planVars, legVars, token, merged, isLatest, dated, latest, canceled, stopped>>

CheckLatest ==
    /\ at["ProcessResults"] = "checkLatest"
    /\ \/ isLatest' \in BOOLEAN /\ Pass("ProcessResults")
       \/ UNCHANGED isLatest /\ Fail("ProcessResults")
    /\ UNCHANGED <<planVars, legVars, token, merged, dated, latest,
                   resultsPosted, failurePosted, canceled, stopped>>

(* The upload of kind k fails; its two blobs are saved in parallel. *)
UploadFails(k) ==
    /\ dated' \in {dated, IF custom THEN dated ELSE dated \cup {k}}
    /\ latest' \in {latest, IF isLatest /\ ~custom THEN latest \cup {k} ELSE latest}
    /\ Fail("ProcessResults")

UploadPasses(k) ==
    /\ ~custom
    /\ dated' = dated \cup {k}
    /\ latest' = IF isLatest THEN latest \cup {k} ELSE latest
    /\ IF dated' = ProcessKinds \/ "ProcessResults" \in stopped
       THEN Pass("ProcessResults")
       ELSE UNCHANGED <<at, ok>>

(* The loop over the kinds.  Without a branch to name the blob, it fails at once. *)
Upload ==
    /\ at["ProcessResults"] = "upload"
    /\ \E k \in ProcessKinds \ dated : UploadPasses(k) \/ UploadFails(k)
    /\ UNCHANGED <<planVars, legVars, token, merged, isLatest, resultsPosted, failurePosted,
                   canceled, stopped>>

(* A reporter ends with its last step, which fails without a token. *)
ReportResult(r, passed) ==
    IF r \in stopped THEN "canceled" ELSE IF ok[r] /\ passed THEN "succeeded" ELSE "failed"

Revoke(r) ==
    /\ at[r] = "revoke"
    /\ \/ /\ token[r] = "live"
          /\ token' = [token EXCEPT ![r] = "revoked"]
          /\ at' = [at EXCEPT ![r] = ReportResult(r, TRUE)]
       \/ /\ token' = [token EXCEPT ![r] = IF @ = "live" THEN "lost" ELSE @]
          /\ at' = [at EXCEPT ![r] = ReportResult(r, FALSE)]
    /\ UNCHANGED <<planVars, legVars, ok, merged, isLatest, dated, latest,
                   resultsPosted, failurePosted, canceled, stopped>>

-----------------------------------------------------------------------------
RunEnded == at["OnFailedPRRun"] \in Result

(* Someone cancels the run. *)
Cancel ==
    /\ ~canceled
    /\ ~RunEnded
    /\ canceled' = TRUE
    /\ stopped' = {r \in Reporter : at[r] \in ReportStep}
    /\ UNCHANGED <<planVars, legVars, reportVars>>

Ended == RunEnded /\ UNCHANGED vars

Setup == SetupSucceeds \/ SetupFails
Leg(j) == LegStarts(j) \/ LegStepPasses(j) \/ LegStepFails(j)
Process == ProcessStarts \/ Merge \/ PublishMerged \/ CheckLatest \/ Upload
Report(r) == Gather(r) \/ CreateToken(r) \/ Comment(r) \/ Revoke(r)

Next ==
    \/ Setup
    \/ \E j \in Jobs : Leg(j)
    \/ Process
    \/ ReportStarts
    \/ \E r \in Reporter : Report(r)
    \/ Cancel
    \/ Ended

Spec == Init /\ [][Next]_vars

(* Every step ends: those that do not are ended by timeoutInMinutes. *)
FairSpec ==
    /\ Spec
    /\ WF_vars(Setup)
    /\ \A j \in Jobs : WF_vars(Leg(j))
    /\ WF_vars(Process)
    /\ WF_vars(ReportStarts)
    /\ \A r \in Reporter : WF_vars(Report(r))

-----------------------------------------------------------------------------
TypeOK ==
    /\ isPR \in BOOLEAN /\ shouldUpload \in BOOLEAN /\ ~(isPR /\ shouldUpload)
    /\ setup \in {"running", "succeeded", "failed", "canceled"}
    /\ comparison \in BOOLEAN /\ custom \in BOOLEAN
    /\ matrix \in [Agents -> SUBSET Jobs]
    /\ leg \in [Jobs -> LegStep \cup Result \cup {"waiting"}]
    /\ retries \in [Jobs -> 0 .. MaxRetries]
    /\ files \in [Jobs -> SUBSET Version]
    /\ published \subseteq Jobs
    /\ at \in [Reporter -> ReportStep \cup Result \cup {"waiting"}]
    /\ ok \in [Reporter -> BOOLEAN]
    /\ token \in [Reporter -> {"none", "unseen", "live", "revoked", "lost"}]
    /\ merged \in [Version -> SUBSET Jobs]
    /\ isLatest \in BOOLEAN
    /\ dated \subseteq Kinds /\ latest \subseteq Kinds
    /\ resultsPosted \in BOOLEAN /\ failurePosted \in BOOLEAN
    /\ canceled \in BOOLEAN /\ stopped \subseteq Reporter

(* What is posted or uploaded was measured by every job of the plan, in both   *)
(* versions if it is a comparison: neither a failed job nor a cancelled one is *)
(* silently left out.  If the results are to be uploaded and the job succeeds, *)
(* no kind is missing, under the commit's name or as the latest.               *)
ResultsAreComplete ==
    /\ resultsPosted \/ dated # {} \/ latest # {} =>
        \A v \in VersionsMerged : merged[v] = Planned
    /\ shouldUpload /\ at["ProcessResults"] = "succeeded" =>
        /\ dated = ProcessKinds
        /\ latest = IF isLatest THEN ProcessKinds ELSE {}

(* The token is there for the steps that need it, and a job does not end with *)
(* a live one, whatever has failed and whenever the run was cancelled, unless  *)
(* the revocation itself failed ("lost"), or the step that made it has failed  *)
(* before it put it out ("unseen"): that one nobody can revoke.                *)
TokenCoversItsUses ==
    \A r \in Reporter :
        /\ at[r] \in {"comment", "checkLatest"} => token[r] = "live"
        /\ at[r] \in Result => token[r] # "live"

(* Who requests a run hears of it: a pull-request run that is not cancelled    *)
(* posts its results or its failure, unless the job that says so fails too.    *)
RequestAnswered ==
    isPR => <>( \/ resultsPosted \/ failurePosted \/ canceled
                \/ at["OnFailedPRRun"] = "failed" )
=============================================================================
