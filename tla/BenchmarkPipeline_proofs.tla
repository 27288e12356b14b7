----------------------- MODULE BenchmarkPipeline_proofs -----------------------
(***************************************************************************)
(* Proofs about BenchmarkPipeline, for any agents, jobs and kinds.         *)
(***************************************************************************)
EXTENDS BenchmarkPipeline, TLAPS

LEMMA TypeInit == Init => TypeOK
<1> SUFFICES ASSUME Init PROVE TypeOK
  OBVIOUS
<1>1. retries \in [Jobs -> 0 .. MaxRetries] /\ leg \in [Jobs -> LegStep \cup Result \cup {"waiting"}]
  BY PipelineAssumption DEF Init
<1>2. /\ ok \in [Reporter -> BOOLEAN]
      /\ token \in [Reporter -> {"none", "unseen", "live", "revoked", "lost"}]
      /\ at \in [Reporter -> ReportStep \cup Result \cup {"waiting"}]
  BY DEF Init
<1>3. /\ matrix \in [Agents -> SUBSET Jobs]
      /\ files \in [Jobs -> SUBSET Version]
      /\ merged \in [Version -> SUBSET Jobs]
  BY DEF Init
<1>4. QED
  BY <1>1, <1>2, <1>3 DEF Init, TypeOK

LEMMA KindsTyped == TypeOK => Planned \subseteq Jobs /\ ProcessKinds \subseteq Kinds
  BY PipelineAssumption DEF TypeOK, Planned, ProcessKinds

LEMMA SetupType == TypeOK /\ Setup => TypeOK'
  BY DEF Setup, SetupSucceeds, SetupFails, TypeOK, legVars, reportVars

LEMMA LegType == ASSUME TypeOK, NEW j \in Jobs, Leg(j) PROVE TypeOK'
<1>1. CASE LegStarts(j)
  <2>1. leg' \in [Jobs -> LegStep \cup Result \cup {"waiting"}]
    BY <1>1 DEF LegStarts, TypeOK, LegStep, Result
  <2>2. QED
    BY <1>1, <2>1 DEF LegStarts, TypeOK, planVars, reportVars
<1>2. CASE LegStepPasses(j)
  <2>1. \A step \in LegStep : AfterLegStep(step) \in LegStep \cup Result
    BY DEF AfterLegStep, LegStep, Result
  <2>2. leg' \in [Jobs -> LegStep \cup Result \cup {"waiting"}]
    BY <1>2, <2>1 DEF LegStepPasses, TypeOK, Result
  <2>3. retries' \in [Jobs -> 0 .. MaxRetries]
    BY <1>2, PipelineAssumption DEF LegStepPasses, TypeOK
  <2>4. files' \in [Jobs -> SUBSET Version]
    BY <1>2 DEF LegStepPasses, TypeOK, Version
  <2>5. QED
    BY <1>2, <2>2, <2>3, <2>4 DEF LegStepPasses, TypeOK, planVars, reportVars
<1>3. CASE LegStepFails(j)
  BY <1>3, PipelineAssumption DEF LegStepFails, TriedAgain, TypeOK, planVars, reportVars, Result
<1>4. QED
  BY <1>1, <1>2, <1>3 DEF Leg

(* What the end of a step does to the reporter's place. *)
LEMMA PassType ==
  ASSUME TypeOK, NEW r \in Reporter, at[r] \in ReportStep \ {"revoke"}, Pass(r)
  PROVE  /\ at' \in [Reporter -> ReportStep \cup Result \cup {"waiting"}]
         /\ ok' \in [Reporter -> BOOLEAN]
<1>1. AfterReportStep(r) \in ReportStep
  BY DEF AfterReportStep, ReportStep
<1>2. QED
  BY <1>1 DEF Pass, TypeOK, AfterFailure, ReportStep

LEMMA FailType ==
  ASSUME TypeOK, NEW r \in Reporter, Fail(r)
  PROVE  /\ at' \in [Reporter -> ReportStep \cup Result \cup {"waiting"}]
         /\ ok' \in [Reporter -> BOOLEAN]
  BY DEF Fail, TypeOK, AfterFailure, ReportStep

LEMMA LaunchType ==
  ASSUME TypeOK, NEW r \in Reporter, NEW wanted \in BOOLEAN, Launch(r, wanted)
  PROVE  TypeOK'
  BY DEF Launch, TypeOK, planVars, legVars, ReportStep, Result

LEMMA ReportType == ASSUME TypeOK, NEW r \in Reporter, Report(r) PROVE TypeOK'
<1>1. CASE Gather(r)
  BY <1>1, PassType, FailType DEF Gather, TypeOK, planVars, legVars, ReportStep
<1>2. CASE CreateToken(r)
  BY <1>2, PassType, FailType DEF CreateToken, TypeOK, planVars, legVars, ReportStep
<1>3. CASE Comment(r)
  <2>1. resultsPosted' \in BOOLEAN /\ failurePosted' \in BOOLEAN
    BY <1>3, Zenon DEF Comment, TypeOK
  <2>2. Pass(r) \/ Fail(r)
    BY <1>3 DEF Comment
  <2>3. QED
    BY <1>3, <2>1, <2>2, PassType, FailType DEF Comment, TypeOK, planVars, legVars, ReportStep
<1>4. CASE Revoke(r)
  BY <1>4 DEF Revoke, ReportResult, TypeOK, planVars, legVars, Result
<1>5. QED
  BY <1>1, <1>2, <1>3, <1>4 DEF Report

LEMMA ProcessType == TypeOK /\ Process => TypeOK'
<1> SUFFICES ASSUME TypeOK, Process PROVE TypeOK'
  OBVIOUS
<1>0. "ProcessResults" \in Reporter
  BY DEF Reporter
<1>1. CASE ProcessStarts
  BY <1>0, <1>1, LaunchType DEF ProcessStarts, ProcessWanted
<1>2. CASE Merge
  <2>1. \A v \in Version : Mergeable(v) \subseteq Jobs
    BY DEF Mergeable, TypeOK
  <2>2. merged' \in [Version -> SUBSET Jobs]
    BY <1>2, <2>1 DEF Merge, TypeOK
  <2>3. QED
    BY <1>0, <1>2, <2>2, PassType, FailType DEF Merge, TypeOK, planVars, legVars, ReportStep
<1>3. CASE PublishMerged
  BY <1>0, <1>3, PassType, FailType DEF PublishMerged, TypeOK, planVars, legVars, ReportStep
<1>4. CASE CheckLatest
  BY <1>0, <1>4, PassType, FailType DEF CheckLatest, TypeOK, planVars, legVars, ReportStep
<1>5. CASE Upload
  <2>1. PICK k \in ProcessKinds \ dated : UploadPasses(k) \/ UploadFails(k)
    BY <1>5 DEF Upload
  <2>2. k \in Kinds
    BY <2>1, KindsTyped
  <2>3. dated' \subseteq Kinds /\ latest' \subseteq Kinds
    BY <2>1, <2>2 DEF UploadPasses, UploadFails, TypeOK
  <2>4. /\ at' \in [Reporter -> ReportStep \cup Result \cup {"waiting"}]
        /\ ok' \in [Reporter -> BOOLEAN]
    BY <1>0, <1>5, <2>1, PassType, FailType DEF Upload, UploadPasses, UploadFails, TypeOK, ReportStep
  <2>5. QED
    BY <1>5, <2>3, <2>4 DEF Upload, TypeOK, planVars, legVars
<1>6. QED
  BY <1>1, <1>2, <1>3, <1>4, <1>5 DEF Process

LEMMA CancelType == TypeOK /\ Cancel => TypeOK'
  BY DEF Cancel, TypeOK, planVars, legVars, reportVars

LEMMA TypeStep == TypeOK /\ [Next]_vars => TypeOK'
<1> SUFFICES ASSUME TypeOK, [Next]_vars PROVE TypeOK'
  OBVIOUS
<1>1. CASE ReportStarts
  BY <1>1, LaunchType DEF ReportStarts, Failure, BenchmarkFailed, TypeOK, Reporter
<1>2. CASE UNCHANGED vars
  BY <1>2 DEF vars, planVars, legVars, reportVars, TypeOK
<1>3. QED
  BY <1>1, <1>2, SetupType, LegType, ReportType, ProcessType, CancelType DEF Next, Ended

(* For any agents, jobs, kinds and retries: no step is tried more often than   *)
(* retryCountOnTaskFailure allows, and the jobs take the steps they declare.   *)
THEOREM TypeCorrect == Spec => []TypeOK
  BY TypeInit, TypeStep, PTL DEF Spec

-----------------------------------------------------------------------------
(* Where each reporter's token is, by the step it is at. *)
TokenInv ==
    \A r \in Reporter :
        /\ at[r] \in {"waiting", "gather", "createToken", "skipped"} => token[r] = "none"
        /\ at[r] \in {"merge", "publish", "comment", "checkLatest", "upload"} => token[r] = "live"
        /\ at[r] \in Result => token[r] # "live"

(* A step that neither makes nor revokes a token passes or fails. *)
LEMMA TokenKept ==
  ASSUME TypeOK, TokenInv, NEW r \in Reporter,
         at[r] \in {"gather", "merge", "publish", "comment", "checkLatest", "upload"},
         Pass(r) \/ Fail(r), UNCHANGED token
  PROVE  TokenInv'
<1>1. at' = [at EXCEPT ![r] = at'[r]]
  BY DEF Pass, Fail, TypeOK
<1>2. CASE at[r] = "gather"
  BY <1>1, <1>2 DEF TokenInv, TypeOK, Pass, Fail, AfterReportStep, AfterFailure, Result
<1>3. CASE at[r] # "gather"
  BY <1>1, <1>3 DEF TokenInv, TypeOK, Pass, Fail, AfterReportStep, AfterFailure, Result
<1>4. QED
  BY <1>2, <1>3

LEMMA TokenReport == ASSUME TypeOK, TokenInv, NEW r \in Reporter, Report(r) PROVE TokenInv'
<1>1. CASE Gather(r)
  BY <1>1, TokenKept DEF Gather
<1>2. CASE CreateToken(r)
  <2>1. CASE token' = [token EXCEPT ![r] = "live"] /\ Pass(r)
    BY <1>2, <2>1 DEF CreateToken, Pass, TokenInv, TypeOK, AfterReportStep, AfterFailure, Result
  <2>2. CASE \E t \in {"none", "unseen"} : token' = [token EXCEPT ![r] = t] /\ Fail(r)
    BY <1>2, <2>2 DEF CreateToken, Fail, TokenInv, TypeOK, AfterFailure, Result
  <2>3. QED
    BY <1>2, <2>1, <2>2 DEF CreateToken
<1>3. CASE Comment(r)
  BY <1>3, TokenKept DEF Comment
<1>4. CASE Revoke(r)
  <2>1. ReportResult(r, TRUE) \in {"succeeded", "failed", "canceled"}
    BY DEF ReportResult
  <2>2. ReportResult(r, FALSE) \in {"succeeded", "failed", "canceled"}
    BY DEF ReportResult
  <2>3. QED
    BY <1>4, <2>1, <2>2 DEF Revoke, TokenInv, TypeOK, Result
<1>5. QED
  BY <1>1, <1>2, <1>3, <1>4 DEF Report

LEMMA TokenLaunch ==
  ASSUME TypeOK, TokenInv, NEW r \in Reporter, NEW wanted, Launch(r, wanted)
  PROVE  TokenInv'
  BY DEF Launch, TokenInv, TypeOK, Result

LEMMA TokenProcess == TypeOK /\ TokenInv /\ Process => TokenInv'
<1> SUFFICES ASSUME TypeOK, TokenInv, Process PROVE TokenInv'
  OBVIOUS
<1>0. "ProcessResults" \in Reporter
  BY DEF Reporter
<1>1. CASE ProcessStarts
  BY <1>0, <1>1, TokenLaunch DEF ProcessStarts
<1>2. CASE Merge \/ PublishMerged \/ CheckLatest
  BY <1>0, <1>2, TokenKept DEF Merge, PublishMerged, CheckLatest
<1>3. CASE Upload
  <2>1. \/ Pass("ProcessResults") \/ Fail("ProcessResults")
        \/ UNCHANGED at
    BY <1>3 DEF Upload, UploadPasses, UploadFails
  <2>2. at["ProcessResults"] = "upload" /\ UNCHANGED token
    BY <1>3 DEF Upload
  <2>3. QED
    BY <1>0, <2>1, <2>2, TokenKept DEF TokenInv
<1>4. QED
  BY <1>1, <1>2, <1>3 DEF Process

LEMMA TokenStep == TypeOK /\ TokenInv /\ [Next]_vars => TokenInv'
<1> SUFFICES ASSUME TypeOK, TokenInv, [Next]_vars PROVE TokenInv'
  OBVIOUS
<1>1. CASE ReportStarts
  BY <1>1, TokenLaunch DEF ReportStarts, Reporter
<1>2. CASE Setup \/ Cancel \/ UNCHANGED vars
  BY <1>2 DEF Setup, SetupSucceeds, SetupFails, Cancel, vars, reportVars, TokenInv
<1>3. ASSUME NEW j \in Jobs, Leg(j) PROVE TokenInv'
  BY <1>3 DEF Leg, LegStarts, LegStepPasses, LegStepFails, reportVars, TokenInv
<1>4. QED
  BY <1>1, <1>2, <1>3, TokenReport, TokenProcess DEF Next, Ended

(* Whatever step fails and whenever the run is cancelled, each job that creates *)
(* a token uses it while it is live and does not end with one that it put out   *)
(* and that is still live, unless the revocation failed.                        *)
THEOREM TokensRevoked == Spec => []TokenCoversItsUses
<1>1. Init => TokenInv
  BY DEF Init, TokenInv, Result
<1>2. TokenInv => TokenCoversItsUses
  BY DEF TokenInv, TokenCoversItsUses
<1>3. QED
  BY <1>1, <1>2, TokenStep, TypeCorrect, PTL DEF Spec

-----------------------------------------------------------------------------
(* What the steps of a leg leave behind, and what its results mean. *)
Past(step) ==    \* the steps and the result that come after a step
    CASE step = "runNew"      -> {"setUpBaseline", "runBaseline", "compare", "publish", "succeeded"}
      [] step = "runBaseline" -> {"compare", "publish", "succeeded"}

LegInv ==
    /\ setup # "succeeded" => Planned = {}
    /\ \A j \in Jobs :
        /\ leg[j] # "waiting" => j \in Planned
        /\ leg[j] # "skipped"
        /\ leg[j] = "canceled" => canceled
        /\ leg[j] \in Past("runNew") /\ comparison => "new" \in files[j]
        /\ leg[j] \in Past("runBaseline") => "baseline" \in files[j]
        /\ leg[j] = "succeeded" => j \in published
    /\ \A j \in published : leg[j] # "waiting"

AllMeasured ==
    /\ setup # "running"
    /\ \A j \in Planned : leg[j] = "succeeded"

Complete == \A v \in VersionsMerged : merged[v] = Planned

(* ProcessResults runs when everything is measured, and what it merges then is *)
(* what it publishes.                                                          *)
MergeInv ==
    /\ at["ProcessResults"] \notin {"waiting", "skipped"} => AllMeasured
    /\ at["ProcessResults"] \in {"publish", "comment", "checkLatest", "upload"} => Complete
    /\ resultsPosted \/ dated # {} \/ latest # {} =>
        Complete /\ at["ProcessResults"] \in {"upload", "revoke"} \cup (Result \ {"skipped"})

LEMMA LegInvInit == Init => LegInv /\ MergeInv
<1> SUFFICES ASSUME Init PROVE LegInv /\ MergeInv
  OBVIOUS
<1>1. Planned = {}
  BY DEF Init, Planned
<1>2. \A j \in Jobs : leg[j] = "waiting"
  BY DEF Init
<1>3. at["ProcessResults"] = "waiting"
  BY DEF Init, Reporter
<1>4. QED
  BY <1>1, <1>2, <1>3 DEF Init, LegInv, MergeInv, Past

(* The plan is made before a leg starts and before a reporter does. *)
LEMMA SetupMeasured == TypeOK /\ LegInv /\ MergeInv /\ Setup => LegInv' /\ MergeInv'
<1> SUFFICES ASSUME TypeOK, LegInv, MergeInv, Setup PROVE LegInv' /\ MergeInv'
  OBVIOUS
<1>1. setup = "running" /\ Planned = {} /\ \A j \in Jobs : leg[j] = "waiting"
  BY DEF Setup, SetupSucceeds, SetupFails, LegInv
<1>2. at["ProcessResults"] \in {"waiting", "skipped"} /\ UNCHANGED <<legVars, reportVars, canceled>>
  BY <1>1 DEF Setup, SetupSucceeds, SetupFails, MergeInv, AllMeasured
<1>3. setup' # "succeeded" => Planned' = {}
  BY <1>1 DEF Setup, SetupSucceeds, SetupFails, Planned
<1>4. LegInv'
  BY <1>1, <1>2, <1>3 DEF LegInv, legVars, Past
<1>5. MergeInv'
  BY <1>2 DEF MergeInv, reportVars, Result
<1>6. QED
  BY <1>4, <1>5

(* A leg that has succeeded moves no more. *)
LEMMA LegMeasured ==
  ASSUME TypeOK, LegInv, MergeInv, NEW i \in Jobs, Leg(i)
  PROVE  LegInv' /\ MergeInv'
<1>1. UNCHANGED <<planVars, reportVars, canceled>> /\ Planned' = Planned
  BY DEF Leg, LegStarts, LegStepPasses, LegStepFails, planVars, Planned
<1>2. LegInv'
  <2>1. CASE LegStarts(i)
    BY <1>1, <2>1 DEF LegStarts, LegInv, TypeOK, planVars, Past
  <2>2. CASE LegStepPasses(i)
    <3>1. i \in Planned /\ leg[i] \in LegStep
      BY <2>2 DEF LegStepPasses, LegInv, LegStep
    <3>2. leg' = [leg EXCEPT ![i] = IF canceled THEN "canceled" ELSE AfterLegStep(leg[i])]
      BY <2>2 DEF LegStepPasses
    <3>3. /\ \A j \in Jobs : files[j] \subseteq files'[j]
          /\ leg[i] = "runNew" => "new" \in files'[i]
          /\ leg[i] = "runBaseline" => "baseline" \in files'[i]
          /\ published \subseteq published' /\ published' \subseteq published \cup {i}
          /\ leg[i] = "publish" => i \in published'
      BY <2>2 DEF LegStepPasses, TypeOK
    <3>4. AfterLegStep(leg[i]) \in Past("runNew") =>
              leg[i] \in Past("runNew") \cup {"runNew"} \/ ~comparison
      BY <3>1 DEF AfterLegStep, Past, LegStep
    <3>5. AfterLegStep(leg[i]) \in Past("runBaseline") =>
              leg[i] \in Past("runBaseline") \cup {"runBaseline"}
      BY <3>1 DEF AfterLegStep, Past, LegStep
    <3>6. /\ AfterLegStep(leg[i]) = "succeeded" => leg[i] = "publish"
          /\ AfterLegStep(leg[i]) \notin {"waiting", "skipped", "canceled"}
      BY <3>1 DEF AfterLegStep, LegStep
    <3>7. ASSUME NEW j \in Jobs
          PROVE  /\ leg'[j] # "waiting" => j \in Planned
                 /\ leg'[j] # "skipped"
                 /\ leg'[j] = "canceled" => canceled
                 /\ leg'[j] \in Past("runNew") /\ comparison => "new" \in files'[j]
                 /\ leg'[j] \in Past("runBaseline") => "baseline" \in files'[j]
                 /\ leg'[j] = "succeeded" => j \in published'
                 /\ leg[j] # "waiting" => leg'[j] # "waiting"
      <4>1. CASE j = i
        BY <3>1, <3>2, <3>3, <3>4, <3>5, <3>6, <4>1 DEF LegInv, TypeOK, Past
      <4>2. CASE j # i
        BY <3>2, <3>3, <4>2 DEF LegInv, TypeOK
      <4>3. QED
        BY <4>1, <4>2
    <3>8. \A j \in published' : leg'[j] # "waiting"
      BY <3>1, <3>3, <3>7 DEF LegInv, TypeOK, LegStep
    <3>9. QED
      BY <1>1, <3>7, <3>8 DEF LegInv, planVars, Past
  <2>3. CASE LegStepFails(i)
    <3>1. /\ leg[i] \in LegStep /\ UNCHANGED <<files, published>>
          /\ \/ UNCHANGED leg
             \/ leg' = [leg EXCEPT ![i] = "failed"]
             \/ canceled /\ leg' = [leg EXCEPT ![i] = "canceled"]
      BY <2>3 DEF LegStepFails
    <3>2. QED
      BY <1>1, <3>1 DEF LegInv, TypeOK, planVars, Past, LegStep
  <2>4. QED
    BY <2>1, <2>2, <2>3 DEF Leg
<1>3. leg[i] # "succeeded" /\ \A j \in Jobs \ {i} : leg'[j] = leg[j]
  BY DEF Leg, LegStarts, LegStepPasses, LegStepFails, LegStep, TypeOK
<1>4. AllMeasured => AllMeasured'
  <2>1. i \in Planned
    BY DEF Leg, LegStarts, LegStepPasses, LegStepFails, LegInv, LegStep
  <2>2. QED
    BY <1>1, <1>3, <2>1 DEF AllMeasured
<1>5. MergeInv'
  BY <1>1, <1>4 DEF MergeInv, planVars, reportVars, Complete, VersionsMerged
<1>6. QED
  BY <1>2, <1>5

(* When no benchmark has failed and the run is not cancelled, all have ended well. *)
LEMMA WantedMeasured ==
  ASSUME TypeOK, LegInv, BenchmarksEnded, ProcessWanted
  PROVE  AllMeasured
<1>1. ASSUME NEW j \in Planned PROVE leg[j] = "succeeded"
  <2>1. PICK a \in Agents : j \in matrix[a]
    BY DEF Planned
  <2>2. leg[j] # "failed"
    BY <2>1 DEF ProcessWanted, BenchmarkFailed, BenchmarkResult
  <2>3. j \in Jobs
    BY <2>1 DEF TypeOK
  <2>4. QED
    BY <2>2, <2>3 DEF LegInv, BenchmarksEnded, ProcessWanted, Result
<1>2. QED
  BY <1>1 DEF AllMeasured, BenchmarksEnded

(* With everything measured, the artifacts of a version are those of all jobs. *)
LEMMA MergeableAll ==
  ASSUME TypeOK, LegInv, AllMeasured, NEW v \in VersionsMerged
  PROVE  Mergeable(v) = Planned
<1>1. Mergeable(v) \subseteq Planned
  BY DEF Mergeable, LegInv, TypeOK
<1>2. ASSUME NEW j \in Planned PROVE j \in Mergeable(v)
  <2>1. j \in Jobs /\ leg[j] = "succeeded"
    BY KindsTyped DEF AllMeasured
  <2>2. j \in published /\ v \in files[j]
    BY <2>1 DEF LegInv, VersionsMerged, Version, Past
  <2>3. Kind[j] \in ProcessKinds
    BY DEF ProcessKinds
  <2>4. QED
    BY <2>2, <2>3 DEF Mergeable
<1>3. QED
  BY <1>1, <1>2

LEMMA PlanKept ==
  ASSUME UNCHANGED <<planVars, legVars>>
  PROVE  /\ Planned' = Planned /\ AllMeasured' = AllMeasured
         /\ VersionsMerged' = VersionsMerged
         /\ (UNCHANGED merged => Complete' = Complete)
  BY DEF planVars, legVars, Planned, AllMeasured, VersionsMerged, Complete

LEMMA LegInvKept ==
  ASSUME LegInv, UNCHANGED <<planVars, legVars>>, canceled => canceled'
  PROVE  LegInv'
  BY PlanKept DEF LegInv, planVars, legVars, Past

P == "ProcessResults"

(* OnFailedPRRun posts nothing but its own comment. *)
LEMMA ReportMeasured ==
  ASSUME TypeOK, LegInv, MergeInv, NEW r \in Reporter, Report(r)
  PROVE  LegInv' /\ MergeInv'
<1> USE DEF P
<1>1. UNCHANGED <<planVars, legVars, canceled, merged, dated, latest>>
  BY DEF Report, Gather, CreateToken, Comment, Revoke
<1>2. LegInv'
  BY <1>1, LegInvKept
<1>3. P \in Reporter
  BY DEF Reporter
<1>4. CASE r # P
  <2>1. at'[P] = at[P]
    BY <1>3, <1>4 DEF Report, Gather, CreateToken, Comment, Revoke, Pass, Fail, TypeOK
  <2>2. resultsPosted' = resultsPosted
    BY <1>4 DEF Report, Gather, CreateToken, Comment, Revoke, TypeOK
  <2>3. QED
    BY <1>1, <1>2, <2>1, <2>2, PlanKept DEF MergeInv
<1>5. CASE r = P
  <2>1. CASE Gather(P) \/ CreateToken(P)
    <3>1. at[P] \in {"gather", "createToken"} /\ resultsPosted' = resultsPosted
      BY <2>1 DEF Gather, CreateToken
    <3>2. at'[P] \in {"createToken", "merge", "revoke"}
      BY <1>3, <2>1 DEF Gather, CreateToken, Pass, Fail, TypeOK, AfterReportStep, AfterFailure
    <3>3. QED
      BY <1>1, <1>2, <3>1, <3>2, PlanKept DEF MergeInv, Result
  <2>2. CASE Comment(P)
    <3>1. at[P] = "comment"
      BY <2>2 DEF Comment
    <3>2. at'[P] = "revoke"
      BY <1>3, <2>2 DEF Comment, Pass, Fail, TypeOK, AfterReportStep, AfterFailure
    <3>3. QED
      BY <1>1, <1>2, <3>1, <3>2, PlanKept DEF MergeInv
  <2>3. CASE Revoke(P)
    <3>1. at[P] = "revoke" /\ resultsPosted' = resultsPosted
      BY <2>3 DEF Revoke
    <3>2. at'[P] \in {"succeeded", "failed", "canceled"}
      BY <1>3, <2>3 DEF Revoke, ReportResult, TypeOK
    <3>3. QED
      BY <1>1, <1>2, <3>1, <3>2, PlanKept DEF MergeInv, Result
  <2>4. QED
    BY <1>5, <2>1, <2>2, <2>3 DEF Report
<1>6. QED
  BY <1>4, <1>5

LEMMA ProcessMeasured == TypeOK /\ LegInv /\ MergeInv /\ Process => LegInv' /\ MergeInv'
<1> USE DEF P
<1> SUFFICES ASSUME TypeOK, LegInv, MergeInv, Process PROVE LegInv' /\ MergeInv'
  OBVIOUS
<1>1. UNCHANGED <<planVars, legVars, canceled, resultsPosted>>
  BY DEF Process, ProcessStarts, Launch, Merge, PublishMerged, CheckLatest, Upload
<1>2. LegInv'
  BY <1>1, LegInvKept
<1>3. P \in Reporter
  BY DEF Reporter
<1>4. CASE ProcessStarts
  <2>1. at'[P] = "skipped" \/ (at'[P] = "gather" /\ AllMeasured)
    BY <1>3, <1>4, WantedMeasured DEF ProcessStarts, Launch, TypeOK
  <2>2. at[P] = "waiting" /\ UNCHANGED <<merged, dated, latest>>
    BY <1>4 DEF ProcessStarts, Launch
  <2>3. QED
    BY <1>1, <1>2, <2>1, <2>2, PlanKept DEF MergeInv, Result
<1>5. CASE Merge
  <2>1. at[P] = "merge" /\ AllMeasured /\ UNCHANGED <<dated, latest>>
    BY <1>5 DEF Merge, MergeInv
  <2>2. ~(resultsPosted \/ dated # {} \/ latest # {})
    BY <2>1 DEF MergeInv, Result
  <2>3. at'[P] = "revoke" \/ (at'[P] = "publish" /\ Complete')
    <3>1. CASE Pass(P) /\ merged' = [v \in Version |-> IF v \in VersionsMerged THEN Mergeable(v) ELSE {}]
      <4>1. Complete'
        BY <1>1, <2>1, <3>1, MergeableAll, PlanKept DEF Complete, VersionsMerged, Version
      <4>2. at'[P] \in {"revoke", "publish"}
        BY <1>3, <2>1, <3>1 DEF Pass, TypeOK, AfterReportStep, AfterFailure
      <4>3. QED
        BY <4>1, <4>2
    <3>2. CASE Fail(P)
      BY <1>3, <3>2 DEF Fail, TypeOK, AfterFailure
    <3>3. QED
      BY <1>5, <3>1, <3>2 DEF Merge
  <2>4. QED
    BY <1>1, <1>2, <2>1, <2>2, <2>3, PlanKept DEF MergeInv
<1>6. CASE PublishMerged \/ CheckLatest
  <2>1. at[P] \in {"publish", "checkLatest"} /\ UNCHANGED <<merged, dated, latest>>
    BY <1>6 DEF PublishMerged, CheckLatest
  <2>2. ~(resultsPosted \/ dated # {} \/ latest # {})
    BY <2>1 DEF MergeInv, Result
  <2>3. at'[P] \in {"comment", "checkLatest", "upload", "revoke"}
    BY <1>3, <1>6, <2>1
    DEF PublishMerged, CheckLatest, Pass, Fail, TypeOK, AfterReportStep, AfterFailure
  <2>4. QED
    BY <1>1, <1>2, <2>1, <2>2, <2>3, PlanKept DEF MergeInv
<1>7. CASE Upload
  <2>1. at[P] = "upload" /\ UNCHANGED merged
    BY <1>7 DEF Upload
  <2>2. at'[P] \in {"upload", "revoke"}
    BY <1>3, <1>7, <2>1
    DEF Upload, UploadPasses, UploadFails, Pass, Fail, TypeOK, AfterReportStep, AfterFailure
  <2>3. QED
    BY <1>1, <1>2, <2>1, <2>2, PlanKept DEF MergeInv
<1>8. QED
  BY <1>4, <1>5, <1>6, <1>7 DEF Process

LEMMA MeasuredStep == TypeOK /\ LegInv /\ MergeInv /\ [Next]_vars => LegInv' /\ MergeInv'
<1> SUFFICES ASSUME TypeOK, LegInv, MergeInv, [Next]_vars PROVE LegInv' /\ MergeInv'
  OBVIOUS
<1>1. CASE ReportStarts
  <2>1. at'["ProcessResults"] = at["ProcessResults"]
    BY <1>1 DEF ReportStarts, Launch, TypeOK, Reporter
  <2>2. UNCHANGED <<planVars, legVars, canceled, merged, resultsPosted, dated, latest>>
    BY <1>1 DEF ReportStarts, Launch
  <2>3. QED
    BY <2>1, <2>2, PlanKept, LegInvKept DEF MergeInv
<1>2. CASE Cancel \/ UNCHANGED vars
  <2>1. UNCHANGED <<planVars, legVars, reportVars>> /\ (canceled => canceled')
    BY <1>2 DEF Cancel, vars
  <2>2. QED
    BY <2>1, PlanKept, LegInvKept DEF MergeInv, reportVars
<1>3. QED
  BY <1>1, <1>2, SetupMeasured, LegMeasured, ReportMeasured, ProcessMeasured DEF Next, Ended

-----------------------------------------------------------------------------
(* How far the upload is, and what the job's success says about it. *)
Whole ==
    /\ dated = ProcessKinds
    /\ latest = IF isLatest THEN ProcessKinds ELSE {}

UploadInv ==
    /\ at[P] = "comment" => isPR
    /\ at[P] = "upload" => latest = IF isLatest THEN dated ELSE {}
    /\ at[P] = "revoke" /\ ok[P] /\ P \notin stopped /\ shouldUpload => Whole
    /\ at[P] = "succeeded" /\ shouldUpload => Whole

LEMMA UploadSame ==
  ASSUME UploadInv, UNCHANGED <<planVars, isLatest, dated, latest>>,
         at'[P] = at[P], ok'[P] = ok[P], P \in stopped => P \in stopped'
  PROVE  UploadInv'
<1>1. Whole' = Whole
  BY DEF Whole, ProcessKinds, Planned, planVars
<1>2. QED
  BY <1>1 DEF UploadInv, planVars

LEMMA UploadSetup == TypeOK /\ MergeInv /\ UploadInv /\ Setup => UploadInv'
<1> SUFFICES ASSUME TypeOK, MergeInv, UploadInv, Setup PROVE UploadInv'
  OBVIOUS
<1>1. setup = "running" /\ at' = at
  BY DEF Setup, SetupSucceeds, SetupFails, reportVars
<1>2. at[P] \in {"waiting", "skipped"}
  BY <1>1 DEF MergeInv, AllMeasured, P
<1>3. QED
  BY <1>1, <1>2 DEF UploadInv

LEMMA UploadReport ==
  ASSUME TypeOK, UploadInv, NEW r \in Reporter, Report(r)
  PROVE  UploadInv'
<1>1. UNCHANGED <<planVars, isLatest, dated, latest, stopped>>
  BY DEF Report, Gather, CreateToken, Comment, Revoke
<1>2. P \in Reporter
  BY DEF Reporter, P
<1>3. CASE r # P
  <2>1. at'[P] = at[P] /\ ok'[P] = ok[P]
    BY <1>2, <1>3 DEF Report, Gather, CreateToken, Comment, Revoke, Pass, Fail, TypeOK
  <2>2. QED
    BY <1>1, <2>1, UploadSame
<1>4. Whole' = Whole
  BY <1>1 DEF Whole, ProcessKinds, Planned, planVars
<1>5. CASE r = P
  <2>1. CASE Gather(P) \/ CreateToken(P)
    <3>1. at'[P] \in {"createToken", "merge"} \/ (at'[P] = "revoke" /\ (P \in stopped \/ ~ok'[P]))
      BY <1>2, <2>1 DEF Gather, CreateToken, Pass, Fail, TypeOK, AfterReportStep, AfterFailure, P
    <3>2. QED
      BY <1>1, <3>1 DEF UploadInv
  <2>2. CASE Comment(P)
    <3>1. at'[P] = "revoke" /\ at[P] = "comment"
      BY <1>2, <2>2 DEF Comment, Pass, Fail, TypeOK, AfterReportStep, AfterFailure
    <3>2. ~shouldUpload'
      BY <1>1, <3>1 DEF UploadInv, TypeOK, planVars
    <3>3. QED
      BY <3>1, <3>2 DEF UploadInv
  <2>3. CASE Revoke(P)
    <3>1. at'[P] \in {"failed", "canceled"}
          \/ (at'[P] = "succeeded" /\ ok[P] /\ P \notin stopped /\ at[P] = "revoke")
      BY <1>2, <2>3 DEF Revoke, ReportResult, TypeOK
    <3>2. QED
      BY <1>1, <1>4, <3>1 DEF UploadInv, planVars
  <2>4. QED
    BY <1>5, <2>1, <2>2, <2>3 DEF Report, P
<1>6. QED
  BY <1>3, <1>5

LEMMA UploadProcess == TypeOK /\ MergeInv /\ UploadInv /\ Process => UploadInv'
<1> SUFFICES ASSUME TypeOK, MergeInv, UploadInv, Process PROVE UploadInv'
  OBVIOUS
<1>1. UNCHANGED <<planVars, stopped>>
  BY DEF Process, ProcessStarts, Launch, Merge, PublishMerged, CheckLatest, Upload
<1>2. P \in Reporter
  BY DEF Reporter, P
<1>3. CASE ProcessStarts
  <2>1. at'[P] \in {"skipped", "gather"}
    BY <1>2, <1>3 DEF ProcessStarts, Launch, TypeOK, P
  <2>2. QED
    BY <2>1 DEF UploadInv
<1>4. CASE Merge
  <2>1. at'[P] = "publish" \/ (at'[P] = "revoke" /\ (P \in stopped \/ ~ok'[P]))
    BY <1>2, <1>4 DEF Merge, Pass, Fail, TypeOK, AfterReportStep, AfterFailure, P
  <2>2. QED
    BY <1>1, <2>1 DEF UploadInv
<1>5. CASE PublishMerged
  <2>1. \/ at'[P] = "comment" /\ isPR
        \/ at'[P] = "checkLatest"
        \/ at'[P] = "revoke" /\ (P \in stopped \/ ~ok'[P] \/ ~shouldUpload)
    BY <1>2, <1>5 DEF PublishMerged, Pass, Fail, TypeOK, AfterReportStep, AfterFailure, P
  <2>2. QED
    BY <1>1, <2>1 DEF UploadInv, planVars
<1>6. CASE CheckLatest
  <2>1. at'[P] = "upload" \/ (at'[P] = "revoke" /\ (P \in stopped \/ ~ok'[P]))
    BY <1>2, <1>6 DEF CheckLatest, Pass, Fail, TypeOK, AfterReportStep, AfterFailure, P
  <2>2. dated' = {} /\ latest' = {}
    BY <1>6 DEF CheckLatest, MergeInv, Result
  <2>3. QED
    BY <1>1, <2>1, <2>2 DEF UploadInv
<1>7. CASE Upload
  <2>1. at[P] = "upload" /\ isLatest' = isLatest /\ ProcessKinds' = ProcessKinds
    BY <1>1, <1>7 DEF Upload, ProcessKinds, Planned, planVars, P
  <2>2. latest = IF isLatest THEN dated ELSE {}
    BY <2>1 DEF UploadInv
  <2>3. PICK k \in ProcessKinds \ dated : UploadPasses(k) \/ UploadFails(k)
    BY <1>7 DEF Upload
  <2>4. CASE UploadFails(k)
    <3>1. at'[P] = "revoke" /\ ~ok'[P]
      BY <1>2, <2>4 DEF UploadFails, Fail, TypeOK, AfterFailure, P
    <3>2. QED
      BY <3>1 DEF UploadInv
  <2>5. CASE UploadPasses(k)
    <3>1. latest' = IF isLatest' THEN dated' ELSE {}
      BY <2>1, <2>2, <2>5 DEF UploadPasses
    <3>2. \/ at'[P] = "upload"
          \/ at'[P] = "revoke" /\ (P \in stopped \/ dated' = ProcessKinds)
      BY <1>2, <2>1, <2>5
      DEF UploadPasses, Pass, TypeOK, AfterReportStep, AfterFailure, P
    <3>3. dated' = ProcessKinds => Whole'
      BY <2>1, <3>1 DEF Whole
    <3>4. QED
      BY <1>1, <3>1, <3>2, <3>3 DEF UploadInv
  <2>6. QED
    BY <2>3, <2>4, <2>5
<1>8. QED
  BY <1>3, <1>4, <1>5, <1>6, <1>7 DEF Process

LEMMA UploadStep == TypeOK /\ MergeInv /\ UploadInv /\ [Next]_vars => UploadInv'
<1> SUFFICES ASSUME TypeOK, MergeInv, UploadInv, [Next]_vars PROVE UploadInv'
  OBVIOUS
<1>1. CASE ReportStarts
  <2>1. at'[P] = at[P]
    BY <1>1 DEF ReportStarts, Launch, TypeOK, Reporter, P
  <2>2. QED
    BY <1>1, <2>1, UploadSame DEF ReportStarts, Launch
<1>2. CASE UNCHANGED vars
  BY <1>2, UploadSame DEF vars, reportVars
<1>3. CASE Cancel
  <2>1. UNCHANGED <<planVars, reportVars>> /\ stopped' = {r \in Reporter : at[r] \in ReportStep}
    BY <1>3 DEF Cancel
  <2>2. at[P] = "revoke" => P \in stopped'
    BY <2>1 DEF ReportStep, Reporter, P
  <2>3. Whole' = Whole
    BY <2>1 DEF Whole, ProcessKinds, Planned, planVars, reportVars
  <2>4. QED
    BY <2>1, <2>2, <2>3 DEF UploadInv, planVars, reportVars
<1>4. ASSUME NEW j \in Jobs, Leg(j) PROVE UploadInv'
  BY <1>4, UploadSame DEF Leg, LegStarts, LegStepPasses, LegStepFails, reportVars
<1>5. QED
  BY <1>1, <1>2, <1>3, <1>4, UploadSetup, UploadReport, UploadProcess DEF Next, Ended

(* Nothing is posted or uploaded that lacks a job of the plan or a version of  *)
(* the comparison: the condition and(not(failed()), not(canceled())) is enough; *)
(* and set -e in the loop over the kinds is enough for the success of the job   *)
(* to mean that every kind is uploaded.                                        *)
THEOREM ResultsComplete == Spec => []ResultsAreComplete
<1>1. Init => UploadInv
  BY DEF Init, UploadInv, Reporter, P
<1>2. MergeInv /\ UploadInv => ResultsAreComplete
  BY DEF MergeInv, UploadInv, Whole, Complete, ResultsAreComplete, P
<1>3. QED
  BY <1>1, <1>2, LegInvInit, MeasuredStep, UploadStep, TypeCorrect, PTL DEF Spec
=============================================================================
