------------------------------ MODULE LatestBlob ------------------------------
(***************************************************************************)
(* The runs of build/benchmark.yml for the commits of one branch, and the  *)
(* blob "latest" of each kind that they share.  A run measures its commit, *)
(* asks GitHub whether that is still the head of the branch, and only then *)
(* uploads, kind by kind: the answer may be out of date by the time it is  *)
(* used.  BenchmarkPipeline has the steps inside a run; here each run is   *)
(* what it does to the blobs.                                              *)
(*                                                                         *)
(* Time passes in ticks.  MinRun and MaxUpload are assumptions on the      *)
(* agents and on the storage service; neither is in the code.              *)
(***************************************************************************)
EXTENDS Naturals

CONSTANTS
    MaxRuns,        \* bound on the runs of the pipeline
    Kinds,          \* TSPERF_PROCESS_KINDS
    MaxCommits,     \* bound on the pushes
    MinRun,         \* ticks from the queueing of a run to its check, at least
    MaxUpload       \* ticks from the check to the last write, at most

ASSUME LatestAssumption ==
    /\ MaxRuns \in Nat
    /\ MaxCommits \in Nat \ {0}
    /\ MinRun \in Nat
    /\ MaxUpload \in Nat

VARIABLES
    head,       \* the commit of the ref; commits are numbered as they are pushed
    at,         \* state of each run
    commit,     \* the commit it measures
    isLatest,   \* TSPERF_BLOB_LATEST
    left,       \* the kinds it has still to upload
    age,        \* ticks since it was queued, or since its check
    latest      \* the commit of blob:<branch>/latest.<kind>.benchmark, 0 if none

latestVars == <<head, at, commit, isLatest, left, age, latest>>

Runs == 1 .. MaxRuns
Commits == 1 .. MaxCommits

(* The branch is at rest when the model begins: its head has been uploaded. *)
Init ==
    /\ head \in Commits
    /\ at = [r \in Runs |-> "none"]
    /\ commit = [r \in Runs |-> 0]
    /\ isLatest = [r \in Runs |-> FALSE]
    /\ left = [r \in Runs |-> {}]
    /\ age = [r \in Runs |-> 0]
    /\ latest = [k \in Kinds |-> head]

-----------------------------------------------------------------------------
(* Builds are numbered as they are queued. *)
Queue(r, c) ==
    /\ at[r] = "none"
    /\ \A q \in 1 .. r - 1 : at[q] # "none"
    /\ at' = [at EXCEPT ![r] = "pending"]
    /\ commit' = [commit EXCEPT ![r] = c]
    /\ UNCHANGED <<isLatest, left, age, latest>>

(* A push to the branch triggers a run, however many are pending. *)
Push(r) ==
    /\ head < MaxCommits
    /\ head' = head + 1
    /\ Queue(r, head + 1)

(* HISTORICAL_RUN: of any commit of the branch, by a script or by hand. *)
Historical(r) ==
    /\ \E c \in 1 .. head : Queue(r, c)
    /\ UNCHANGED head

(* Mutants: every run says that it is the latest; a run yields to others. *)
IsLatestAlways(r) == TRUE
IsLatestAlone(r) == commit[r] = head /\ \A q \in Runs \ {r} : at[q] # "pending"

IsLatest(r) == commit[r] = head

(* The measurements are there, and GitHub is asked for the head of the ref. *)
CheckLatest(r) ==
    /\ at[r] = "pending"
    /\ age[r] >= MinRun
    /\ at' = [at EXCEPT ![r] = "uploading"]
    /\ isLatest' = [isLatest EXCEPT ![r] = IsLatest(r)]
    /\ left' = [left EXCEPT ![r] = Kinds]
    /\ age' = [age EXCEPT ![r] = 0]
    /\ UNCHANGED <<head, commit, latest>>

Saved(r, k) == IF isLatest[r] THEN [latest EXCEPT ![k] = commit[r]] ELSE latest

UploadKind(r) ==
    /\ at[r] = "uploading"
    /\ \E k \in left[r] :
        /\ latest' = Saved(r, k)
        /\ left' = [left EXCEPT ![r] = @ \ {k}]
    /\ IF left'[r] = {}
       THEN at' = [at EXCEPT ![r] = "succeeded"] /\ age' = [age EXCEPT ![r] = 0]
       ELSE UNCHANGED <<at, age>>
    /\ UNCHANGED <<head, commit, isLatest>>

(* A step fails or the run is cancelled: before the check, or in the middle of *)
(* the upload, of which the last write may have been applied all the same.     *)
RunFails(r) ==
    /\ at[r] \in {"pending", "uploading"}
    /\ at' = [at EXCEPT ![r] = "failed"]
    /\ age' = [age EXCEPT ![r] = 0]
    /\ latest' \in {latest} \cup {Saved(r, k) : k \in left[r]}
    /\ UNCHANGED <<head, commit, isLatest, left>>

(* Time does not pass the bound of an upload; beyond MinRun it does not count. *)
Tick ==
    /\ \A r \in Runs : at[r] = "uploading" => age[r] < MaxUpload
    /\ age' = [r \in Runs |->
                CASE at[r] = "pending" /\ age[r] < MinRun -> age[r] + 1
                  [] at[r] = "uploading"                  -> age[r] + 1
                  [] OTHER                                -> age[r]]
    /\ UNCHANGED <<head, at, commit, isLatest, left, latest>>

RunStep(r) == CheckLatest(r) \/ UploadKind(r) \/ RunFails(r)

LatestNext ==
    \/ \E r \in Runs : Push(r) \/ Historical(r) \/ RunStep(r)
    \/ Tick

LatestSpec == Init /\ [][LatestNext]_latestVars

(* Runs come to their end, and time passes while one waits for it. *)
LatestFairness ==
    /\ \A r \in Runs : WF_latestVars(CheckLatest(r)) /\ WF_latestVars(UploadKind(r))
    /\ WF_latestVars(Tick /\ age' # age)

-----------------------------------------------------------------------------
LatestTypeOK ==
    /\ head \in Commits
    /\ at \in [Runs -> {"none", "pending", "uploading", "succeeded", "failed"}]
    /\ commit \in [Runs -> 0 .. MaxCommits]
    /\ isLatest \in [Runs -> BOOLEAN]
    /\ left \in [Runs -> SUBSET Kinds]
    /\ age \in [Runs -> Nat]
    /\ latest \in [Kinds -> 0 .. MaxCommits]

(* "This is generally safe": a latest result is never replaced by the result of *)
(* an older commit, although the check is over when the upload begins.          *)
LatestNeverOlder == [][\A k \in Kinds : latest'[k] >= latest[k]]_latestVars

(* The latest results of the kinds are of one commit, unless a run is uploading *)
(* or one has failed before it had uploaded all of them.                        *)
KindsAgree ==
    (\A r \in Runs : at[r] # "uploading" /\ (at[r] = "failed" => left[r] = {})) =>
        \A k, l \in Kinds : latest[k] = latest[l]

(* "It must be the case that the newer commit will get enqueued": when pushes   *)
(* have come to an end, the latest result is the head's, unless its run failed. *)
EventuallyLatest ==
    <>[]( \/ \A k \in Kinds : latest[k] = head
          \/ \E r \in Runs : commit[r] = head /\ at[r] = "failed" )
=============================================================================
