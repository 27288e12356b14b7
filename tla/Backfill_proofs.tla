--------------------------- MODULE Backfill_proofs ---------------------------
(***************************************************************************)
(* Proofs about LatestBlob and Backfill, for any number of runs, commits   *)
(* and kinds.                                                              *)
(***************************************************************************)
EXTENDS Backfill, FiniteSetTheorems, TLAPS

(* The last write of an upload is applied before any run that was queued after *)
(* the check can be measured.                                                  *)
Prompt == MaxUpload < MinRun

-----------------------------------------------------------------------------
LEMMA LatestTypeInit == Init => LatestTypeOK
  BY LatestAssumption DEF Init, LatestTypeOK, Commits

LEMMA QueueType ==
  ASSUME LatestTypeOK, NEW r \in Runs, NEW c \in Commits, Queue(r, c)
  PROVE  /\ at' \in [Runs -> {"none", "pending", "uploading", "succeeded", "failed"}]
         /\ commit' \in [Runs -> 0 .. MaxCommits]
         /\ UNCHANGED <<isLatest, left, age, latest>>
  BY LatestAssumption DEF Queue, LatestTypeOK, Commits

LEMMA SavedType ==
  ASSUME LatestTypeOK, NEW r \in Runs, NEW k \in left[r]
  PROVE  Saved(r, k) \in [Kinds -> 0 .. MaxCommits]
  BY DEF Saved, LatestTypeOK

LEMMA LatestTypeStep == LatestTypeOK /\ [LatestNext]_latestVars => LatestTypeOK'
<1> SUFFICES ASSUME LatestTypeOK, [LatestNext]_latestVars PROVE LatestTypeOK'
  OBVIOUS
<1> USE LatestAssumption
<1>1. ASSUME NEW r \in Runs, Push(r) PROVE LatestTypeOK'
  <2>1. head + 1 \in Commits
    BY <1>1 DEF Push, LatestTypeOK, Commits
  <2>2. QED
    BY <1>1, <2>1, QueueType DEF Push, LatestTypeOK
<1>2. ASSUME NEW r \in Runs, Historical(r) PROVE LatestTypeOK'
  <2>1. PICK c \in 1 .. head : Queue(r, c)
    BY <1>2 DEF Historical
  <2>2. c \in Commits
    BY <2>1 DEF LatestTypeOK, Commits
  <2>3. QED
    BY <1>2, <2>1, <2>2, QueueType DEF Historical, LatestTypeOK
<1>3. ASSUME NEW r \in Runs, CheckLatest(r) PROVE LatestTypeOK'
  BY <1>3 DEF CheckLatest, IsLatest, LatestTypeOK
<1>4. ASSUME NEW r \in Runs, UploadKind(r) PROVE LatestTypeOK'
  BY <1>4, SavedType DEF UploadKind, LatestTypeOK
<1>5. ASSUME NEW r \in Runs, RunFails(r) PROVE LatestTypeOK'
  BY <1>5, SavedType DEF RunFails, LatestTypeOK
<1>6. CASE Tick
  <2>1. age' \in [Runs -> Nat]
    BY <1>6 DEF Tick, LatestTypeOK
  <2>2. QED
    BY <1>6, <2>1 DEF Tick, LatestTypeOK
<1>7. CASE UNCHANGED latestVars
  BY <1>7 DEF latestVars, LatestTypeOK
<1>8. QED
  BY <1>1, <1>2, <1>3, <1>4, <1>5, <1>6, <1>7 DEF LatestNext, RunStep

-----------------------------------------------------------------------------
Claims(r) == at[r] = "uploading" /\ isLatest[r]

(* A run that takes itself for the latest is not older than what is uploaded, *)
(* and agrees with the others that do.  Whoever has a newer commit was queued  *)
(* after its check.                                                            *)
OrderInv ==
    /\ \A k \in Kinds : latest[k] <= head
    /\ \A r \in Runs :
        /\ commit[r] <= head
        /\ at[r] = "none" => age[r] = 0
        /\ at[r] \in {"none", "pending"} => left[r] = {}
        /\ at[r] = "uploading" => age[r] <= MaxUpload
        /\ Claims(r) => \A k \in Kinds : latest[k] <= commit[r]
    /\ \A r, q \in Runs :
        /\ Claims(r) /\ Claims(q) => commit[r] = commit[q]
        /\ Claims(r) /\ at[q] = "pending" /\ commit[q] > commit[r] => age[q] <= age[r]

LEMMA OrderInit == Init => OrderInv
  BY LatestAssumption DEF Init, OrderInv, Claims, Commits

LEMMA QueueOrder ==
  ASSUME LatestTypeOK, OrderInv, NEW r \in Runs, NEW c \in Commits, Queue(r, c),
         head' \in Commits, head <= head', c <= head'
  PROVE  OrderInv'
<1> USE LatestAssumption
<1>1. /\ at[r] = "none" /\ age[r] = 0
      /\ at'[r] = "pending" /\ commit'[r] = c
      /\ \A q \in Runs \ {r} : at'[q] = at[q] /\ commit'[q] = commit[q]
      /\ isLatest' = isLatest /\ age' = age /\ latest' = latest /\ left' = left
  BY DEF Queue, OrderInv, LatestTypeOK
<1>2. \A q \in Runs : Claims(q)' => q # r /\ Claims(q)
  BY <1>1 DEF Claims
<1>3. \A k \in Kinds : latest'[k] <= head'
  BY <1>1 DEF OrderInv, LatestTypeOK, Commits
<1>4. ASSUME NEW q \in Runs
      PROVE  /\ commit'[q] <= head'
             /\ at'[q] = "none" => age'[q] = 0
             /\ at'[q] \in {"none", "pending"} => left'[q] = {}
             /\ at'[q] = "uploading" => age'[q] <= MaxUpload
             /\ Claims(q)' => \A k \in Kinds : latest'[k] <= commit'[q]
  BY <1>1, <1>2 DEF OrderInv, LatestTypeOK, Commits
<1>5. ASSUME NEW p \in Runs, NEW q \in Runs
      PROVE  /\ Claims(p)' /\ Claims(q)' => commit'[p] = commit'[q]
             /\ Claims(p)' /\ at'[q] = "pending" /\ commit'[q] > commit'[p] => age'[q] <= age'[p]
  <2>1. age[p] \in Nat
    BY DEF LatestTypeOK
  <2>2. CASE q = r
    BY <1>1, <1>2, <2>1, <2>2 DEF OrderInv, LatestTypeOK
  <2>3. CASE q # r
    BY <1>1, <1>2, <2>3 DEF OrderInv, LatestTypeOK
  <2>4. QED
    BY <2>2, <2>3
<1>6. QED
  BY <1>3, <1>4, <1>5 DEF OrderInv

LEMMA CheckOrder ==
  ASSUME Prompt, LatestTypeOK, OrderInv, NEW r \in Runs, CheckLatest(r)
  PROVE  OrderInv'
<1> USE LatestAssumption
<1>1. /\ at[r] = "pending" /\ age[r] >= MinRun
      /\ at'[r] = "uploading" /\ age'[r] = 0 /\ isLatest'[r] = (commit[r] = head)
      /\ \A q \in Runs \ {r} : at'[q] = at[q] /\ age'[q] = age[q] /\ isLatest'[q] = isLatest[q]
                                 /\ left'[q] = left[q]
      /\ head' = head /\ commit' = commit /\ latest' = latest
  BY DEF CheckLatest, IsLatest, LatestTypeOK
<1>2. \A q \in Runs : Claims(q)' => commit[q] = head \/ (q # r /\ Claims(q))
  BY <1>1 DEF Claims
<1>3. ASSUME NEW q \in Runs, Claims(q), Claims(r)'
      PROVE  commit[q] = head
  <2>1. commit[r] = head
    BY <1>1, <1>3 DEF Claims
  <2>2. ~(commit[q] < head)
    <3> SUFFICES ASSUME commit[q] < head PROVE FALSE
      OBVIOUS
    <3>1. age[r] <= age[q] /\ age[q] <= MaxUpload
      BY <1>1, <1>3, <2>1 DEF OrderInv, LatestTypeOK, Claims, Commits
    <3>2. QED
      BY <1>1, <3>1 DEF Prompt, LatestTypeOK
  <2>3. QED
    BY <2>2 DEF OrderInv, LatestTypeOK, Commits
<1>4. ASSUME NEW q \in Runs
      PROVE  /\ commit'[q] <= head'
             /\ at'[q] = "none" => age'[q] = 0
             /\ at'[q] \in {"none", "pending"} => left'[q] = {}
             /\ at'[q] = "uploading" => age'[q] <= MaxUpload
             /\ Claims(q)' => \A k \in Kinds : latest'[k] <= commit'[q]
  <2>1. commit[r] <= head /\ \A k \in Kinds : latest[k] <= head
    BY DEF OrderInv
  <2>2. Claims(r)' => commit[r] = head
    BY <1>1 DEF Claims
  <2>3. CASE q = r
    BY <1>1, <2>1, <2>2, <2>3
  <2>4. CASE q # r
    BY <1>1, <2>4 DEF OrderInv, Claims
  <2>5. QED
    BY <2>3, <2>4
<1>5. ASSUME NEW p \in Runs, NEW q \in Runs
      PROVE  /\ Claims(p)' /\ Claims(q)' => commit'[p] = commit'[q]
             /\ Claims(p)' /\ at'[q] = "pending" /\ commit'[q] > commit'[p] => age'[q] <= age'[p]
  <2>1. Claims(p)' /\ Claims(q)' => commit'[p] = commit'[q]
    <3>1. CASE p # r /\ q # r
      BY <1>1, <3>1 DEF OrderInv, Claims
    <3>2. CASE p = r \/ q = r
      BY <1>1, <1>2, <1>3, <3>2 DEF Claims
    <3>3. QED
      BY <3>1, <3>2
  <2>2. ASSUME Claims(p)', at'[q] = "pending", commit'[q] > commit'[p]
        PROVE  age'[q] <= age'[p]
    <3>1. q # r
      BY <1>1, <2>2
    <3>2. p # r
      <4>1. commit[q] <= head /\ commit[q] \in Nat /\ head \in Nat
        BY DEF OrderInv, LatestTypeOK, Commits
      <4>2. p = r => commit'[p] = head
        BY <1>1, <2>2 DEF Claims
      <4>3. QED
        BY <1>1, <2>2, <4>1, <4>2
    <3>3. QED
      BY <1>1, <2>2, <3>1, <3>2 DEF OrderInv, Claims
  <2>3. QED
    BY <2>1, <2>2
<1>6. QED
  BY <1>1, <1>4, <1>5 DEF OrderInv

(* What a run that claims to be the latest may write. *)
LEMMA SavedOrder ==
  ASSUME LatestTypeOK, OrderInv, NEW r \in Runs, at[r] = "uploading", NEW k \in left[r]
  PROVE  /\ \A l \in Kinds : Saved(r, k)[l] >= latest[l] /\ Saved(r, k)[l] <= head
         /\ \A q \in Runs : Claims(q) => \A l \in Kinds : Saved(r, k)[l] <= commit[q]
         /\ Claims(r) => Saved(r, k)[k] = commit[r]
         /\ \A l \in Kinds : Saved(r, k)[l] = latest[l] \/ (Claims(r) /\ Saved(r, k)[l] = commit[r])
<1>1. k \in Kinds /\ latest \in [Kinds -> 0 .. MaxCommits] /\ commit[r] \in 0 .. MaxCommits
      /\ head \in 0 .. MaxCommits
  BY LatestAssumption DEF LatestTypeOK, Commits
<1>2. CASE isLatest[r]
  <2>1. Saved(r, k) = [latest EXCEPT ![k] = commit[r]] /\ Claims(r)
    BY <1>2 DEF Saved, Claims
  <2>2. commit[r] <= head /\ \A l \in Kinds : latest[l] <= commit[r]
    BY <2>1 DEF OrderInv
  <2>3. \A q \in Runs : Claims(q) => commit[q] = commit[r]
    BY <2>1 DEF OrderInv
  <2>4. QED
    BY LatestAssumption, <1>1, <2>1, <2>2, <2>3 DEF OrderInv
<1>3. CASE ~isLatest[r]
  <2>1. Saved(r, k) = latest /\ ~Claims(r)
    BY <1>3 DEF Saved, Claims
  <2>2. QED
    BY LatestAssumption, <1>1, <2>1 DEF OrderInv
<1>4. QED
  BY <1>2, <1>3

LEMMA WriteOrder ==
  ASSUME LatestTypeOK, OrderInv, NEW r \in Runs, UploadKind(r) \/ RunFails(r)
  PROVE  OrderInv' /\ \A k \in Kinds : latest'[k] >= latest[k]
<1> USE LatestAssumption
<1>1. /\ head' = head /\ commit' = commit /\ isLatest' = isLatest
      /\ at'[r] # "pending" /\ at'[r] # "none"
      /\ \A q \in Runs \ {r} : at'[q] = at[q] /\ age'[q] = age[q] /\ left'[q] = left[q]
      /\ at'[r] = "uploading" => at[r] = "uploading" /\ age'[r] = age[r]
  BY DEF UploadKind, RunFails, LatestTypeOK
<1>2. latest' = latest \/ (at[r] = "uploading" /\ \E k \in left[r] : latest' = Saved(r, k))
  <2>1. CASE UploadKind(r)
    BY <2>1 DEF UploadKind
  <2>2. CASE RunFails(r) /\ at[r] = "uploading"
    BY <2>2 DEF RunFails
  <2>3. CASE RunFails(r) /\ at[r] # "uploading"
    <3>1. left[r] = {}
      BY <2>3 DEF RunFails, OrderInv
    <3>2. QED
      BY <2>3, <3>1 DEF RunFails
  <2>4. QED
    BY <2>1, <2>2, <2>3
<1>3. /\ \A l \in Kinds : latest'[l] >= latest[l] /\ latest'[l] <= head
      /\ \A q \in Runs : Claims(q) => \A l \in Kinds : latest'[l] <= commit[q]
  <2>1. CASE latest' = latest
    BY <2>1 DEF OrderInv, LatestTypeOK
  <2>2. CASE at[r] = "uploading" /\ \E k \in left[r] : latest' = Saved(r, k)
    BY <2>2, SavedOrder
  <2>3. QED
    BY <1>2, <2>1, <2>2
<1>4. \A q \in Runs : Claims(q)' => Claims(q) /\ age'[q] = age[q]
  BY <1>1 DEF Claims
<1>5. \A q \in Runs : at'[q] = "pending" => at[q] = "pending" /\ age'[q] = age[q]
  BY <1>1
<1>6. ASSUME NEW q \in Runs
      PROVE  /\ commit'[q] <= head'
             /\ at'[q] = "none" => age'[q] = 0
             /\ at'[q] \in {"none", "pending"} => left'[q] = {}
             /\ at'[q] = "uploading" => age'[q] <= MaxUpload
             /\ Claims(q)' => \A k \in Kinds : latest'[k] <= commit'[q]
  BY <1>1, <1>3, <1>4 DEF OrderInv
<1>7. ASSUME NEW p \in Runs, NEW q \in Runs
      PROVE  /\ Claims(p)' /\ Claims(q)' => commit'[p] = commit'[q]
             /\ Claims(p)' /\ at'[q] = "pending" /\ commit'[q] > commit'[p] => age'[q] <= age'[p]
  BY <1>1, <1>4, <1>5 DEF OrderInv
<1>8. QED
  BY <1>1, <1>3, <1>6, <1>7 DEF OrderInv

LEMMA TickOrder == ASSUME LatestTypeOK, OrderInv, Tick PROVE OrderInv'
<1> USE LatestAssumption
<1>1. UNCHANGED <<head, at, commit, isLatest, left, latest>>
  BY DEF Tick
<1>2. ASSUME NEW r \in Runs
      PROVE  /\ age[r] \in Nat
             /\ at[r] = "uploading" => age[r] < MaxUpload /\ age'[r] = age[r] + 1
             /\ at[r] = "pending" => age'[r] <= age[r] + 1 /\ age'[r] \in Nat
             /\ at[r] = "none" => age'[r] = age[r]
  BY DEF Tick, LatestTypeOK
<1>3. \A r \in Runs : Claims(r)' = Claims(r)
  BY <1>1 DEF Claims
<1>4. ASSUME NEW q \in Runs
      PROVE  /\ commit'[q] <= head'
             /\ at'[q] = "none" => age'[q] = 0
             /\ at'[q] \in {"none", "pending"} => left'[q] = {}
             /\ at'[q] = "uploading" => age'[q] <= MaxUpload
             /\ Claims(q)' => \A k \in Kinds : latest'[k] <= commit'[q]
  BY <1>1, <1>2, <1>3 DEF OrderInv
<1>5. ASSUME NEW p \in Runs, NEW q \in Runs
      PROVE  /\ Claims(p)' /\ Claims(q)' => commit'[p] = commit'[q]
             /\ Claims(p)' /\ at'[q] = "pending" /\ commit'[q] > commit'[p] => age'[q] <= age'[p]
  <2>1. Claims(p)' /\ Claims(q)' => commit'[p] = commit'[q]
    BY <1>1, <1>3 DEF OrderInv
  <2>2. ASSUME Claims(p)', at'[q] = "pending", commit'[q] > commit'[p]
        PROVE  age'[q] <= age'[p]
    <3>1. age[q] <= age[p]
      BY <1>1, <1>3, <2>2 DEF OrderInv
    <3>2. at[p] = "uploading" /\ at[q] = "pending"
      BY <1>1, <1>3, <2>2 DEF Claims
    <3>3. QED
      BY <1>2, <3>1, <3>2
  <2>3. QED
    BY <2>1, <2>2
<1>6. \A k \in Kinds : latest'[k] <= head'
  BY <1>1 DEF OrderInv
<1>7. QED
  BY <1>4, <1>5, <1>6 DEF OrderInv

LEMMA OrderStep ==
  ASSUME Prompt, LatestTypeOK, OrderInv, [LatestNext]_latestVars
  PROVE  OrderInv' /\ \A k \in Kinds : latest'[k] >= latest[k]
<1> USE LatestAssumption
<1>0. \A k \in Kinds : latest[k] \in Nat
  BY DEF LatestTypeOK
<1>1. ASSUME NEW r \in Runs, Push(r) PROVE OrderInv' /\ latest' = latest
  <2>1. head + 1 \in Commits /\ head <= head + 1 /\ head + 1 <= head + 1
    BY <1>1 DEF Push, LatestTypeOK, Commits
  <2>2. head' = head + 1 /\ Queue(r, head + 1)
    BY <1>1 DEF Push
  <2>3. OrderInv'
    BY <2>1, <2>2, QueueOrder
  <2>4. QED
    BY <2>2, <2>3 DEF Queue
<1>2. ASSUME NEW r \in Runs, Historical(r) PROVE OrderInv' /\ latest' = latest
  <2>1. PICK c \in 1 .. head : Queue(r, c)
    BY <1>2 DEF Historical
  <2>2. c \in Commits /\ c <= head /\ head' = head /\ head \in Commits /\ head <= head
    BY <1>2, <2>1 DEF Historical, LatestTypeOK, Commits
  <2>3. QED
    BY <2>1, <2>2, QueueOrder DEF Queue
<1>3. ASSUME NEW r \in Runs, CheckLatest(r) PROVE OrderInv' /\ latest' = latest
  BY <1>3, CheckOrder DEF CheckLatest
<1>4. CASE Tick
  BY <1>0, <1>4, TickOrder DEF Tick
<1>5. CASE UNCHANGED latestVars
  BY <1>0, <1>5 DEF latestVars, OrderInv, Claims
<1>6. QED
  BY <1>0, <1>1, <1>2, <1>3, <1>4, <1>5, WriteOrder DEF LatestNext, RunStep

(* For any runs, commits and kinds: if an upload is over sooner than a run can  *)
(* be measured, the latest results never go back to an older commit.            *)
THEOREM NeverOlder == ASSUME Prompt PROVE LatestSpec => LatestNeverOlder
<1>1. Init => LatestTypeOK /\ OrderInv
  BY LatestTypeInit, OrderInit
<1>2. LatestTypeOK /\ OrderInv /\ [LatestNext]_latestVars => (LatestTypeOK /\ OrderInv)'
  BY LatestTypeStep, OrderStep
<1>3. LatestTypeOK /\ OrderInv /\ [LatestNext]_latestVars =>
        [\A k \in Kinds : latest'[k] >= latest[k]]_latestVars
  BY OrderStep
<1>4. QED
  BY <1>1, <1>2, <1>3, PTL DEF LatestSpec, LatestNeverOlder

-----------------------------------------------------------------------------
(* What an upload in progress has covered; and that the kinds agree when none  *)
(* is in progress and none was broken off.                                     *)
KindsInv ==
    /\ \A r \in Runs : Claims(r) => \A k \in Kinds \ left[r] : latest[k] = commit[r]
    /\ (\A r \in Runs : ~Claims(r) /\ (at[r] = "failed" => left[r] = {})) =>
            \A k, l \in Kinds : latest[k] = latest[l]

(* A step that changes neither a claim nor a blob. *)
LEMMA KindsKept ==
  ASSUME KindsInv, latest' = latest,
         \A r \in Runs : /\ Claims(r)' => Claims(r) /\ left'[r] = left[r] /\ commit'[r] = commit[r]
                         /\ Claims(r) => Claims(r)'
                         /\ at[r] = "failed" => at'[r] = "failed" /\ left'[r] = left[r]
  PROVE  KindsInv'
  BY DEF KindsInv

LEMMA CheckKinds ==
  ASSUME LatestTypeOK, OrderInv, KindsInv, NEW r \in Runs, CheckLatest(r)
  PROVE  KindsInv'
<1>1. /\ at[r] = "pending" /\ at'[r] = "uploading" /\ left'[r] = Kinds
      /\ \A q \in Runs \ {r} : at'[q] = at[q] /\ left'[q] = left[q] /\ isLatest'[q] = isLatest[q]
      /\ commit' = commit /\ latest' = latest
  BY DEF CheckLatest, LatestTypeOK
<1>2. \A q \in Runs \ {r} : Claims(q)' = Claims(q)
  BY <1>1 DEF Claims
<1>3. ~Claims(r)
  BY <1>1 DEF Claims
<1>4. \A q \in Runs : Claims(q)' => \A k \in Kinds \ left'[q] : latest'[k] = commit'[q]
  BY <1>1, <1>2 DEF KindsInv
<1>5. ASSUME \A q \in Runs : ~Claims(q)' /\ (at'[q] = "failed" => left'[q] = {})
      PROVE  \A k, l \in Kinds : latest'[k] = latest'[l]
  BY <1>1, <1>2, <1>3, <1>5 DEF KindsInv
<1>6. QED
  BY <1>4, <1>5 DEF KindsInv

LEMMA UploadKinds ==
  ASSUME LatestTypeOK, OrderInv, KindsInv, NEW r \in Runs, UploadKind(r)
  PROVE  KindsInv'
<1>1. PICK k \in left[r] : latest' = Saved(r, k) /\ left' = [left EXCEPT ![r] = @ \ {k}]
  BY DEF UploadKind
<1>2. /\ at[r] = "uploading" /\ at'[r] \in {"uploading", "succeeded"}
      /\ at'[r] = "succeeded" => left'[r] = {}
      /\ at'[r] = "uploading" => left'[r] # {}
      /\ left'[r] = left[r] \ {k}
      /\ \A q \in Runs \ {r} : at'[q] = at[q] /\ left'[q] = left[q]
      /\ isLatest' = isLatest /\ commit' = commit
  BY <1>1 DEF UploadKind, LatestTypeOK
<1>3. /\ \A q \in Runs \ {r} : Claims(q)' = Claims(q)
      /\ Claims(r)' => Claims(r)
      /\ Claims(r) = isLatest[r]
  BY <1>2 DEF Claims, LatestTypeOK
<1>4. /\ Claims(r) => latest'[k] = commit[r]
      /\ \A l \in Kinds : latest'[l] = latest[l] \/ (Claims(r) /\ latest'[l] = commit[r])
  BY <1>1, <1>2, SavedOrder
<1>5. Claims(r) => \A l \in Kinds \ left'[r] : latest'[l] = commit[r]
  BY <1>2, <1>4 DEF KindsInv
<1>6. ASSUME NEW q \in Runs, Claims(q)' PROVE \A l \in Kinds \ left'[q] : latest'[l] = commit'[q]
  <2>1. CASE q = r
    BY <1>2, <1>3, <1>5, <1>6, <2>1
  <2>2. CASE q # r
    <3>1. Claims(q) /\ left'[q] = left[q] /\ commit'[q] = commit[q]
      BY <1>2, <1>3, <1>6, <2>2
    <3>2. Claims(r) => commit[r] = commit[q]
      BY <3>1 DEF OrderInv
    <3>3. QED
      BY <1>4, <3>1, <3>2 DEF KindsInv
  <2>3. QED
    BY <2>1, <2>2
<1>7. ASSUME \A q \in Runs : ~Claims(q)' /\ (at'[q] = "failed" => left'[q] = {})
      PROVE  \A m, l \in Kinds : latest'[m] = latest'[l]
  <2>1. CASE Claims(r)
    <3>1. at'[r] # "uploading"
      BY <1>2, <1>3, <1>7, <2>1 DEF Claims
    <3>2. left'[r] = {}
      BY <1>2, <3>1
    <3>3. QED
      BY <1>5, <2>1, <3>2
  <2>2. CASE ~Claims(r)
    <3>1. latest' = latest
      BY <1>1, <1>3, <2>2 DEF Saved
    <3>2. \A q \in Runs : ~Claims(q) /\ (at[q] = "failed" => left[q] = {})
      BY <1>2, <1>3, <1>7, <2>2
    <3>3. QED
      BY <3>1, <3>2 DEF KindsInv
  <2>3. QED
    BY <2>1, <2>2
<1>8. QED
  BY <1>6, <1>7 DEF KindsInv

LEMMA FailKinds ==
  ASSUME LatestTypeOK, OrderInv, KindsInv, NEW r \in Runs, RunFails(r)
  PROVE  KindsInv'
<1>1. /\ at[r] \in {"pending", "uploading"} /\ at'[r] = "failed"
      /\ \A q \in Runs \ {r} : at'[q] = at[q]
      /\ isLatest' = isLatest /\ commit' = commit /\ left' = left
      /\ latest' = latest \/ \E k \in left[r] : latest' = Saved(r, k)
  BY DEF RunFails, LatestTypeOK
<1>2. /\ \A q \in Runs \ {r} : Claims(q)' = Claims(q)
      /\ ~Claims(r)'
  BY <1>1 DEF Claims
<1>3. at[r] = "pending" => left[r] = {}
  BY DEF OrderInv
<1>4. \A l \in Kinds : latest'[l] = latest[l] \/ (Claims(r) /\ latest'[l] = commit[r])
  <2>1. CASE latest' = latest
    BY <2>1
  <2>2. CASE \E k \in left[r] : latest' = Saved(r, k)
    BY <1>1, <1>3, <2>2, SavedOrder
  <2>3. QED
    BY <1>1, <2>1, <2>2
<1>5. ASSUME NEW q \in Runs, Claims(q)' PROVE \A l \in Kinds \ left'[q] : latest'[l] = commit'[q]
  <2>1. Claims(q) /\ left'[q] = left[q] /\ commit'[q] = commit[q]
    BY <1>1, <1>2, <1>5
  <2>2. Claims(r) => commit[r] = commit[q]
    BY <2>1 DEF OrderInv
  <2>3. QED
    BY <1>4, <2>1, <2>2 DEF KindsInv
<1>6. ASSUME \A q \in Runs : ~Claims(q)' /\ (at'[q] = "failed" => left'[q] = {})
      PROVE  \A m, l \in Kinds : latest'[m] = latest'[l]
  <2>1. left[r] = {} /\ latest' = latest
    BY <1>1, <1>6
  <2>2. CASE Claims(r)
    BY <2>1, <2>2 DEF KindsInv
  <2>3. CASE ~Claims(r)
    <3>1. \A q \in Runs : ~Claims(q) /\ (at[q] = "failed" => left[q] = {})
      BY <1>1, <1>2, <1>6, <2>3
    <3>2. QED
      BY <2>1, <3>1 DEF KindsInv
  <2>4. QED
    BY <2>2, <2>3
<1>7. QED
  BY <1>5, <1>6 DEF KindsInv

LEMMA KindsStep ==
  ASSUME LatestTypeOK, OrderInv, KindsInv, [LatestNext]_latestVars
  PROVE  KindsInv'
<1>1. ASSUME NEW r \in Runs, Push(r) \/ Historical(r) PROVE KindsInv'
  <2>1. PICK c : Queue(r, c)
    BY <1>1 DEF Push, Historical
  <2>2. /\ at[r] = "none" /\ at'[r] = "pending"
        /\ \A q \in Runs \ {r} : at'[q] = at[q] /\ commit'[q] = commit[q]
        /\ isLatest' = isLatest /\ left' = left /\ latest' = latest
    BY <2>1 DEF Queue, LatestTypeOK
  <2>3. \A q \in Runs : Claims(q)' = Claims(q) /\ (Claims(q) => q # r)
    BY <2>2 DEF Claims
  <2>4. QED
    BY <2>2, <2>3, KindsKept
<1>2. CASE Tick
  BY <1>2, KindsKept DEF Tick, Claims
<1>3. CASE UNCHANGED latestVars
  BY <1>3, KindsKept DEF latestVars, Claims
<1>4. QED
  BY <1>1, <1>2, <1>3, CheckKinds, UploadKinds, FailKinds DEF LatestNext, RunStep

(* Under the same condition the latest results of the kinds are of one commit, *)
(* except while one is uploaded or after an upload was broken off.             *)
THEOREM LatestKindsAgree == ASSUME Prompt PROVE LatestSpec => []KindsAgree
<1>1. Init => LatestTypeOK /\ OrderInv /\ KindsInv
  BY LatestTypeInit, OrderInit DEF Init, KindsInv, Claims
<1>2. LatestTypeOK /\ OrderInv /\ KindsInv /\ [LatestNext]_latestVars =>
        (LatestTypeOK /\ OrderInv /\ KindsInv)'
  BY LatestTypeStep, OrderStep, KindsStep
<1>3. KindsInv => KindsAgree
  BY DEF KindsInv, KindsAgree, Claims
<1>4. QED
  BY <1>1, <1>2, <1>3, PTL DEF LatestSpec

-----------------------------------------------------------------------------
(* The script walks from StartCommit to the first commit, and what it is past  *)
(* has a run.                                                                  *)
Queued(c) == \E r \in mine : commit[r] = c

BackInv ==
    /\ TypeOK
    /\ StartCommit <= head
    /\ script \in {"count", "queue", "append", "sleep"} => cursor \in 1 .. StartCommit
    /\ \A r \in mine : at[r] # "none"
    /\ script \in {"append", "sleep"} => Queued(cursor)
    /\ NoCommitSkipped

LEMMA BackInit == BackfillInit => BackInv
<1> SUFFICES ASSUME BackfillInit PROVE BackInv
  OBVIOUS
<1>1. LatestTypeOK
  BY LatestTypeInit DEF BackfillInit
<1>2. TypeOK
  BY <1>1, BackfillAssumption, LatestAssumption DEF BackfillInit, TypeOK, Commits
<1>3. QED
  BY <1>2 DEF BackfillInit, BackInv, NoCommitSkipped

(* A queued run keeps its commit, whatever happens to it. *)
LEMMA RunsKept ==
  ASSUME BackInv, LatestNext, UNCHANGED backVars
  PROVE  /\ head <= head'
         /\ \A r \in mine : at'[r] # "none" /\ commit'[r] = commit[r]
<1>0. TypeOK /\ LatestTypeOK /\ head \in Nat /\ \A r \in mine : at[r] # "none" /\ r \in Runs
  BY DEF BackInv, TypeOK, LatestTypeOK, Commits
<1>1. ASSUME NEW r \in Runs, Push(r) \/ Historical(r)
      PROVE  head <= head' /\ \A q \in mine : at'[q] # "none" /\ commit'[q] = commit[q]
  BY <1>0, <1>1 DEF Push, Historical, Queue, LatestTypeOK
<1>2. ASSUME NEW r \in Runs, RunStep(r)
      PROVE  head <= head' /\ \A q \in mine : at'[q] # "none" /\ commit'[q] = commit[q]
  BY <1>0, <1>2 DEF RunStep, CheckLatest, UploadKind, RunFails, LatestTypeOK
<1>3. CASE Tick
  BY <1>0, <1>3 DEF Tick
<1>4. QED
  BY <1>1, <1>2, <1>3 DEF LatestNext

LEMMA LatestBack ==
  ASSUME BackInv, LatestNext, UNCHANGED backVars
  PROVE  BackInv'
<1>1. LatestTypeOK'
  BY LatestTypeStep DEF BackInv, TypeOK
<1>2. UNCHANGED <<script, cursor, seen, mine, unlisted, starts>>
  BY DEF backVars
<1>3. TypeOK'
  BY <1>1, <1>2 DEF BackInv, TypeOK
<1>4. StartCommit <= head'
  BY <1>1, RunsKept, BackfillAssumption DEF BackInv, TypeOK, LatestTypeOK, Commits
<1>5. \A c : Queued(c) => Queued(c)'
  BY <1>2, RunsKept DEF Queued
<1>6. NoCommitSkipped'
  BY <1>2, <1>5 DEF BackInv, NoCommitSkipped, Queued
<1>7. QED
  BY <1>2, <1>3, <1>4, <1>5, <1>6, RunsKept DEF BackInv

(* The steps of the script that queue nothing. *)
LEMMA ScriptBack ==
  ASSUME BackInv, Script
  PROVE  BackInv' /\ UNCHANGED latestVars
<1> USE BackfillAssumption, LatestAssumption
<1>1. UNCHANGED latestVars /\ UNCHANGED <<head, at, commit, mine, unlisted>>
  BY DEF Script, Start, Look, CountBuilds, Stop, AppendSeen, Wake, latestVars
<1>2. LatestTypeOK'
  BY <1>1 DEF BackInv, TypeOK, LatestTypeOK, latestVars
<1>3. StartCommit \in Nat \ {0}
  BY DEF Commits
<1>4. \A c : Queued(c)' = Queued(c)
  BY <1>1 DEF Queued
<1>5. NoCommitSkipped <=>
        /\ \A c \in seen : Queued(c)
        /\ script # "off" => \A c \in cursor + 1 .. StartCommit : Queued(c)
  BY DEF NoCommitSkipped, Queued
<1>6. NoCommitSkipped' <=>
        /\ \A c \in seen' : Queued(c)
        /\ script' # "off" => \A c \in cursor' + 1 .. StartCommit : Queued(c)
  BY <1>4 DEF NoCommitSkipped, Queued
<1>7. /\ cursor \in 0 .. StartCommit /\ seen \subseteq 1 .. StartCommit
      /\ \A c \in seen : Queued(c)
      /\ script # "off" => \A c \in cursor + 1 .. StartCommit : Queued(c)
      /\ script \in {"append", "sleep"} => Queued(cursor)
      /\ script \in {"count", "queue", "append", "sleep"} => cursor \in 1 .. StartCommit
  BY <1>5 DEF BackInv, TypeOK
<1>8. /\ script' \in {"off", "look", "count", "queue", "append", "sleep", "ended"}
      /\ cursor' \in 0 .. StartCommit /\ seen' \subseteq 1 .. StartCommit
      /\ starts' \in 0 .. MaxStarts
      /\ script' \in {"count", "queue", "append", "sleep"} => cursor' \in 1 .. StartCommit
      /\ script' \in {"append", "sleep"} => Queued(cursor')
      /\ \A c \in seen' : Queued(c)
      /\ script' # "off" => \A c \in cursor' + 1 .. StartCommit : Queued(c)
  <2>1. starts \in 0 .. MaxStarts
    BY DEF BackInv, TypeOK
  <2>2. CASE Start
    BY <1>3, <1>7, <2>1, <2>2 DEF Start
  <2>3. CASE Look
    <3>1. CASE cursor \in seen /\ cursor' = cursor - 1 /\ script' = script
      <4>1. \A c \in cursor' + 1 .. StartCommit : c = cursor \/ c \in cursor + 1 .. StartCommit
        BY <1>3, <1>7, <3>1
      <4>2. QED
        BY <1>3, <1>7, <2>1, <2>3, <3>1, <4>1 DEF Look
    <3>2. CASE cursor' = cursor
      BY <1>3, <1>7, <2>1, <2>3, <3>2 DEF Look, OutOfCommits
    <3>3. QED
      BY <2>3, <3>1, <3>2 DEF Look
  <2>4. CASE CountBuilds
    BY <1>7, <2>1, <2>4 DEF CountBuilds
  <2>5. CASE Stop
    BY <1>7, <2>1, <2>5 DEF Stop, AfterError
  <2>6. CASE AppendSeen
    BY <1>7, <2>1, <2>6 DEF AppendSeen
  <2>7. CASE Wake
    <3>1. cursor' = cursor - 1 /\ script' = "look" /\ seen' = seen /\ starts' = starts
          /\ cursor \in 1 .. StartCommit /\ Queued(cursor) /\ script = "sleep"
      BY <1>7, <2>7 DEF Wake
    <3>2. \A c \in cursor' + 1 .. StartCommit : c = cursor \/ c \in cursor + 1 .. StartCommit
      BY <1>3, <3>1
    <3>3. QED
      BY <1>3, <1>7, <2>1, <3>1, <3>2
  <2>8. QED
    BY <2>2, <2>3, <2>4, <2>5, <2>6, <2>7 DEF Script
<1>9. TypeOK'
  BY <1>1, <1>2, <1>8 DEF BackInv, TypeOK
<1>10. QED
  BY <1>1, <1>4, <1>6, <1>8, <1>9 DEF BackInv

LEMMA QueueBack ==
  ASSUME BackInv, NEW r \in Runs, QueueRun(r)
  PROVE  BackInv' /\ LatestNext
<1> USE BackfillAssumption, LatestAssumption
<1>1. script = "queue" /\ cursor \in 1 .. StartCommit /\ StartCommit <= head
  BY DEF QueueRun, BackInv
<1>2. cursor \in 1 .. head /\ head \in Commits
  BY <1>1 DEF BackInv, TypeOK, LatestTypeOK, Commits
<1>3. Historical(r)
  BY <1>2 DEF QueueRun, Historical
<1>4. LatestNext
  BY <1>3 DEF LatestNext
<1>5. LatestTypeOK'
  BY <1>4, LatestTypeStep DEF BackInv, TypeOK
<1>6. /\ mine' = mine \cup {r} /\ unlisted' = unlisted \cup {r}
      /\ script' \in {"append", "off"} /\ UNCHANGED <<head, cursor, seen, starts>>
      /\ at[r] = "none" /\ at'[r] = "pending" /\ commit'[r] = cursor
      /\ \A q \in Runs \ {r} : at'[q] = at[q] /\ commit'[q] = commit[q]
  BY DEF QueueRun, Queue, BackInv, TypeOK, LatestTypeOK
<1>7. mine \subseteq Runs \ {r}
  BY <1>6 DEF BackInv, TypeOK
<1>8. Queued(cursor)' /\ \A c : Queued(c) => Queued(c)'
  BY <1>6, <1>7 DEF Queued
<1>9. \A q \in mine' : at'[q] # "none"
  BY <1>6, <1>7 DEF BackInv
<1>10. TypeOK'
  BY <1>5, <1>6 DEF BackInv, TypeOK
<1>11. NoCommitSkipped'
  BY <1>1, <1>6, <1>8 DEF BackInv, NoCommitSkipped, Queued
<1>12. QED
  BY <1>1, <1>4, <1>6, <1>8, <1>9, <1>10, <1>11 DEF BackInv, Queued

LEMMA BackStep ==
  ASSUME BackInv, [Next]_vars
  PROVE  BackInv' /\ [LatestNext]_latestVars
<1>1. CASE ((\E r \in Runs : Push(r) \/ RunStep(r)) \/ Tick) /\ UNCHANGED backVars
  <2>1. LatestNext
    BY <1>1 DEF LatestNext
  <2>2. QED
    BY <1>1, <2>1, LatestBack
<1>2. CASE \E r \in Runs : ShowUp(r)
  BY <1>2 DEF ShowUp, BackInv, TypeOK, NoCommitSkipped, Queued, latestVars, LatestTypeOK
<1>3. CASE UNCHANGED vars
  BY <1>3 DEF vars, backVars, BackInv, TypeOK, NoCommitSkipped, Queued, latestVars, LatestTypeOK
<1>4. QED
  BY <1>1, <1>2, <1>3, ScriptBack, QueueBack DEF Next

(* For any bounds: the types of both modules, with the script's commits between *)
(* the first one and StartCommit.                                               *)
THEOREM TypeCorrect == Spec => []TypeOK
<1>1. BackInv => TypeOK
  BY DEF BackInv
<1>2. QED
  BY <1>1, BackInit, BackStep, PTL DEF Spec

(* Wherever the backfill is stopped and however often it is started again, no  *)
(* commit is taken for done that has no run.                                   *)
THEOREM NothingSkipped == Spec => []NoCommitSkipped
<1>1. BackInv => NoCommitSkipped
  BY DEF BackInv
<1>2. QED
  BY <1>1, BackInit, BackStep, PTL DEF Spec

(* With the backfill the runs do nothing that LatestBlob does not allow, so     *)
(* that its theorems hold here too.                                             *)
THEOREM BackfillImplementsLatest == Spec => LatestSpec
<1>1. BackfillInit => Init
  BY DEF BackfillInit
<1>2. QED
  BY <1>1, BackInit, BackStep, PTL DEF Spec, LatestSpec

-----------------------------------------------------------------------------
(* Until the script is started again, it queues a run only when none of its *)
(* own is unfinished: all that it has queued was listed when it counted.    *)
OneRunInv ==
    /\ starts = 0 => script = "off" /\ mine = {}
    /\ starts <= 1 =>
        /\ script \in {"look", "count"} => unlisted = {}
        /\ script = "queue" => \A r \in mine : ~Unfinished(r)
        /\ \A r, q \in mine : Unfinished(r) /\ Unfinished(q) => r = q

(* A run that has been queued does not begin again. *)
LEMMA StaysFinished ==
  ASSUME BackInv, LatestNext, NEW r \in mine, Unfinished(r)'
  PROVE  Unfinished(r)
<1>1. r \in Runs /\ at[r] # "none" /\ at \in [Runs -> {"none", "pending", "uploading", "succeeded", "failed"}]
  BY DEF BackInv, TypeOK, LatestTypeOK
<1>2. ASSUME NEW q \in Runs, Push(q) \/ Historical(q) PROVE at'[r] = at[r]
  BY <1>1, <1>2 DEF Push, Historical, Queue
<1>3. ASSUME NEW q \in Runs, RunStep(q) PROVE at'[r] = at[r] \/ Unfinished(r)
  BY <1>1, <1>3 DEF RunStep, CheckLatest, UploadKind, RunFails, Unfinished
<1>4. CASE Tick
  BY <1>4 DEF Tick, Unfinished
<1>5. QED
  BY <1>2, <1>3, <1>4 DEF LatestNext, Unfinished

LEMMA OneRunStep ==
  ASSUME BackInv, OneRunInv, [Next]_vars
  PROVE  OneRunInv'
<1>1. CASE ((\E r \in Runs : Push(r) \/ RunStep(r)) \/ Tick) /\ UNCHANGED backVars
  <2>1. LatestNext
    BY <1>1 DEF LatestNext
  <2>2. \A r \in mine : Unfinished(r)' => Unfinished(r)
    BY <2>1, StaysFinished
  <2>3. UNCHANGED <<script, starts, mine, unlisted>>
    BY <1>1 DEF backVars
  <2>4. QED
    BY <2>2, <2>3 DEF OneRunInv
<1>2. CASE Script
  <2>1. UNCHANGED <<at, mine, unlisted>> /\ starts \in Nat
    BY <1>2 DEF Script, Start, Look, CountBuilds, Stop, AppendSeen, Wake, latestVars,
                BackInv, TypeOK
  <2>2. CASE Start
    <3>1. starts' <= 1 => mine = {}
      BY <2>1, <2>2 DEF Start, OneRunInv
    <3>2. unlisted \subseteq mine /\ starts' # 0
      BY <2>1, <2>2 DEF BackInv, TypeOK, Start
    <3>3. QED
      BY <2>1, <2>2, <3>1, <3>2 DEF Start, OneRunInv
  <2>3. CASE CountBuilds
    <3>1. mine \subseteq Runs
      BY DEF BackInv, TypeOK
    <3>2. starts <= 1 => \A r \in mine : ~Unfinished(r)
      BY <2>3, <3>1 DEF CountBuilds, PendingBuilds, OneRunInv
    <3>3. QED
      BY <2>1, <2>3, <3>2 DEF CountBuilds, OneRunInv, Unfinished
  <2>4. CASE Look \/ Stop \/ AppendSeen \/ Wake
    BY <2>1, <2>4 DEF Look, Stop, AfterError, AppendSeen, Wake, ListedByNow, OneRunInv, Unfinished
  <2>5. QED
    BY <1>2, <2>2, <2>3, <2>4 DEF Script
<1>3. ASSUME NEW r \in Runs, QueueRun(r) PROVE OneRunInv'
  <2>1. /\ script = "queue" /\ script' \in {"append", "off"} /\ mine' = mine \cup {r}
        /\ starts' = starts /\ at[r] = "none" /\ \A q \in Runs \ {r} : at'[q] = at[q]
    BY <1>3 DEF QueueRun, Queue, BackInv, TypeOK, LatestTypeOK
  <2>2. starts # 0
    BY <2>1 DEF OneRunInv
  <2>3. ASSUME starts <= 1, NEW q \in mine, Unfinished(q)' PROVE q = r
    BY <2>1, <2>3 DEF OneRunInv, Unfinished, BackInv, TypeOK
  <2>4. QED
    BY <2>1, <2>2, <2>3 DEF OneRunInv
<1>4. CASE (\E r \in Runs : ShowUp(r)) \/ UNCHANGED vars
  <2>1. UNCHANGED <<at, script, mine, starts>> /\ unlisted' \subseteq unlisted
    BY <1>4 DEF ShowUp, latestVars, vars, backVars
  <2>2. QED
    BY <2>1 DEF OneRunInv, Unfinished
<1>5. QED
  BY <1>1, <1>2, <1>3, <1>4 DEF Next

(* The backfill does not flood the agents, whatever other runs are queued     *)
(* meanwhile: of its own, one is pending at a time, for any number of commits. *)
THEOREM BackfillKeepsToOne == Spec => []OneBackfillAtATime
<1>1. BackfillInit => OneRunInv
  BY DEF BackfillInit, OneRunInv
<1>2. BackInv /\ OneRunInv => OneBackfillAtATime
  <2> SUFFICES ASSUME BackInv, OneRunInv, starts <= 1
               PROVE  Cardinality({r \in mine : Unfinished(r)}) <= 1
    BY DEF OneBackfillAtATime
  <2> DEFINE U == {r \in mine : Unfinished(r)}
  <2>1. \A r, q \in U : r = q
    BY DEF OneRunInv
  <2> HIDE DEF U
  <2>2. CASE U = {}
    BY <2>2, FS_EmptySet DEF U
  <2>3. CASE U # {}
    <3>1. PICK r \in U : U = {r}
      BY <2>1, <2>3
    <3>2. Cardinality({r}) = 1
      BY FS_Singleton
    <3>3. QED
      BY <3>1, <3>2 DEF U
  <2>4. QED
    BY <2>2, <2>3
<1>3. QED
  BY <1>1, <1>2, BackInit, BackStep, OneRunStep, PTL DEF Spec
=============================================================================
