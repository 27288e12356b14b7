-------------------------- MODULE HeapProfile_proofs --------------------------
(***************************************************************************)
(* Proofs about HeapProfile, for every set of marks and any number of      *)
(* snapshots and turns.  The inductive invariant says that one snapshot at *)
(* most is being taken, and where it stands: asked for, answered, or       *)
(* given up for ever after a rejection.                                    *)
(***************************************************************************)
EXTENDS HeapProfile, TLAPS

JobSet == [what : {"answered", "taken", "exec", "stop"}, of : Snapshots \cup {Stop}, ok : BOOLEAN]

TypeInv == Typed /\ (compiler = "waiting" => turns < MaxTurns)

(* The jobs in a queue, and that there is one of each kind at most. *)
Elems(q) == {q[i] : i \in 1 .. Len(q)}
Uniq(q) == \A i, j \in 1 .. Len(q) : q[i].what = q[j].what => i = j

(* What is not begun yet, and what has ended. *)
StreamInv ==
    /\ taking <= count
    /\ taking # 0 => stream[taking] = "open"
    /\ \A s \in Snapshots :
        /\ s > count => content[s] = <<>> /\ stream[s] = "none"
        /\ stream[s] = "ended" => content[s] = <<s>> /\ s # taking
        /\ stream[s] = "open" => s = taking /\ pending[Owner(s)] \in {"pending", "rejected"}

(* The snapshot that is being taken. *)
TakingInv ==
    /\ \A s \in asked : s = taking /\ content[s] = <<>>
    /\ taking # 0 => takingSnapshot \/ ~tracking
    /\ waiting => ~tracking
    /\ events = {} /\ tracking => count = 0

(* What a job that is ready says of it. *)
JobInv(j) ==
    /\ j.what = "answered" => /\ j.of = taking /\ taking # 0 /\ asked = {}
                              /\ j.ok => content[taking] = <<taking>>
    /\ j.what = "taken" => taking = 0 /\ count > 0 /\ (takingSnapshot \/ ~tracking)
    /\ j.what = "stop" => taking = 0 /\ ~tracking
    /\ j.what = "exec" => pc = "exec" /\ execSettled /\ (j.ok => ~exitPatched)

JobsInv == Uniq(jobs) /\ \A j \in Elems(jobs) : JobInv(j)

(* Where heapProfile and exec are. *)
ControlInv ==
    /\ compiler = "idle" => /\ pc \notin {"exec", "settle", "disable", "done"}
                            /\ count = 0 /\ jobs = <<>> /\ ~execSettled /\ ~tracking /\ ~waiting
    /\ compiler # "idle" => pc \notin DOMAIN NextStep \cup {"start"} /\ turns >= 1
    /\ compiler # "idle" /\ ~execSettled => pc = "exec"
    /\ pc = "exec" => tracking
    /\ compiler = "running" /\ turns = 1 => ~execSettled
    /\ pc \in {"settle", "disable", "done"} => ~tracking /\ ~exitPatched
    /\ pc \in {"disable", "done"} => taking = 0

Inv == StreamInv /\ TakingInv /\ JobsInv /\ ControlInv

-----------------------------------------------------------------------------
LEMMA SnapshotNumbers ==
  /\ MaxSnapshots \in Nat /\ MaxSnapshots >= 1 /\ MaxTurns \in Nat /\ MaxTurns >= 1
  /\ 0 \notin Snapshots /\ Snapshots \subseteq Nat
<1>1. MaxSnapshots \in Nat \ {0} /\ MaxTurns \in Nat \ {0}
  BY HeapAssumption
<1>2. QED
  BY <1>1 DEF Snapshots

LEMMA JobTyped ==
  ASSUME NEW what \in {"answered", "taken", "exec", "stop"}, NEW s \in Snapshots \cup {0},
         NEW ok \in BOOLEAN
  PROVE  /\ Job(what, s, ok) \in JobSet
         /\ Job(what, s, ok).what = what /\ Job(what, s, ok).of = s /\ Job(what, s, ok).ok = ok
  BY DEF Job, JobSet, Stop

(* The fields of a job, and the queue that holds one more. *)
LEMMA JobsTyped ==
  ASSUME NEW q \in Seq(JobSet), NEW j \in JobSet
  PROVE  /\ Append(q, j) \in Seq(JobSet)
         /\ j.what \in {"answered", "taken", "exec", "stop"}
         /\ j.of \in Snapshots \cup {0} /\ j.ok \in BOOLEAN
         /\ q # <<>> => Tail(q) \in Seq(JobSet) /\ Head(q) \in JobSet
<1>1. Append(q, j) \in Seq(JobSet)
  OBVIOUS
<1>2. q # <<>> => Tail(q) \in Seq(JobSet) /\ Head(q) \in JobSet
  OBVIOUS
<1>3. /\ j.what \in {"answered", "taken", "exec", "stop"}
      /\ j.of \in Snapshots \cup {0} /\ j.ok \in BOOLEAN
  BY DEF JobSet, Stop
<1>4. QED
  BY <1>1, <1>2, <1>3

LEMMA AnswerType ==
  ASSUME SnapshotsTyped, NEW s \in Snapshots, NEW writable, NEW ready \in Seq(JobSet),
         Answer(s, writable, ready)
  PROVE  content' \in [Snapshots -> Seq(Snapshots \cup {Stop})] /\ jobs' \in Seq(JobSet)
<1>1. Job("answered", s, TRUE) \in JobSet /\ Job("answered", s, FALSE) \in JobSet
  BY JobTyped
<1>2. jobs' \in Seq(JobSet)
  BY <1>1, JobsTyped DEF Answer
<1>3. content' \in [Snapshots -> Seq(Snapshots \cup {Stop})]
  <2>1. CASE UNCHANGED content
    BY <2>1 DEF SnapshotsTyped
  <2>2. CASE content' = [content EXCEPT ![writable] = Append(@, s)] /\ writable \in Snapshots
    BY <2>2 DEF SnapshotsTyped
  <2>3. CASE content' = [content EXCEPT ![writable] = Append(@, s)] /\ writable \notin Snapshots
    BY <2>3 DEF SnapshotsTyped
  <2>4. QED
    BY <2>1, <2>2, <2>3 DEF Answer
<1>4. QED
  BY <1>2, <1>3

LEMMA NextSnapshotTyped == SnapshotsTyped /\ count < MaxSnapshots => NextSnapshot \in Snapshots
  BY SnapshotNumbers DEF SnapshotsTyped, NextSnapshot, Snapshots

LEMMA TakeSnapshotType ==
  ASSUME SnapshotsTyped, NEW for \in Marks \cup {AtEnd}, NEW ready \in Seq(JobSet),
         TakeSnapshotVia(NextSnapshot, for, ready)
  PROVE  NextSnapshot \in Snapshots /\ SnapshotsTyped' /\ jobs' \in Seq(JobSet)
<1>1. NextSnapshot \in Snapshots
  BY NextSnapshotTyped DEF TakeSnapshotVia
<1>2. count' \in 0 .. MaxSnapshots
  BY <1>1, SnapshotNumbers DEF TakeSnapshotVia, SnapshotsTyped, Snapshots
<1>3. /\ taking' \in {0} \cup Snapshots
      /\ event' \in [Snapshots -> Marks \cup {AtEnd}]
      /\ stream' \in [Snapshots -> {"none", "open", "ended"}]
  BY <1>1 DEF TakeSnapshotVia, SnapshotsTyped
<1>4. \/ jobs' = Append(ready, Job("taken", NextSnapshot, TRUE)) /\ UNCHANGED <<asked, content>>
      \/ asked' = asked \cup {NextSnapshot} /\ jobs' = ready /\ UNCHANGED content
      \/ Answer(NextSnapshot, NextSnapshot, ready) /\ UNCHANGED asked
  BY DEF TakeSnapshotVia
<1>5. Job("taken", NextSnapshot, TRUE) \in JobSet
  BY <1>1, JobTyped
<1>6. /\ content' \in [Snapshots -> Seq(Snapshots \cup {Stop})]
      /\ asked' \subseteq Snapshots /\ jobs' \in Seq(JobSet)
  <2>1. CASE jobs' = Append(ready, Job("taken", NextSnapshot, TRUE)) /\ UNCHANGED <<asked, content>>
    BY <1>5, <2>1, JobsTyped DEF SnapshotsTyped
  <2>2. CASE asked' = asked \cup {NextSnapshot} /\ jobs' = ready /\ UNCHANGED content
    BY <1>1, <2>2 DEF SnapshotsTyped
  <2>3. CASE Answer(NextSnapshot, NextSnapshot, ready) /\ UNCHANGED asked
    BY <1>1, <2>3, AnswerType DEF SnapshotsTyped
  <2>4. QED
    BY <1>4, <2>1, <2>2, <2>3
<1>7. QED
  BY <1>1, <1>2, <1>3, <1>6 DEF SnapshotsTyped

LEMMA InitType == Init => TypeInv
<1> SUFFICES ASSUME Init PROVE TypeInv
  OBVIOUS
<1>1. ProfileTyped
  BY DEF Init, ProfileTyped, NextStep
<1>2. SnapshotsTyped /\ CompilerTyped
  <2>1. count \in 0 .. MaxSnapshots /\ taking \in {0} \cup Snapshots /\ asked \subseteq Snapshots
    BY SnapshotNumbers DEF Init
  <2>2. /\ event \in [Snapshots -> Marks \cup {AtEnd}]
        /\ stream \in [Snapshots -> {"none", "open", "ended"}]
        /\ content \in [Snapshots -> Seq(Snapshots \cup {Stop})]
    BY DEF Init
  <2>3. compiler = "idle" /\ turns = 0 /\ execSettled \in BOOLEAN /\ exitPatched \in BOOLEAN
    BY DEF Init
  <2>4. CompilerTyped
    BY <2>3, SnapshotNumbers DEF CompilerTyped
  <2>5. QED
    BY <2>1, <2>2, <2>4 DEF SnapshotsTyped
<1>3. jobs \in Seq(JobSet)
  BY DEF Init
<1>4. QED
  BY <1>1, <1>2, <1>3 DEF Init, TypeInv, Typed, JobSet

LEMMA SnapshotsSame == SnapshotsTyped /\ UNCHANGED snapshotVars => SnapshotsTyped'
  BY DEF SnapshotsTyped, snapshotVars

LEMMA CompilerSame == CompilerTyped /\ UNCHANGED compilerVars => CompilerTyped'
  BY DEF CompilerTyped, compilerVars

LEMMA ProfileSame == ProfileTyped /\ UNCHANGED <<profileVars, waiting, pending>> => ProfileTyped'
  BY DEF ProfileTyped, profileVars

(* The steps that touch no snapshot. *)
LEMMA ProfileType == TypeInv /\ (Prepare \/ Exec \/ Settle \/ Disable) => TypeInv'
<1> SUFFICES ASSUME TypeInv, Prepare \/ Exec \/ Settle \/ Disable PROVE TypeInv'
  OBVIOUS
<1> USE DEF TypeInv, Typed, JobSet
<1>1. /\ UNCHANGED <<events, process, later, jobs, marked, snapshotVars>>
      /\ \/ UNCHANGED compilerVars
         \/ turns' = 1 /\ compiler' = "running" /\ exitPatched' = TRUE /\ UNCHANGED execSettled
  BY DEF Prepare, Exec, Settle, Disable
<1>2. CompilerTyped' /\ (compiler' = "waiting" => turns' < MaxTurns)
  <2>1. CASE UNCHANGED compilerVars
    BY <2>1, CompilerSame DEF compilerVars
  <2>2. CASE turns' = 1 /\ compiler' = "running" /\ exitPatched' = TRUE /\ UNCHANGED execSettled
    BY <2>2, SnapshotNumbers DEF CompilerTyped
  <2>3. QED
    BY <1>1, <2>1, <2>2
<1>3. ProfileTyped'
  <2>1. CASE Prepare
    <3>1. \A p \in DOMAIN NextStep : NextStep[p] \in DOMAIN NextStep \cup {"start"}
      BY DEF NextStep
    <3>2. UNCHANGED <<tracking, takingSnapshot, waiting, awaited, pending>> /\ connected' \in BOOLEAN
      BY <2>1 DEF Prepare, ProfileTyped
    <3>3. pc' \in DOMAIN NextStep \cup {"start", "rejected"}
      BY <2>1, <3>1 DEF Prepare
    <3>4. QED
      BY <3>2, <3>3 DEF ProfileTyped
  <2>2. CASE Exec \/ Settle \/ Disable
    BY <2>2 DEF Exec, Settle, Disable, ProfileTyped
  <2>3. QED
    BY <2>1, <2>2
<1>4. QED
  BY <1>1, <1>2, <1>3, SnapshotsSame

LEMMA CompilerType == TypeInv /\ (CompilerStep \/ ProcessStep) => TypeInv'
<1> SUFFICES ASSUME TypeInv, CompilerStep \/ ProcessStep PROVE TypeInv'
  OBVIOUS
<1> USE DEF TypeInv, Typed, JobSet
<1>1. UNCHANGED <<events, later, marked, profileVars, waiting, pending, snapshotVars>>
  BY DEF CompilerStep, ProcessStep, CompilerReturns, CompilerExits, CompilerThrows,
         CompilerResumes, BeforeExit, Crash, End
<1>2. jobs' \in {jobs, Append(jobs, Job("exec", 0, TRUE)), Append(jobs, Job("exec", 0, FALSE))}
  BY DEF CompilerStep, ProcessStep, CompilerReturns, CompilerExits, CompilerThrows,
         CompilerResumes, BeforeExit, Crash, End
<1>3. jobs' \in Seq(JobSet)
  <2>1. Job("exec", 0, TRUE) \in JobSet /\ Job("exec", 0, FALSE) \in JobSet
    BY JobTyped
  <2>2. jobs \in Seq(JobSet)
    OBVIOUS
  <2> HIDE DEF TypeInv, Typed, JobSet
  <2>3. QED
    BY <1>2, <2>1, <2>2, JobsTyped
<1>4. /\ process' \in {"alive", "crashed", "quit", "ended"}
      /\ CompilerTyped' /\ (compiler' = "waiting" => turns' < MaxTurns)
  <2> USE DEF CompilerTyped
  <2>1. CASE CompilerReturns \/ CompilerThrows
    BY <2>1 DEF CompilerReturns, CompilerThrows, Work
  <2>2. CASE CompilerExits
    BY <2>2 DEF CompilerExits, Work
  <2>3. CASE CompilerResumes
    BY <2>3, SnapshotNumbers DEF CompilerResumes
  <2>4. CASE ProcessStep
    BY <2>4 DEF ProcessStep, BeforeExit, Crash, End, compilerVars
  <2>5. QED
    BY <2>1, <2>2, <2>3, <2>4 DEF CompilerStep
<1>5. QED
  BY <1>1, <1>3, <1>4, SnapshotsSame, ProfileSame

LEMMA MarkType == ASSUME TypeInv, NEW e \in Marks, Mark(e) PROVE TypeInv'
<1> USE DEF TypeInv, Typed, JobSet
<1>1. /\ UNCHANGED <<events, process, later, pc, connected, tracking, awaited, compilerVars, waiting>>
      /\ marked' \subseteq Marks /\ CompilerTyped'
  BY CompilerSame DEF Mark
<1>2. CASE UNCHANGED <<takingSnapshot, snapshotVars, pending, jobs>>
  BY <1>1, <1>2, SnapshotsSame, ProfileSame DEF profileVars, compilerVars
<1>3. CASE /\ takingSnapshot' = TRUE
           /\ TakeSnapshotVia(NextSnapshot, e, jobs)
           /\ pending' = [pending EXCEPT ![NextSnapshot] = "pending"]
  <2>1. ProfileTyped'
    BY <1>1, <1>3 DEF ProfileTyped
  <2>2. QED
    BY <1>1, <1>3, <2>1, TakeSnapshotType DEF compilerVars
<1>4. QED
  BY <1>2, <1>3 DEF Mark

LEMMA AgentType == ASSUME TypeInv, NEW s \in Snapshots, AgentAnswers(s) PROVE TypeInv'
<1> USE DEF TypeInv, Typed, JobSet
<1>1. /\ UNCHANGED <<events, process, later, profileVars, compilerVars, waiting, pending, marked>>
      /\ UNCHANGED <<taking, count, event, stream>>
      /\ asked' \subseteq asked /\ Answer(s, taking, jobs)
  BY DEF AgentAnswers
<1>2. SnapshotsTyped' /\ jobs' \in Seq(JobSet)
  BY <1>1, AnswerType DEF SnapshotsTyped
<1>3. QED
  BY <1>1, <1>2, ProfileSame, CompilerSame DEF compilerVars

LEMMA StopTrackingType ==
  ASSUME SnapshotsTyped, ProfileTyped, NEW ready \in Seq(JobSet), StopTracking(ready)
  PROVE  /\ SnapshotsTyped' /\ jobs' \in Seq(JobSet)
         /\ pending' \in [Snapshots \cup {Stop} -> {"none", "pending", "fulfilled", "rejected"}]
<1>1. pending' \in [Snapshots \cup {Stop} -> {"none", "pending", "fulfilled", "rejected"}]
  BY DEF StopTracking, ProfileTyped
<1>2. content' \in [Snapshots -> Seq(Snapshots \cup {Stop})]
  BY DEF StopTracking, SnapshotsTyped
<1>3. QED
  BY <1>1, <1>2 DEF StopTracking, SnapshotsTyped

LEMMA ContinuationType == TypeInv /\ Continuation => TypeInv'
<1> SUFFICES ASSUME TypeInv, Continuation PROVE TypeInv'
  OBVIOUS
<1> USE DEF TypeInv, Typed, JobSet
<1>1. UNCHANGED <<events, process, later, compilerVars, marked>> /\ CompilerTyped'
  BY CompilerSame DEF Continuation, SnapshotAnswered, SnapshotTaken, ExecSettled, StopResumes, profileVars
<1>2. Tail(jobs) \in Seq(JobSet) /\ Head(jobs) \in JobSet
  <2>1. jobs # <<>> /\ jobs \in Seq(JobSet)
    BY DEF Continuation, SnapshotAnswered, SnapshotTaken, ExecSettled, StopResumes, Ready
  <2> HIDE DEF TypeInv, Typed, JobSet
  <2>2. QED
    BY <2>1
<1> DEFINE s == Head(jobs).of
<1>3. s \in Snapshots \cup {0}
  BY <1>2, JobsTyped
<1>4. CASE SnapshotAnswered
  <2>1. jobs' \in Seq(JobSet)
    <3>1. Job("stop", 0, TRUE) \in JobSet /\ Job("taken", s, TRUE) \in JobSet
      BY <1>3, JobTyped
    <3>2. Append(Tail(jobs), Job("stop", 0, TRUE)) \in Seq(JobSet)
      BY <1>2, <3>1, JobsTyped
    <3>3. \/ jobs' = Tail(jobs)
          \/ jobs' = Append(Tail(jobs), Job("taken", s, TRUE))
          \/ jobs' = Append(Append(Tail(jobs), Job("stop", 0, TRUE)), Job("taken", s, TRUE))
      BY <1>4 DEF SnapshotAnswered, Close
    <3> HIDE DEF s, TypeInv, Typed, JobSet
    <3>4. /\ Append(Tail(jobs), Job("taken", s, TRUE)) \in Seq(JobSet)
          /\ Append(Append(Tail(jobs), Job("stop", 0, TRUE)), Job("taken", s, TRUE)) \in Seq(JobSet)
      BY <1>2, <3>1, <3>2, JobsTyped
    <3>5. QED
      BY <1>2, <3>3, <3>4
  <2>2. SnapshotsTyped'
    BY <1>4 DEF SnapshotAnswered, Close, SnapshotsTyped
  <2>3. ProfileTyped'
    BY <1>4 DEF SnapshotAnswered, Close, ProfileTyped, profileVars
  <2>4. QED
    BY <1>1, <2>1, <2>2, <2>3 DEF compilerVars
<1>5. CASE SnapshotTaken
  <2>1. jobs' = Tail(jobs) /\ UNCHANGED snapshotVars
    BY <1>5 DEF SnapshotTaken
  <2>2. ProfileTyped'
    BY <1>5 DEF SnapshotTaken, ProfileTyped
  <2>3. QED
    BY <1>1, <1>2, <2>1, <2>2, SnapshotsSame DEF compilerVars
<1>6. CASE ExecSettled
  <2>1. CASE ~Head(jobs).ok
    <3>1. ProfileTyped' /\ jobs' = Tail(jobs) /\ UNCHANGED snapshotVars
      BY <1>6, <2>1 DEF ExecSettled, ProfileTyped
    <3>2. QED
      BY <1>1, <1>2, <3>1, SnapshotsSame DEF compilerVars
  <2>2. CASE Head(jobs).ok
    <3>1. /\ pc' = "settle" /\ tracking' = FALSE /\ awaited' = TRUE /\ waiting' = StopWaits
          /\ UNCHANGED <<connected, takingSnapshot>>
          /\ \/ /\ pending' = [pending EXCEPT ![Stop] = "pending"]
                /\ jobs' = Tail(jobs) /\ UNCHANGED snapshotVars
             \/ StopTracking(Tail(jobs))
             \/ SnapshotAtEnd(Tail(jobs))
      BY <1>6, <2>2 DEF ExecSettled
    <3>2. /\ SnapshotsTyped' /\ jobs' \in Seq(JobSet)
          /\ pending' \in [Snapshots \cup {Stop} -> {"none", "pending", "fulfilled", "rejected"}]
      <4>1. CASE /\ pending' = [pending EXCEPT ![Stop] = "pending"]
                 /\ jobs' = Tail(jobs) /\ UNCHANGED snapshotVars
        BY <1>2, <4>1, SnapshotsSame DEF ProfileTyped
      <4>2. CASE StopTracking(Tail(jobs))
        BY <1>2, <4>2, StopTrackingType
      <4>3. CASE SnapshotAtEnd(Tail(jobs))
        BY <1>2, <4>3, TakeSnapshotType DEF SnapshotAtEnd, ProfileTyped
      <4>4. QED
        BY <3>1, <4>1, <4>2, <4>3
    <3>3. ProfileTyped'
      BY <3>1, <3>2 DEF ProfileTyped, StopWaits
    <3>4. QED
      BY <1>1, <3>2, <3>3 DEF compilerVars
  <2>3. QED
    BY <2>1, <2>2
<1>7. CASE StopResumes
  <2>1. StopTracking(Tail(jobs)) /\ UNCHANGED <<profileVars, waiting>>
    BY <1>7 DEF StopResumes
  <2>2. /\ SnapshotsTyped' /\ jobs' \in Seq(JobSet)
        /\ pending' \in [Snapshots \cup {Stop} -> {"none", "pending", "fulfilled", "rejected"}]
    BY <1>2, <2>1, StopTrackingType
  <2>3. ProfileTyped'
    BY <2>1, <2>2 DEF ProfileTyped, profileVars
  <2>4. QED
    BY <1>1, <2>2, <2>3 DEF compilerVars
<1>8. QED
  BY <1>4, <1>5, <1>6, <1>7 DEF Continuation

LEMMA TypeStep == TypeInv /\ [Next]_vars => TypeInv'
<1> SUFFICES ASSUME TypeInv, [Next]_vars PROVE TypeInv'
  OBVIOUS
<1>1. CASE UNCHANGED vars
  <2>1. SnapshotsTyped' /\ CompilerTyped' /\ ProfileTyped'
    BY <1>1, SnapshotsSame, CompilerSame, ProfileSame DEF TypeInv, Typed, vars
  <2>2. QED
    BY <1>1, <2>1 DEF TypeInv, Typed, vars, compilerVars
<1>2. CASE Step
  BY <1>2, ProfileType, CompilerType, AgentType, ContinuationType
  DEF Step, CompilerStep, AgentStep, ProfileStep, ProcessStep
<1>3. CASE StreamFails
  <2>1. SnapshotsTyped' /\ CompilerTyped' /\ ProfileTyped'
    BY <1>3, SnapshotsSame, CompilerSame, ProfileSame DEF TypeInv, Typed, StreamFails
  <2>2. QED
    BY <1>3, <2>1 DEF TypeInv, Typed, StreamFails, compilerVars
<1>4. QED
  BY <1>1, <1>2, <1>3, MarkType DEF Next, Ended

-----------------------------------------------------------------------------
(* Queues with one job of each kind at most. *)
LEMMA TailJobs ==
  ASSUME NEW q \in Seq(JobSet), q # <<>>, Uniq(q)
  PROVE  /\ Uniq(Tail(q)) /\ Head(q) \in Elems(q) /\ Elems(Tail(q)) \subseteq Elems(q)
         /\ \A j \in Elems(Tail(q)) : j.what # Head(q).what
<1>1. Len(q) \in Nat /\ Len(q) >= 1 /\ Len(Tail(q)) = Len(q) - 1 /\ Head(q) = q[1]
  OBVIOUS
<1>2. \A i \in 1 .. Len(Tail(q)) : i + 1 \in 2 .. Len(q) /\ Tail(q)[i] = q[i + 1]
  BY <1>1
<1>3. Uniq(Tail(q))
  BY <1>1, <1>2 DEF Uniq
<1>4. Head(q) \in Elems(q)
  BY <1>1 DEF Elems
<1>5. ASSUME NEW j \in Elems(Tail(q)) PROVE j \in Elems(q) /\ j.what # Head(q).what
  <2>1. PICK i \in 1 .. Len(Tail(q)) : j = Tail(q)[i]
    BY DEF Elems
  <2>2. j = q[i + 1] /\ i + 1 \in 1 .. Len(q) /\ i + 1 # 1 /\ 1 \in 1 .. Len(q)
    BY <1>1, <1>2, <2>1
  <2>3. QED
    BY <1>1, <2>2 DEF Elems, Uniq
<1>6. QED
  BY <1>3, <1>4, <1>5

LEMMA AppendJobs ==
  ASSUME NEW q \in Seq(JobSet), Uniq(q), NEW j \in JobSet,
         \A k \in Elems(q) : k.what # j.what
  PROVE  Uniq(Append(q, j)) /\ Elems(Append(q, j)) = Elems(q) \cup {j}
<1> DEFINE n == Len(q)
<1>1. /\ n \in Nat /\ Len(Append(q, j)) = n + 1 /\ Append(q, j)[n + 1] = j
      /\ \A i \in 1 .. n : Append(q, j)[i] = q[i]
  OBVIOUS
<1>2. \A i \in 1 .. n : q[i] \in Elems(q) /\ q[i].what # j.what
  BY DEF Elems
<1> DEFINE a == Append(q, j)
<1> HIDE DEF a
<1>3. Uniq(a)
  <2> SUFFICES ASSUME NEW i \in 1 .. n + 1, NEW k \in 1 .. n + 1, a[i].what = a[k].what
               PROVE  i = k
    BY <1>1 DEF Uniq, a
  <2>1. CASE i \in 1 .. n /\ k \in 1 .. n
    BY <1>1, <2>1 DEF Uniq, a
  <2>2. CASE i = n + 1 /\ k \in 1 .. n
    BY <1>1, <1>2, <2>2 DEF a
  <2>3. CASE k = n + 1 /\ i \in 1 .. n
    BY <1>1, <1>2, <2>3 DEF a
  <2>4. CASE i = n + 1 /\ k = n + 1
    BY <2>4
  <2>5. QED
    BY <1>1, <2>1, <2>2, <2>3, <2>4
<1>4. Elems(a) = Elems(q) \cup {j}
  <2>1. Elems(a) = {a[i] : i \in 1 .. n + 1}
    BY <1>1 DEF Elems, a
  <2>2. 1 .. n + 1 = (1 .. n) \cup {n + 1}
    BY <1>1
  <2>3. QED
    BY <1>1, <2>1, <2>2 DEF Elems, a
<1>5. QED
  BY <1>3, <1>4 DEF a

-----------------------------------------------------------------------------
(* A snapshot begins when none is being taken. *)
LEMMA SnapshotBegins ==
  ASSUME TypeInv, StreamInv, TakingInv, taking = 0, NEW for \in Marks \cup {AtEnd},
         NEW ready \in Seq(JobSet), Uniq(ready), \A j \in Elems(ready) : j.what # "answered",
         TakeSnapshotVia(NextSnapshot, for, ready)
  PROVE  /\ taking' = NextSnapshot /\ count' = NextSnapshot
         /\ event' = [event EXCEPT ![NextSnapshot] = for]
         /\ stream' = [stream EXCEPT ![NextSnapshot] = "open"]
         /\ asked' \subseteq {NextSnapshot}
         /\ \A t \in Snapshots : t # NextSnapshot => content'[t] = content[t]
         /\ NextSnapshot \in asked' => content'[NextSnapshot] = <<>>
         /\ Uniq(jobs')
         /\ \A j \in Elems(jobs') :
              \/ j \in Elems(ready)
              \/ /\ j.what = "answered" /\ j.of = NextSnapshot /\ asked' = {}
                 /\ j.ok => content'[NextSnapshot] = <<NextSnapshot>>
<1> DEFINE n == NextSnapshot
<1>1. /\ n \in Snapshots /\ n > count /\ content[n] = <<>> /\ asked = {}
      /\ content \in [Snapshots -> Seq(Snapshots \cup {Stop})]
  <2>1. SnapshotsTyped /\ count \in Nat
    BY SnapshotNumbers DEF TypeInv, Typed, SnapshotsTyped
  <2>2. n \in Snapshots
    BY <2>1, NextSnapshotTyped DEF TakeSnapshotVia
  <2>3. n > count
    BY <2>1 DEF NextSnapshot
  <2>4. asked = {}
    BY <2>1, SnapshotNumbers DEF TakingInv, SnapshotsTyped
  <2>5. QED
    BY <2>1, <2>2, <2>3, <2>4 DEF StreamInv, SnapshotsTyped
<1>2. /\ taking' = n /\ count' = n /\ event' = [event EXCEPT ![n] = for]
      /\ stream' = [stream EXCEPT ![n] = "open"]
      /\ \/ asked' = {n} /\ jobs' = ready /\ UNCHANGED content
         \/ /\ asked' = {} /\ content' = [content EXCEPT ![n] = Append(@, n)]
            /\ jobs' = Append(ready, Job("answered", n, TRUE))
         \/ /\ asked' = {} /\ UNCHANGED content
            /\ jobs' = Append(ready, Job("answered", n, FALSE))
  BY <1>1 DEF TakeSnapshotVia, Answer
<1> HIDE DEF n
<1>3. ASSUME NEW ok \in BOOLEAN, jobs' = Append(ready, Job("answered", n, ok)), asked' = {},
             ok => content'[n] = <<n>>
      PROVE  /\ Uniq(jobs')
             /\ \A j \in Elems(jobs') :
                  \/ j \in Elems(ready)
                  \/ /\ j.what = "answered" /\ j.of = n /\ asked' = {}
                     /\ j.ok => content'[n] = <<n>>
  <2> DEFINE a == Job("answered", n, ok)
  <2>1. a \in JobSet /\ a.what = "answered" /\ a.of = n /\ a.ok = ok
    BY <1>1, JobTyped
  <2> HIDE DEF a
  <2>2. Uniq(Append(ready, a)) /\ Elems(Append(ready, a)) = Elems(ready) \cup {a}
    BY <2>1, AppendJobs
  <2>3. jobs' = Append(ready, a)
    BY <1>3 DEF a
  <2>4. QED
    BY <1>3, <2>1, <2>2, <2>3
<1>4. CASE asked' = {n} /\ jobs' = ready /\ UNCHANGED content
  BY <1>1, <1>2, <1>4 DEF n
<1>5. CASE /\ asked' = {} /\ content' = [content EXCEPT ![n] = Append(@, n)]
           /\ jobs' = Append(ready, Job("answered", n, TRUE))
  <2>1. content'[n] = <<n>> /\ \A t \in Snapshots : t # n => content'[t] = content[t]
    BY <1>1, <1>5
  <2>2. QED
    BY <1>2, <1>3, <1>5, <2>1 DEF n
<1>6. CASE /\ asked' = {} /\ UNCHANGED content
           /\ jobs' = Append(ready, Job("answered", n, FALSE))
  BY <1>2, <1>3, <1>6 DEF n
<1>7. QED
  BY <1>2, <1>4, <1>5, <1>6

(* What the invariant says of streams, when a snapshot has begun. *)
LEMMA BegunStream ==
  ASSUME TypeInv, StreamInv, taking = 0,
         NEW n \in Snapshots, n = NextSnapshot, NEW for \in Marks \cup {AtEnd},
         taking' = n, count' = n, event' = [event EXCEPT ![n] = for],
         stream' = [stream EXCEPT ![n] = "open"],
         \A t \in Snapshots : t # n => content'[t] = content[t],
         pending'[IF for = AtEnd THEN Stop ELSE n] = "pending"
  PROVE  StreamInv'
<1>1. n \in Nat /\ n > count /\ count \in Nat
  BY SnapshotNumbers DEF NextSnapshot, TypeInv, Typed, SnapshotsTyped
<1>2. event'[n] = for /\ stream'[n] = "open" /\ \A t \in Snapshots : t # n => stream'[t] = stream[t]
  BY DEF TypeInv, Typed, SnapshotsTyped
<1>3. pending'[IF event'[n] = AtEnd THEN Stop ELSE n] = "pending"
  BY <1>2
<1>4. taking' <= count' /\ stream'[taking'] = "open"
  BY <1>1, <1>2
<1>5. ASSUME NEW s \in Snapshots
      PROVE  /\ s > count' => content'[s] = <<>> /\ stream'[s] = "none"
             /\ stream'[s] = "ended" => content'[s] = <<s>> /\ s # taking'
             /\ stream'[s] = "open" =>
                  s = taking' /\ pending'[IF event'[s] = AtEnd THEN Stop ELSE s] \in {"pending", "rejected"}
  <2>1. CASE s = n
    BY <1>1, <1>2, <1>3, <2>1
  <2>2. CASE s # n
    <3>1. s \in Nat /\ s # 0 /\ stream'[s] = stream[s] /\ content'[s] = content[s]
      BY <1>2, <2>2, SnapshotNumbers
    <3>2. stream[s] # "open"
      BY <3>1 DEF StreamInv
    <3>3. s > n => s > count
      BY <1>1, <3>1
    <3>4. QED
      BY <2>2, <3>1, <3>2, <3>3 DEF StreamInv
  <2>3. QED
    BY <2>1, <2>2
<1>6. QED
  BY <1>4, <1>5 DEF StreamInv, Owner

-----------------------------------------------------------------------------
(* The parts of the invariant that a step leaves alone. *)
LEMMA StreamSame == StreamInv /\ UNCHANGED <<snapshotVars, pending>> => StreamInv'
  BY DEF StreamInv, Owner, snapshotVars

LEMMA TakingSame ==
  TakingInv /\ UNCHANGED <<snapshotVars, takingSnapshot, tracking, waiting, events>> => TakingInv'
  BY DEF TakingInv, snapshotVars

LEMMA JobSame ==
  ASSUME NEW j, JobInv(j), UNCHANGED <<snapshotVars, takingSnapshot, tracking, pc>>,
         execSettled => execSettled', exitPatched' => exitPatched
  PROVE  JobInv(j)'
  BY DEF JobInv, snapshotVars

LEMMA JobsSame ==
  ASSUME JobsInv, UNCHANGED <<jobs, snapshotVars, takingSnapshot, tracking, pc>>,
         execSettled => execSettled', exitPatched' => exitPatched
  PROVE  JobsInv'
<1>1. ASSUME NEW j \in Elems(jobs) PROVE JobInv(j)'
  BY JobSame DEF JobsInv
<1>2. Uniq(jobs') /\ jobs' = jobs
  BY DEF JobsInv
<1> QED
  BY <1>1, <1>2 DEF JobsInv

(* The job that is taken from the queue, and those that stay. *)
LEMMA HeadFacts ==
  ASSUME TypeInv, Inv, jobs # <<>>
  PROVE  /\ compiler # "idle" /\ JobInv(Head(jobs)) /\ Head(jobs) \in JobSet
         /\ Tail(jobs) \in Seq(JobSet) /\ Uniq(Tail(jobs))
         /\ \A j \in Elems(Tail(jobs)) : JobInv(j) /\ j.what # Head(jobs).what
<1>1. jobs \in Seq(JobSet)
  BY DEF TypeInv, Typed, JobSet
<1>2. Tail(jobs) \in Seq(JobSet) /\ Head(jobs) \in JobSet
  BY <1>1
<1>3. Uniq(jobs) /\ \A j \in Elems(jobs) : JobInv(j)
  BY DEF Inv, JobsInv
<1>4. compiler # "idle"
  BY DEF Inv, ControlInv
<1>5. QED
  BY <1>1, <1>2, <1>3, <1>4, TailJobs

LEMMA InitInv == Init => Inv
<1> SUFFICES ASSUME Init PROVE Inv
  OBVIOUS
<1>1. StreamInv /\ TakingInv
  BY SnapshotNumbers DEF Init, StreamInv, TakingInv
<1>2. JobsInv
  BY DEF Init, JobsInv, Uniq, Elems
<1>3. ControlInv
  BY DEF Init, ControlInv, NextStep
<1>4. QED
  BY <1>1, <1>2, <1>3 DEF Inv

LEMMA ProfileInv == TypeInv /\ Inv /\ ProfileStep => Inv'
<1> SUFFICES ASSUME TypeInv, Inv, ProfileStep PROVE Inv'
  OBVIOUS
<1>1. StreamInv'
  BY StreamSame DEF ProfileStep, Prepare, Exec, Settle, Disable, Inv
<1>2. CASE Prepare \/ Exec
  <2>1. /\ pc \in DOMAIN NextStep \cup {"start"} /\ compiler = "idle"
    BY <1>2 DEF Prepare, Exec, Inv, ControlInv
  <2>2. count = 0 /\ jobs = <<>> /\ ~execSettled /\ ~waiting /\ ~tracking
    BY <2>1 DEF Inv, ControlInv
  <2>3. taking = 0
    BY <2>2, SnapshotNumbers DEF Inv, StreamInv, TypeInv, Typed, SnapshotsTyped
  <2>4. UNCHANGED <<events, snapshotVars, waiting, takingSnapshot, jobs, execSettled>>
    BY <1>2 DEF Prepare, Exec, compilerVars
  <2>5. TakingInv'
    BY <2>2, <2>3, <2>4 DEF Inv, TakingInv, snapshotVars
  <2>6. JobsInv'
    BY <2>2, <2>4 DEF JobsInv, Uniq, Elems
  <2>7. ControlInv'
    <3>1. CASE Prepare
      <4>1. pc' \in DOMAIN NextStep \cup {"start", "rejected"}
        BY <3>1 DEF Prepare, NextStep
      <4>2. compiler' = "idle" /\ UNCHANGED <<count, jobs, execSettled, tracking, waiting, taking>>
        BY <2>1, <3>1 DEF Prepare, compilerVars, snapshotVars
      <4>3. QED
        BY <2>2, <2>3, <4>1, <4>2 DEF ControlInv, NextStep
    <3>2. CASE Exec
      <4>1. pc' = "exec" /\ tracking' = TRUE /\ compiler' = "running" /\ turns' = 1
        BY <3>2 DEF Exec
      <4>2. QED
        BY <2>2, <2>4, <4>1 DEF ControlInv, NextStep
    <3>3. QED
      BY <1>2, <3>1, <3>2
  <2>8. QED
    BY <1>1, <2>5, <2>6, <2>7 DEF Inv
<1>3. CASE Settle \/ Disable
  <2>1. /\ UNCHANGED <<events, snapshotVars, compilerVars, waiting, tracking, takingSnapshot, jobs, pending>>
        /\ pc \in {"settle", "disable"} /\ pc' \in {"disable", "done", "rejected"}
    BY <1>3 DEF Settle, Disable
  <2>2. TakingInv'
    BY <2>1, TakingSame DEF Inv
  <2>3. compiler # "idle"
    BY <2>1 DEF Inv, ControlInv
  <2>4. JobsInv'
    <3>1. ASSUME NEW j \in Elems(jobs) PROVE JobInv(j)'
      <4>1. JobInv(j)
        BY DEF Inv, JobsInv
      <4>2. QED
        BY <2>1, <4>1 DEF JobInv, snapshotVars, compilerVars
    <3>2. Uniq(jobs') /\ jobs' = jobs
      BY <2>1 DEF Inv, JobsInv
    <3>3. QED
      BY <3>1, <3>2 DEF JobsInv
  <2>5. pc' \in {"disable", "done"} => taking = 0
    <3>1. CASE Settle
      <4>1. ASSUME pc' = "disable", taking # 0 PROVE FALSE
        <5>1. taking \in Snapshots /\ stream[taking] = "open"
          BY <4>1 DEF Inv, StreamInv, TypeInv, Typed, SnapshotsTyped
        <5>2. pending[Owner(taking)] \in {"pending", "rejected"} /\ Owner(taking) \in Snapshots \cup {Stop}
          BY <5>1 DEF Inv, StreamInv, Owner
        <5>3. DOMAIN pending = Snapshots \cup {Stop}
          BY DEF TypeInv, Typed, ProfileTyped
        <5>4. \A s \in DOMAIN pending : pending[s] # "rejected"
          BY <3>1, <4>1 DEF Settle
        <5>5. \A s \in DOMAIN pending : pending[s] # "pending"
          BY <3>1, <5>4 DEF Settle, Settled
        <5>6. QED
          BY <5>2, <5>3, <5>4, <5>5
      <4>2. pc' # "done"
        BY <3>1 DEF Settle
      <4>3. QED
        BY <4>1, <4>2
    <3>2. CASE Disable
      BY <3>2 DEF Disable, Inv, ControlInv
    <3>3. QED
      BY <1>3, <3>1, <3>2
  <2>6. ControlInv'
    BY <2>1, <2>3, <2>5 DEF Inv, ControlInv, NextStep, snapshotVars, compilerVars
  <2>7. QED
    BY <1>1, <2>2, <2>4, <2>6 DEF Inv
<1>4. QED
  BY <1>2, <1>3 DEF ProfileStep

-----------------------------------------------------------------------------
(* exec's promise is settled once. *)
LEMMA ExecJob ==
  ASSUME TypeInv, Inv, compiler # "idle", ~execSettled, NEW ok \in BOOLEAN,
         jobs' = Append(jobs, Job("exec", 0, ok)),
         UNCHANGED <<snapshotVars, takingSnapshot, tracking, pc>>,
         execSettled' = TRUE, exitPatched' => exitPatched, ok => ~exitPatched'
  PROVE  JobsInv'
<1> DEFINE x == Job("exec", 0, ok)
<1>1. x \in JobSet /\ x.what = "exec" /\ x.ok = ok
  BY DEF Job, JobSet, Stop
<1>2. jobs' = Append(jobs, x)
  OBVIOUS
<1> HIDE DEF x
<1>3. \A j \in Elems(jobs) : JobInv(j) /\ j.what # "exec"
  BY DEF Inv, JobsInv, JobInv
<1>4. Uniq(jobs') /\ Elems(jobs') = Elems(jobs) \cup {x}
  <2>1. Uniq(jobs) /\ jobs \in Seq(JobSet)
    BY DEF Inv, JobsInv, TypeInv, Typed, JobSet
  <2>2. \A j \in Elems(jobs) : j.what # x.what
    BY <1>1, <1>3
  <2>3. Uniq(Append(jobs, x)) /\ Elems(Append(jobs, x)) = Elems(jobs) \cup {x}
    BY <1>1, <2>1, <2>2, AppendJobs
  <2>4. QED
    BY <1>2, <2>3
<1>5. \A j \in Elems(jobs) : JobInv(j)'
  BY <1>3, JobSame
<1>6. JobInv(x)'
  <2>1. pc' = "exec"
    BY DEF Inv, ControlInv
  <2>2. QED
    BY <1>1, <2>1 DEF JobInv
<1>7. QED
  BY <1>4, <1>5, <1>6 DEF JobsInv

LEMMA CompilerInv == TypeInv /\ Inv /\ (CompilerStep \/ ProcessStep) => Inv'
<1> SUFFICES ASSUME TypeInv, Inv, CompilerStep \/ ProcessStep PROVE Inv'
  OBVIOUS
<1>1. UNCHANGED <<events, profileVars, waiting, pending, snapshotVars>>
  BY DEF CompilerStep, ProcessStep, CompilerReturns, CompilerExits, CompilerThrows,
         CompilerResumes, BeforeExit, Crash, End
<1>2. StreamInv' /\ TakingInv'
  BY <1>1, StreamSame, TakingSame DEF Inv, profileVars
<1>3. /\ execSettled => execSettled'
      /\ exitPatched' => exitPatched
  <2>1. /\ execSettled' = execSettled \/ execSettled' = TRUE
        /\ exitPatched' = exitPatched \/ exitPatched' = FALSE
    <3>1. CASE CompilerReturns \/ CompilerResumes \/ Crash \/ End
      BY <3>1 DEF CompilerReturns, CompilerResumes, Crash, End, compilerVars
    <3>2. CASE CompilerExits
      BY <3>2 DEF CompilerExits
    <3>3. CASE CompilerThrows
      BY <3>3 DEF CompilerThrows
    <3>4. CASE BeforeExit
      BY <3>4 DEF BeforeExit
    <3>5. QED
      BY <3>1, <3>2, <3>3, <3>4 DEF CompilerStep, ProcessStep
  <2>2. QED
    BY <2>1
<1>4. \/ UNCHANGED <<jobs, execSettled>>
      \/ UNCHANGED jobs /\ execSettled
      \/ \E ok \in BOOLEAN :
           /\ compiler # "idle" /\ ~execSettled /\ execSettled' = TRUE
           /\ jobs' = Append(jobs, Job("exec", 0, ok)) /\ (ok => ~exitPatched')
  <2>1. CASE CompilerReturns \/ CompilerResumes \/ Crash \/ End
    BY <2>1 DEF CompilerReturns, CompilerResumes, Crash, End, compilerVars
  <2>2. CASE CompilerExits \/ CompilerThrows
    BY <2>2 DEF CompilerExits, CompilerThrows, Inv, ControlInv
  <2>3. CASE BeforeExit
    BY <2>3 DEF BeforeExit
  <2>4. QED
    BY <2>1, <2>2, <2>3 DEF CompilerStep, ProcessStep
<1>5. JobsInv'
  <2>1. CASE UNCHANGED jobs
    BY <1>1, <1>3, <2>1, JobsSame DEF Inv, profileVars
  <2>2. ASSUME NEW ok \in BOOLEAN,
               compiler # "idle" /\ ~execSettled /\ execSettled' = TRUE,
               jobs' = Append(jobs, Job("exec", 0, ok)) /\ (ok => ~exitPatched')
        PROVE  JobsInv'
    BY <1>1, <1>3, <2>2, ExecJob DEF profileVars
  <2>3. QED
    BY <1>4, <2>1, <2>2
<1>6. ControlInv'
  <2>1. CASE compiler = "idle"
    <3>1. Crash \/ End
      BY <2>1 DEF CompilerStep, ProcessStep, CompilerReturns, CompilerExits, CompilerThrows,
                  CompilerResumes, BeforeExit
    <3>2. UNCHANGED <<compilerVars, jobs>>
      BY <3>1 DEF Crash, End
    <3>3. QED
      BY <1>1, <2>1, <3>2 DEF Inv, ControlInv, profileVars, snapshotVars, compilerVars, NextStep
  <2>2. CASE compiler # "idle"
    <3>1. turns \in Nat /\ turns >= 1
      BY <2>2, SnapshotNumbers DEF Inv, ControlInv, TypeInv, Typed, CompilerTyped
    <3>2. /\ compiler' # "idle" /\ turns' >= 1
          /\ compiler' = "running" /\ turns' = 1 => ~execSettled'
      <4>1. CASE CompilerReturns \/ CompilerExits \/ CompilerThrows
        <5>1. UNCHANGED turns /\ compiler = "running"
          BY <4>1 DEF CompilerReturns, CompilerExits, CompilerThrows
        <5>2. \/ compiler' \in {"waiting", "finished"}
              \/ compiler' = "running" /\ UNCHANGED execSettled
          BY <4>1, <5>1 DEF CompilerReturns, CompilerExits, CompilerThrows, Work
        <5>3. QED
          BY <3>1, <5>1, <5>2 DEF Inv, ControlInv
      <4>2. CASE CompilerResumes
        BY <3>1, <4>2 DEF CompilerResumes
      <4>3. CASE BeforeExit \/ Crash \/ End
        <5>1. UNCHANGED <<compiler, turns>> /\ compiler # "running"
          BY <4>3 DEF BeforeExit, Crash, End, compilerVars, NothingAhead, Quiet
        <5>2. QED
          BY <2>2, <3>1, <5>1
      <4>4. QED
        BY <4>1, <4>2, <4>3 DEF CompilerStep, ProcessStep
    <3>3. QED
      BY <1>1, <1>3, <2>2, <3>2 DEF Inv, ControlInv, profileVars, snapshotVars, NextStep
  <2>3. QED
    BY <2>1, <2>2
<1>7. QED
  BY <1>2, <1>5, <1>6 DEF Inv

LEMMA MarkInv == ASSUME TypeInv, Inv, NEW e \in Marks, Mark(e) PROVE Inv'
<1>1. /\ UNCHANGED <<events, pc, tracking, compilerVars, waiting>> /\ compiler = "running"
  BY DEF Mark
<1>2. CASE UNCHANGED <<takingSnapshot, snapshotVars, pending, jobs>>
  <2>1. StreamInv' /\ TakingInv'
    BY <1>1, <1>2, StreamSame, TakingSame DEF Inv
  <2>2. JobsInv'
    BY <1>1, <1>2, JobsSame DEF Inv, compilerVars
  <2>3. ControlInv'
    BY <1>1, <1>2 DEF Inv, ControlInv, compilerVars, snapshotVars, NextStep
  <2>4. QED
    BY <2>1, <2>2, <2>3 DEF Inv
<1>3. CASE /\ Wanted(e) /\ takingSnapshot' = TRUE
           /\ TakeSnapshotVia(NextSnapshot, e, jobs)
           /\ pending' = [pending EXCEPT ![NextSnapshot] = "pending"]
  <2>1. tracking /\ ~takingSnapshot /\ events # {}
    BY <1>3 DEF Wanted
  <2>2. taking = 0 /\ NextSnapshot \in Snapshots
    <3>1. taking = 0
      BY <2>1 DEF Inv, TakingInv
    <3>2. NextSnapshot \in Snapshots
      BY <1>3, NextSnapshotTyped DEF TypeInv, Typed, TakeSnapshotVia
    <3>3. QED
      BY <3>1, <3>2
  <2>3. \A j \in Elems(jobs) : JobInv(j) /\ j.what \notin {"answered", "taken", "stop"}
    BY <2>1, <2>2 DEF Inv, JobsInv, JobInv
  <2>4. jobs \in Seq(JobSet) /\ Uniq(jobs) /\ StreamInv /\ TakingInv /\ e \in Marks \cup {AtEnd}
    BY DEF Inv, JobsInv, TypeInv, Typed, JobSet
  <2> DEFINE n == NextSnapshot
  <2>5. /\ taking' = n /\ count' = n /\ event' = [event EXCEPT ![n] = e]
        /\ stream' = [stream EXCEPT ![n] = "open"] /\ asked' \subseteq {n}
        /\ \A t \in Snapshots : t # n => content'[t] = content[t]
        /\ n \in asked' => content'[n] = <<>>
        /\ Uniq(jobs')
        /\ \A j \in Elems(jobs') :
             \/ j \in Elems(jobs)
             \/ /\ j.what = "answered" /\ j.of = n /\ asked' = {}
                /\ j.ok => content'[n] = <<n>>
    <3>1. \A j \in Elems(jobs) : j.what # "answered"
      BY <2>3
    <3>2. TakeSnapshotVia(NextSnapshot, e, jobs)
      BY <1>3
    <3>3. QED
      BY <2>2, <2>4, <3>1, <3>2, SnapshotBegins
  <2>6. e # AtEnd
    BY HeapAssumption DEF AtEnd
  <2>7. pending'[IF e = AtEnd THEN Stop ELSE n] = "pending"
    BY <1>3, <2>2, <2>6 DEF TypeInv, Typed, ProfileTyped
  <2> HIDE DEF n
  <2>8. StreamInv'
    BY <2>2, <2>4, <2>5, <2>7, BegunStream DEF n
  <2>9. TakingInv'
    BY <1>1, <1>3, <2>1, <2>5 DEF Inv, TakingInv
  <2>10. ASSUME NEW j \in Elems(jobs') PROVE JobInv(j)'
    <3>1. CASE j \in Elems(jobs)
      BY <1>1, <2>3, <3>1 DEF JobInv, compilerVars
    <3>2. CASE /\ j.what = "answered" /\ j.of = n /\ asked' = {}
               /\ j.ok => content'[n] = <<n>>
      BY <2>2, <2>5, <3>2, SnapshotNumbers DEF JobInv, n
    <3>3. QED
      BY <2>5, <3>1, <3>2
  <2>11. ControlInv'
    BY <1>1, <2>1 DEF Inv, ControlInv, compilerVars, NextStep
  <2>12. QED
    BY <2>5, <2>8, <2>9, <2>10, <2>11 DEF Inv, JobsInv
<1>4. QED
  BY <1>2, <1>3 DEF Mark

LEMMA AgentInv == ASSUME TypeInv, Inv, NEW s \in Snapshots, AgentAnswers(s) PROVE Inv'
<1>1. /\ UNCHANGED <<events, profileVars, compilerVars, waiting, pending, taking, count, event, stream>>
      /\ s \in asked /\ asked' = asked \ {s} /\ jobs = <<>> /\ Answer(s, taking, <<>>)
  BY DEF AgentAnswers, Quiet
<1>2. s = taking /\ taking # 0 /\ content[s] = <<>> /\ asked' = {}
  BY <1>1, SnapshotNumbers DEF Inv, TakingInv
<1>3. /\ stream[s] = "open" /\ s <= count
      /\ content \in [Snapshots -> Seq(Snapshots \cup {Stop})] /\ count \in Nat
  BY <1>2, SnapshotNumbers DEF Inv, StreamInv, TypeInv, Typed, SnapshotsTyped
<1>4. PICK ok \in BOOLEAN : /\ jobs' = Append(<<>>, Job("answered", s, ok))
                            /\ ok => content' = [content EXCEPT ![s] = Append(@, s)]
                            /\ ~ok => content' = content
  BY <1>1, <1>2 DEF Answer
<1>5. /\ \A t \in Snapshots : t # s => content'[t] = content[t]
      /\ ok => content'[s] = <<s>>
  BY <1>2, <1>3, <1>4
<1>6. StreamInv'
  <2>1. ~(s > count)
    BY <1>3, SnapshotNumbers
  <2>2. QED
    BY <1>1, <1>3, <1>5, <2>1 DEF Inv, StreamInv, Owner
<1>7. TakingInv'
  BY <1>1, <1>2 DEF Inv, TakingInv, profileVars
<1>8. JobsInv'
  <2> DEFINE a == Job("answered", s, ok)
  <2>1. a \in JobSet /\ a.what = "answered" /\ a.of = s /\ a.ok = ok
    BY JobTyped
  <2>2. jobs' = Append(<<>>, a)
    BY <1>4
  <2> HIDE DEF a
  <2>3. Uniq(jobs') /\ Elems(jobs') = Elems(<<>>) \cup {a}
    BY <2>1, <2>2, AppendJobs DEF Uniq, Elems
  <2>4. Elems(<<>>) = {}
    BY DEF Elems
  <2>5. JobInv(a)'
    BY <1>1, <1>2, <1>5, <2>1 DEF JobInv
  <2>6. QED
    BY <2>3, <2>4, <2>5 DEF JobsInv
<1>9. ControlInv'
  <2>1. compiler # "idle"
    <3>1. count # 0
      BY <1>2, <1>3, SnapshotNumbers
    <3>2. QED
      BY <3>1 DEF Inv, ControlInv
  <2>2. QED
    BY <1>1, <2>1 DEF Inv, ControlInv, compilerVars, profileVars, NextStep
<1>10. QED
  BY <1>6, <1>7, <1>8, <1>9 DEF Inv

-----------------------------------------------------------------------------
(* The compiler's part of ControlInv, when a continuation has run. *)
LEMMA ContinuationControl ==
  ASSUME Inv, compiler # "idle", UNCHANGED compilerVars,
         \/ UNCHANGED pc /\ (taking' = 0 \/ UNCHANGED taking) /\ UNCHANGED tracking
         \/ execSettled /\ pc' \in {"settle", "rejected"}
            /\ (pc' = "settle" => ~exitPatched /\ tracking' = FALSE)
  PROVE  ControlInv'
<1>1. CASE UNCHANGED pc /\ (taking' = 0 \/ UNCHANGED taking) /\ UNCHANGED tracking
  BY <1>1 DEF Inv, ControlInv, compilerVars, NextStep
<1>2. CASE /\ execSettled /\ pc' \in {"settle", "rejected"}
           /\ pc' = "settle" => ~exitPatched /\ tracking' = FALSE
  BY <1>2 DEF Inv, ControlInv, compilerVars, NextStep
<1>3. QED
  BY <1>1, <1>2

LEMMA SnapshotAnsweredInv == TypeInv /\ Inv /\ SnapshotAnswered => Inv'
<1> SUFFICES ASSUME TypeInv, Inv, SnapshotAnswered PROVE Inv'
  OBVIOUS
<1>1. /\ jobs # <<>> /\ Head(jobs).what = "answered"
      /\ UNCHANGED <<events, process, later, profileVars, count, event, content, asked, compilerVars, marked>>
  BY DEF SnapshotAnswered, Ready
<1>2. /\ compiler # "idle" /\ JobInv(Head(jobs)) /\ Head(jobs) \in JobSet
      /\ Tail(jobs) \in Seq(JobSet) /\ Uniq(Tail(jobs))
      /\ \A j \in Elems(Tail(jobs)) : JobInv(j) /\ j.what # "answered"
  BY <1>1, HeadFacts
<1> DEFINE s == Head(jobs).of
<1>3. /\ s = taking /\ taking # 0 /\ taking \in Snapshots /\ asked = {}
      /\ Head(jobs).ok => content[s] = <<s>>
  BY <1>1, <1>2 DEF JobInv, TypeInv, Typed, SnapshotsTyped
<1>4. \A j \in Elems(Tail(jobs)) : JobInv(j) /\ j.what \notin {"answered", "taken", "stop"}
  BY <1>2, <1>3 DEF JobInv
<1>5. stream[s] = "open" /\ s <= count /\ count \in Nat /\ s \in Nat
  BY <1>3, SnapshotNumbers DEF Inv, StreamInv, TypeInv, Typed, SnapshotsTyped
<1> HIDE DEF s
<1>6. CASE Head(jobs).ok
  <2>1. /\ stream' = [stream EXCEPT ![s] = "ended"] /\ taking' = 0 /\ waiting' = FALSE
        /\ UNCHANGED pending
        /\ jobs' = Append(IF waiting THEN Append(Tail(jobs), Job("stop", 0, TRUE)) ELSE Tail(jobs),
                          Job("taken", s, TRUE))
    BY <1>6 DEF SnapshotAnswered, Close, s
  <2>2. stream'[s] = "ended" /\ \A t \in Snapshots : t # s => stream'[t] = stream[t]
    BY <1>3, <2>1 DEF TypeInv, Typed, SnapshotsTyped
  <2>3. StreamInv'
    <3>1. ASSUME NEW t \in Snapshots
          PROVE  /\ t > count' => content'[t] = <<>> /\ stream'[t] = "none"
                 /\ stream'[t] = "ended" => content'[t] = <<t>> /\ t # taking'
                 /\ stream'[t] # "open"
      <4>1. CASE t = s
        BY <1>1, <1>3, <1>5, <1>6, <2>1, <2>2, <4>1
      <4>2. CASE t # s
        <5>1. t # 0
          BY SnapshotNumbers
        <5>2. QED
          BY <1>1, <1>3, <2>1, <2>2, <4>2, <5>1 DEF Inv, StreamInv
      <4>3. QED
        BY <4>1, <4>2
    <3>2. taking' = 0 /\ taking' <= count'
      BY <1>1, <1>5, <2>1
    <3>3. QED
      BY <3>1, <3>2 DEF StreamInv
  <2>4. TakingInv'
    BY <1>1, <1>3, <2>1 DEF Inv, TakingInv, profileVars
  <2>5. takingSnapshot' \/ ~tracking'
    BY <1>1, <1>3 DEF Inv, TakingInv, profileVars
  <2> DEFINE x == Job("taken", s, TRUE)
             y == Job("stop", 0, TRUE)
             q == IF waiting THEN Append(Tail(jobs), y) ELSE Tail(jobs)
  <2>6. /\ x \in JobSet /\ x.what = "taken" /\ y \in JobSet /\ y.what = "stop"
    BY <1>3 DEF Job, JobSet, Stop
  <2>7. jobs' = Append(q, x)
    BY <2>1
  <2>8. y.what = "stop" /\ (waiting => ~tracking)
    BY <2>6 DEF Inv, TakingInv
  <2> HIDE DEF x, y
  <2>9. /\ q \in Seq(JobSet) /\ Uniq(q)
        /\ \A j \in Elems(q) : j \in Elems(Tail(jobs)) \/ (waiting /\ j = y)
    <3>1. CASE waiting
      <4>1. q = Append(Tail(jobs), y)
        BY <3>1
      <4>2. \A j \in Elems(Tail(jobs)) : j.what # y.what
        BY <1>4, <2>6
      <4> HIDE DEF q
      <4>3. Uniq(Append(Tail(jobs), y)) /\ Elems(Append(Tail(jobs), y)) = Elems(Tail(jobs)) \cup {y}
        BY <1>2, <2>6, <4>2, AppendJobs
      <4>4. Append(Tail(jobs), y) \in Seq(JobSet)
        BY <1>2, <2>6
      <4>5. QED
        BY <3>1, <4>1, <4>3, <4>4
    <3>2. CASE ~waiting
      <4>1. q = Tail(jobs)
        BY <3>2
      <4> HIDE DEF q
      <4>2. QED
        BY <1>2, <4>1
    <3>3. QED
      BY <3>1, <3>2
  <2> HIDE DEF q
  <2>10. \A j \in Elems(q) : j.what # x.what
    BY <1>4, <2>6, <2>9
  <2>11. Uniq(Append(q, x)) /\ Elems(Append(q, x)) = Elems(q) \cup {x}
    BY <2>6, <2>9, <2>10, AppendJobs
  <2>12. ASSUME NEW j \in Elems(jobs') PROVE JobInv(j)'
    <3>1. CASE j = x
      <4>1. taking' = 0 /\ count' > 0
        BY <1>1, <1>3, <1>5, <2>1
      <4>2. QED
        BY <2>5, <2>6, <3>1, <4>1 DEF JobInv
    <3>2. CASE waiting /\ j = y
      BY <1>1, <2>1, <2>6, <2>8, <3>2 DEF JobInv, profileVars
    <3>3. CASE j \in Elems(Tail(jobs))
      BY <1>1, <1>4, <3>3 DEF JobInv, profileVars, compilerVars
    <3>4. QED
      BY <2>7, <2>9, <2>11, <3>1, <3>2, <3>3
  <2>13. ControlInv'
    BY <1>1, <1>2, <2>1, ContinuationControl DEF profileVars
  <2>14. QED
    BY <2>3, <2>4, <2>7, <2>11, <2>12, <2>13 DEF Inv, JobsInv
<1>7. CASE ~Head(jobs).ok
  <2>1. /\ pending' = [pending EXCEPT ![Owner(s)] = "rejected"]
        /\ jobs' = Tail(jobs) /\ UNCHANGED <<stream, taking, waiting, snapshotVars>>
    BY <1>1, <1>7 DEF SnapshotAnswered, s, snapshotVars
  <2>2. pending'[Owner(s)] = "rejected"
    BY <1>3, <2>1 DEF Owner, TypeInv, Typed, ProfileTyped
  <2>3. StreamInv'
    <3>1. \A t \in Snapshots : stream[t] = "open" => t = s
      BY <1>3 DEF Inv, StreamInv
    <3>2. QED
      BY <2>1, <2>2, <3>1 DEF Inv, StreamInv, Owner, snapshotVars
  <2>4. TakingInv'
    BY <1>1, <2>1, TakingSame DEF Inv, profileVars
  <2>5. ASSUME NEW j \in Elems(jobs') PROVE JobInv(j)'
    BY <1>1, <1>4, <2>1 DEF JobInv, profileVars, compilerVars
  <2>6. ControlInv'
    BY <1>1, <1>2, <2>1, ContinuationControl DEF profileVars
  <2>7. QED
    BY <1>2, <2>1, <2>3, <2>4, <2>5, <2>6 DEF Inv, JobsInv
<1>8. QED
  BY <1>6, <1>7

LEMMA SnapshotTakenInv == TypeInv /\ Inv /\ SnapshotTaken => Inv'
<1> SUFFICES ASSUME TypeInv, Inv, SnapshotTaken PROVE Inv'
  OBVIOUS
<1>1. /\ jobs # <<>> /\ Head(jobs).what = "taken" /\ jobs' = Tail(jobs)
      /\ UNCHANGED <<events, pc, tracking, snapshotVars, compilerVars, waiting>>
  BY DEF SnapshotTaken, Ready
<1>2. /\ compiler # "idle" /\ JobInv(Head(jobs)) /\ Uniq(Tail(jobs))
      /\ \A j \in Elems(Tail(jobs)) : JobInv(j) /\ j.what # "taken"
  BY <1>1, HeadFacts
<1>3. taking = 0
  BY <1>1, <1>2 DEF JobInv
<1>4. \A t \in Snapshots : stream[t] # "open"
  BY <1>3, SnapshotNumbers DEF Inv, StreamInv
<1>5. StreamInv'
  BY <1>1, <1>4 DEF Inv, StreamInv, snapshotVars
<1>6. TakingInv'
  BY <1>1, <1>3 DEF Inv, TakingInv, snapshotVars
<1>7. ASSUME NEW j \in Elems(jobs') PROVE JobInv(j)'
  BY <1>1, <1>2 DEF JobInv, snapshotVars, compilerVars
<1>8. ControlInv'
  BY <1>1, <1>2, ContinuationControl DEF snapshotVars
<1>9. QED
  BY <1>1, <1>2, <1>5, <1>6, <1>7, <1>8 DEF Inv, JobsInv

(* The tracking is stopped while no snapshot is being taken. *)
LEMMA StoppedStream ==
  ASSUME Inv, taking = 0, NEW ready, StopTracking(ready)
  PROVE  StreamInv' /\ UNCHANGED snapshotVars /\ jobs' = ready
<1>1. UNCHANGED snapshotVars /\ jobs' = ready
  BY DEF StopTracking, snapshotVars
<1>2. \A t \in Snapshots : stream[t] # "open"
  BY SnapshotNumbers DEF Inv, StreamInv
<1>3. QED
  BY <1>1, <1>2 DEF Inv, StreamInv, snapshotVars

LEMMA StopResumesInv == TypeInv /\ Inv /\ StopResumes => Inv'
<1> SUFFICES ASSUME TypeInv, Inv, StopResumes PROVE Inv'
  OBVIOUS
<1>1. /\ jobs # <<>> /\ Head(jobs).what = "stop" /\ StopTracking(Tail(jobs))
      /\ UNCHANGED <<events, profileVars, compilerVars, waiting>>
  BY DEF StopResumes, Ready
<1>2. /\ compiler # "idle" /\ JobInv(Head(jobs)) /\ Uniq(Tail(jobs))
      /\ \A j \in Elems(Tail(jobs)) : JobInv(j)
  BY <1>1, HeadFacts
<1>3. taking = 0
  BY <1>1, <1>2 DEF JobInv
<1>4. StreamInv' /\ UNCHANGED snapshotVars /\ jobs' = Tail(jobs)
  BY <1>1, <1>3, StoppedStream
<1>5. TakingInv'
  BY <1>1, <1>4, TakingSame DEF Inv, profileVars
<1>6. ASSUME NEW j \in Elems(jobs') PROVE JobInv(j)'
  BY <1>1, <1>2, <1>4, JobSame DEF profileVars, compilerVars
<1>7. ControlInv'
  BY <1>1, <1>2, <1>4, ContinuationControl DEF profileVars, snapshotVars
<1>8. QED
  BY <1>2, <1>4, <1>5, <1>6, <1>7 DEF Inv, JobsInv

LEMMA ExecSettledInv == TypeInv /\ Inv /\ ExecSettled => Inv'
<1> SUFFICES ASSUME TypeInv, Inv, ExecSettled PROVE Inv'
  OBVIOUS
<1>1. /\ jobs # <<>> /\ Head(jobs).what = "exec"
      /\ UNCHANGED <<events, takingSnapshot, compilerVars>>
  BY DEF ExecSettled, Ready
<1>2. /\ compiler # "idle" /\ JobInv(Head(jobs)) /\ Head(jobs) \in JobSet
      /\ Tail(jobs) \in Seq(JobSet) /\ Uniq(Tail(jobs))
      /\ \A j \in Elems(Tail(jobs)) : JobInv(j) /\ j.what # "exec"
  BY <1>1, HeadFacts
<1>3. pc = "exec" /\ execSettled /\ (Head(jobs).ok => ~exitPatched) /\ tracking
  BY <1>1, <1>2 DEF JobInv, Inv, ControlInv
<1>4. CASE ~Head(jobs).ok
  <2>1. /\ pc' = "rejected" /\ jobs' = Tail(jobs)
        /\ UNCHANGED <<tracking, waiting, pending, snapshotVars>>
    BY <1>4 DEF ExecSettled
  <2>2. StreamInv' /\ TakingInv'
    BY <1>1, <2>1, StreamSame, TakingSame DEF Inv
  <2>3. ASSUME NEW j \in Elems(jobs') PROVE JobInv(j)'
    BY <1>1, <1>2, <2>1 DEF JobInv, snapshotVars
  <2>4. ControlInv'
    BY <1>1, <1>2, <1>3, <2>1, ContinuationControl
  <2>5. QED
    BY <1>2, <2>1, <2>2, <2>3, <2>4 DEF Inv, JobsInv
<1>5. CASE Head(jobs).ok
  <2>1. /\ pc' = "settle" /\ tracking' = FALSE
        /\ \/ /\ taking # 0 /\ pending' = [pending EXCEPT ![Stop] = "pending"]
              /\ jobs' = Tail(jobs) /\ UNCHANGED snapshotVars
           \/ taking = 0 /\ StopTracking(Tail(jobs))
           \/ taking = 0 /\ events = {} /\ SnapshotAtEnd(Tail(jobs))
    BY <1>5 DEF ExecSettled, StopWaits
  <2>2. ControlInv'
    BY <1>1, <1>2, <1>3, <1>5, <2>1, ContinuationControl
  <2>3. CASE UNCHANGED snapshotVars /\ StreamInv' /\ jobs' = Tail(jobs)
    <3>1. TakingInv'
      BY <2>1, <2>3 DEF Inv, TakingInv, snapshotVars
    <3>2. ASSUME NEW j \in Elems(jobs') PROVE JobInv(j)'
      BY <1>2, <1>3, <2>1, <2>3 DEF JobInv, snapshotVars
    <3>3. QED
      BY <1>2, <2>2, <2>3, <3>1, <3>2 DEF Inv, JobsInv
  <2>4. CASE /\ taking # 0 /\ pending' = [pending EXCEPT ![Stop] = "pending"]
             /\ jobs' = Tail(jobs) /\ UNCHANGED snapshotVars
    <3>1. \A t \in Snapshots \cup {Stop} : pending'[t] \in {pending[t], "pending"}
      BY <2>4 DEF TypeInv, Typed, ProfileTyped
    <3>2. StreamInv'
      BY <2>4, <3>1 DEF Inv, StreamInv, Owner, snapshotVars
    <3>3. QED
      BY <2>3, <2>4, <3>2
  <2>5. CASE taking = 0 /\ StopTracking(Tail(jobs))
    BY <2>3, <2>5, StoppedStream
  <2>6. CASE taking = 0 /\ events = {} /\ SnapshotAtEnd(Tail(jobs))
    <3>1. count = 0
      BY <1>3, <2>6 DEF Inv, TakingInv
    <3>2. \A j \in Elems(Tail(jobs)) : j.what \notin {"answered", "taken", "stop", "exec"}
      BY <1>2, <1>3, <2>6, <3>1 DEF JobInv
    <3> DEFINE n == NextSnapshot
    <3>3. /\ taking' = n /\ count' = n /\ event' = [event EXCEPT ![n] = AtEnd]
          /\ stream' = [stream EXCEPT ![n] = "open"] /\ asked' \subseteq {n}
          /\ \A t \in Snapshots : t # n => content'[t] = content[t]
          /\ n \in asked' => content'[n] = <<>>
          /\ Uniq(jobs')
          /\ \A j \in Elems(jobs') :
               \/ j \in Elems(Tail(jobs))
               \/ /\ j.what = "answered" /\ j.of = n /\ asked' = {}
                  /\ j.ok => content'[n] = <<n>>
      <4>1. TakeSnapshotVia(NextSnapshot, AtEnd, Tail(jobs)) /\ taking = 0
        BY <2>6 DEF SnapshotAtEnd
      <4>2. \A j \in Elems(Tail(jobs)) : j.what # "answered"
        BY <3>2
      <4>3. StreamInv /\ TakingInv
        BY DEF Inv
      <4>4. QED
        BY <1>2, <4>1, <4>2, <4>3, SnapshotBegins
    <3>4. n \in Snapshots /\ pending'[Stop] = "pending"
      BY <2>6, NextSnapshotTyped
      DEF TypeInv, Typed, ProfileTyped, SnapshotAtEnd, TakeSnapshotVia
    <3> HIDE DEF n
    <3>5. StreamInv'
      <4>1. pending'[IF AtEnd = AtEnd THEN Stop ELSE n] = "pending"
        BY <3>4
      <4>2. QED
        BY <2>6, <3>3, <3>4, <4>1, BegunStream DEF n, Inv
    <3>6. TakingInv'
      <4>1. waiting' = FALSE
        BY <1>5, <2>6 DEF ExecSettled, StopWaits
      <4>2. QED
        BY <2>1, <3>3, <4>1 DEF TakingInv
    <3>7. ASSUME NEW j \in Elems(jobs') PROVE JobInv(j)'
      <4>1. CASE j \in Elems(Tail(jobs))
        BY <3>2, <4>1 DEF JobInv
      <4>2. CASE /\ j.what = "answered" /\ j.of = n /\ asked' = {}
                 /\ j.ok => content'[n] = <<n>>
        BY <3>3, <3>4, <4>2, SnapshotNumbers DEF JobInv
      <4>3. QED
        BY <3>3, <4>1, <4>2
    <3>8. QED
      BY <2>2, <3>3, <3>5, <3>6, <3>7 DEF Inv, JobsInv
  <2>7. QED
    BY <2>1, <2>4, <2>5, <2>6
<1>6. QED
  BY <1>4, <1>5

-----------------------------------------------------------------------------
LEMMA InvStep == TypeInv /\ Inv /\ [Next]_vars => Inv'
<1> SUFFICES ASSUME TypeInv, Inv, [Next]_vars PROVE Inv'
  OBVIOUS
<1>1. CASE StreamFails \/ UNCHANGED vars
  <2>1. UNCHANGED <<events, profileVars, snapshotVars, compilerVars, waiting, pending, jobs>>
    BY <1>1 DEF vars, StreamFails
  <2>2. StreamInv' /\ TakingInv'
    BY <2>1, StreamSame, TakingSame DEF Inv, profileVars
  <2>3. JobsInv'
    BY <2>1, JobsSame DEF Inv, profileVars, compilerVars
  <2>4. ControlInv'
    BY <2>1 DEF Inv, ControlInv, profileVars, snapshotVars, compilerVars, NextStep
  <2>5. QED
    BY <2>2, <2>3, <2>4 DEF Inv
<1>2. CASE Step
  BY <1>2, ProfileInv, CompilerInv, AgentInv, SnapshotAnsweredInv, SnapshotTakenInv,
     ExecSettledInv, StopResumesInv DEF Step, AgentStep, Continuation
<1>3. QED
  BY <1>1, <1>2, MarkInv DEF Next, Ended

(* Each variable keeps its type, and the stream that chunks are written to is open *)
(* as long as it is kept: an answer cannot come after it is closed.                *)
THEOREM TypeCorrect == Spec => []TypeOK
<1>1. TypeInv /\ Inv => TypeOK
  BY DEF TypeInv, Inv, StreamInv, TypeOK
<1>2. Init => TypeInv /\ Inv
  BY InitType, InitInv
<1>3. TypeInv /\ Inv /\ [Next]_vars => TypeInv' /\ Inv'
  BY TypeStep, InvStep
<1>4. QED
  BY <1>1, <1>2, <1>3, PTL DEF Spec

(* A snapshot whose stream is ended is whole and nothing else was written to *)
(* it; a heapProfile that is done has ended every stream, waits for no       *)
(* answer, and has given process.exit back.                                  *)
THEOREM SnapshotsWhole == Spec => []SnapshotsAreWhole
<1>1. TypeInv /\ Inv => SnapshotsAreWhole
  <2> SUFFICES ASSUME TypeInv, Inv PROVE SnapshotsAreWhole
    OBVIOUS
  <2>1. \A s \in Snapshots : stream[s] = "ended" => content[s] = <<s>>
    BY DEF Inv, StreamInv
  <2>2. ASSUME pc = "done"
        PROVE  (\A s \in Snapshots : stream[s] # "open") /\ asked = {} /\ ~exitPatched
    <3>1. taking = 0 /\ ~exitPatched
      BY <2>2 DEF Inv, ControlInv
    <3>2. \A s \in Snapshots : s # 0
      BY SnapshotNumbers
    <3>3. asked \subseteq Snapshots
      BY DEF TypeInv, Typed, SnapshotsTyped
    <3>4. QED
      BY <3>1, <3>2, <3>3 DEF Inv, StreamInv, TakingInv
  <2>3. QED
    BY <2>1, <2>2 DEF SnapshotsAreWhole
<1>2. Init => TypeInv /\ Inv
  BY InitType, InitInv
<1>3. TypeInv /\ Inv /\ [Next]_vars => TypeInv' /\ Inv'
  BY TypeStep, InvStep
<1>4. QED
  BY <1>1, <1>2, <1>3, PTL DEF Spec
=============================================================================
