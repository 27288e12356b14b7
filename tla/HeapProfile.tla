----------------------------- MODULE HeapProfile -----------------------------
(***************************************************************************)
(* `ts-profiler heap`: heapProfile runs the compiler in its own process    *)
(* and asks the V8 agent of that process for heap snapshots, one at each   *)
(* event of --event, or one at the end if there is none.                   *)
(*                                                                         *)
(* There is one thread.  While the compiler has it nothing else runs but   *)
(* what the compiler calls: its marks reach the listener of bindingCalled  *)
(* at once.  When it gives the thread up, the continuations whose promises *)
(* have been settled run in the order of their settlement (`jobs'), and    *)
(* when there is none left, rejections without a handler end the process.  *)
(* The agent takes a snapshot while it is asked for it, or in a turn of    *)
(* its own: versions of V8 differ, and postAsync allows for both.  It      *)
(* sends the chunks of a snapshot in one turn, so they are one delivery.   *)
(*                                                                         *)
(* heapProfile starts the tracking of objects before the compiler and      *)
(* stops it once after it: the tests of _started pass and are left out.    *)
(***************************************************************************)
EXTENDS Naturals, Sequences

CONSTANTS
    Marks,          \* the marks that the compiler sets
    MaxSnapshots,   \* bound on the streams that are opened
    MaxTurns        \* bound on the turns of the compiler

ASSUME HeapAssumption ==
    /\ MaxSnapshots \in Nat \ {0}
    /\ MaxTurns \in Nat \ {0}
    /\ "at end" \notin Marks

VARIABLES
    events,         \* options.events: {} if there is no --event
    process,        \* "alive", or how the process ended
    later,          \* the agent takes snapshots in a turn of its own
    pc,             \* what heapProfile does or awaits
    connected,      \* session._connected
    tracking,       \* the two variables of heapProfile
    takingSnapshot,
    taking,         \* the snapshot of _snapshotWritable and _snapshotDeferred, 0 if none
    waiting,        \* stopTrackingHeapObjects awaits the deferred
    count,          \* the snapshots that were begun
    event,          \* what each is for
    stream,         \* its writable
    content,        \* the deliveries written to it
    asked,          \* the snapshots that the agent has yet to take
    pending,        \* pendingActions, the stop being 0
    awaited,        \* Promise.all has been called
    compiler,       \* the compiler
    turns,          \* its turns
    execSettled,    \* the promise of exec
    exitPatched,    \* process.exit throws the sentinel
    jobs,           \* continuations that are ready
    marked          \* history: the events that were marked while objects are tracked

profileVars == <<pc, connected, tracking, takingSnapshot, awaited>>
snapshotVars == <<taking, count, event, stream, content, asked>>
compilerVars == <<compiler, turns, execSettled, exitPatched>>
vars == <<events, process, later, profileVars, snapshotVars, compilerVars, waiting, pending, jobs, marked>>

Snapshots == 1 .. MaxSnapshots
Stop == 0
AtEnd == "at end"       \* what a snapshot is for that no event has asked for

Job(what, s, ok) == [what |-> what, of |-> s, ok |-> ok]

Init ==
    /\ events \in SUBSET Marks
    /\ process = "alive"
    /\ later \in BOOLEAN
    /\ pc = "connect"
    /\ connected = FALSE
    /\ tracking = FALSE
    /\ takingSnapshot = FALSE
    /\ taking = 0
    /\ waiting = FALSE
    /\ count = 0
    /\ event = [s \in Snapshots |-> AtEnd]
    /\ stream = [s \in Snapshots |-> "none"]
    /\ content = [s \in Snapshots |-> <<>>]
    /\ asked = {}
    /\ pending = [s \in Snapshots \cup {Stop} |-> "none"]
    /\ awaited = FALSE
    /\ compiler = "idle"
    /\ turns = 0
    /\ execSettled = FALSE
    /\ exitPatched = FALSE
    /\ jobs = <<>>
    /\ marked = {}

-----------------------------------------------------------------------------
(* A rejection that nobody handles before the jobs have run ends the process. *)
Unhandled == ~awaited /\ \E s \in Snapshots : pending[s] = "rejected"

(* Mutant: heapProfile waits until all are settled. *)
AllSettled == \A s \in DOMAIN pending : pending[s] # "pending"

(* Promise.all settles when one action is rejected or all are fulfilled. *)
Settled ==
    \/ \E s \in DOMAIN pending : pending[s] = "rejected"
    \/ \A s \in DOMAIN pending : pending[s] # "pending"

(* No continuation is ready, so that the event loop may turn. *)
Quiet ==
    /\ compiler # "running"
    /\ jobs = <<>>
    /\ ~Unhandled
    /\ pc \in {"exec", "settle", "done", "rejected"}
    /\ ~(pc = "settle" /\ Settled)

NothingAhead == Quiet /\ asked = {} /\ compiler # "waiting"

-----------------------------------------------------------------------------
(* connect, addBinding, enable and startTrackingHeapObjects. *)
NextStep == [connect |-> "addBinding", addBinding |-> "enable",
             enable |-> "startTracking", startTracking |-> "start"]

Prepare ==
    /\ pc \in DOMAIN NextStep
    /\ \/ pc' = NextStep[pc] /\ connected' = TRUE
       \/ pc' = "rejected" /\ pc # "connect" /\ UNCHANGED connected
    /\ UNCHANGED <<events, process, later, tracking, takingSnapshot, awaited, snapshotVars,
                   compilerVars, waiting, pending, jobs, marked>>

(* The executor of exec's promise patches process.exit and requires the compiler. *)
Exec ==
    /\ pc = "start"
    /\ pc' = "exec"
    /\ tracking' = TRUE
    /\ exitPatched' = TRUE
    /\ compiler' = "running"
    /\ turns' = 1
    /\ UNCHANGED <<events, process, later, connected, takingSnapshot, awaited, snapshotVars,
                   execSettled, waiting, pending, jobs, marked>>

-----------------------------------------------------------------------------
NextSnapshot == count + 1

(* The agent has taken snapshot s: its chunks go to the current writable. *)
Answer(s, writable, ready) ==
    \/ /\ content' = [content EXCEPT ![writable] = Append(@, s)]
       /\ jobs' = Append(ready, Job("answered", s, TRUE))
    \/ /\ jobs' = Append(ready, Job("answered", s, FALSE))
       /\ UNCHANGED content

(* takeSnapshotVia with a new stream, up to its await.  If a snapshot is being *)
(* taken it returns at once, and the stream is left as it is.                  *)
TakeSnapshotVia(s, for, ready) ==
    /\ count < MaxSnapshots
    /\ count' = s
    /\ event' = [event EXCEPT ![s] = for]
    /\ stream' = [stream EXCEPT ![s] = "open"]
    /\ taking' = IF taking = 0 THEN s ELSE taking
    /\ IF taking # 0
       THEN jobs' = Append(ready, Job("taken", s, TRUE)) /\ UNCHANGED <<asked, content>>
       ELSE IF later
       THEN asked' = asked \cup {s} /\ jobs' = ready /\ UNCHANGED content
       ELSE Answer(s, s, ready) /\ UNCHANGED asked

Wanted(e) == tracking /\ ~takingSnapshot /\ e \in events

(* The compiler sets a mark: the listener of bindingCalled. *)
Mark(e) ==
    /\ compiler = "running"
    /\ connected
    /\ marked' = IF tracking THEN marked \cup {e} ELSE marked
    /\ \/ /\ Wanted(e)
          /\ takingSnapshot' = TRUE
          /\ TakeSnapshotVia(NextSnapshot, e, jobs)
          /\ pending' = [pending EXCEPT ![NextSnapshot] = "pending"]
       \/ /\ ~Wanted(e)
          /\ UNCHANGED <<takingSnapshot, snapshotVars, pending, jobs>>
    /\ UNCHANGED <<events, process, later, pc, connected, tracking, awaited, compilerVars, waiting>>

-----------------------------------------------------------------------------
(* The compiler gives the thread up.  In its first turn it runs inside exec. *)
Work == {"waiting", "finished"}     \* whether it has left timers or requests behind

CompilerReturns ==
    /\ compiler = "running"
    /\ compiler' \in Work
    /\ compiler' = "waiting" => turns < MaxTurns
    /\ UNCHANGED <<events, process, later, profileVars, snapshotVars, turns, execSettled,
                   exitPatched, waiting, pending, jobs, marked>>

(* It calls process.exit.  The sentinel is caught by exec, in the first turn; *)
(* later on it is an exception like any other.  The real process.exit ends    *)
(* the process with whatever is under way.                                    *)
CompilerExits ==
    /\ compiler = "running"
    /\ \/ /\ exitPatched
          /\ turns = 1
          /\ exitPatched' = FALSE
          /\ execSettled' = TRUE
          /\ jobs' = Append(jobs, Job("exec", 0, TRUE))
          /\ compiler' \in Work
          /\ compiler' = "waiting" => turns < MaxTurns
          /\ UNCHANGED process
       \/ /\ exitPatched
          /\ turns > 1
          /\ process' = "crashed"
          /\ UNCHANGED <<compiler, execSettled, exitPatched, jobs>>
       \/ /\ ~exitPatched
          /\ process' = "quit"
          /\ UNCHANGED <<compiler, execSettled, exitPatched, jobs>>
    /\ UNCHANGED <<events, later, profileVars, snapshotVars, turns, waiting, pending, marked>>

(* It throws.  In its first turn this rejects the promise of exec, with  *)
(* process.exit still patched.                                           *)
CompilerThrows ==
    /\ compiler = "running"
    /\ \/ /\ turns = 1
          /\ execSettled' = TRUE
          /\ jobs' = Append(jobs, Job("exec", 0, FALSE))
          /\ compiler' \in Work
          /\ compiler' = "waiting" => turns < MaxTurns
          /\ UNCHANGED process
       \/ /\ turns > 1
          /\ process' = "crashed"
          /\ UNCHANGED <<compiler, execSettled, jobs>>
    /\ UNCHANGED <<events, later, profileVars, snapshotVars, turns, exitPatched, waiting, pending, marked>>

(* A timer or an answer calls the compiler again. *)
CompilerResumes ==
    /\ compiler = "waiting"
    /\ Quiet
    /\ compiler' = "running"
    /\ turns' = turns + 1
    /\ UNCHANGED <<events, process, later, profileVars, snapshotVars, execSettled, exitPatched,
                   waiting, pending, jobs, marked>>

(* 'beforeExit', when the event loop has nothing left: handleExit. *)
BeforeExit ==
    /\ NothingAhead
    /\ compiler = "finished"
    /\ exitPatched
    /\ exitPatched' = FALSE
    /\ execSettled' = TRUE
    /\ jobs' = IF execSettled THEN jobs ELSE Append(jobs, Job("exec", 0, TRUE))
    /\ UNCHANGED <<events, process, later, profileVars, snapshotVars, compiler, turns,
                   waiting, pending, marked>>

(* The agent takes a snapshot in a turn of its own. *)
AgentAnswers(s) ==
    /\ s \in asked
    /\ Quiet
    /\ asked' = asked \ {s}
    /\ Answer(s, taking, jobs)
    /\ UNCHANGED <<events, process, later, profileVars, taking, count, event, stream,
                   compilerVars, waiting, pending, marked>>

-----------------------------------------------------------------------------
(* The promise that a snapshot settles: the stop's for the one at the end. *)
Owner(s) == IF event[s] = AtEnd THEN Stop ELSE s

(* The next continuation to run. *)
Ready(what) == compiler # "running" /\ jobs # <<>> /\ Head(jobs).what = what

(* Mutant: the writable is closed, and the state is not reset. *)
CloseAlone(s) ==
    /\ stream' = [stream EXCEPT ![s] = "ended"]
    /\ taking' = taking
    /\ waiting' = FALSE

(* The writable is closed, the state reset and the deferred resolved. *)
Close(s) ==
    /\ stream' = [stream EXCEPT ![s] = "ended"]
    /\ taking' = 0
    /\ waiting' = FALSE

(* takeSnapshotVia after its await.  A rejection leaves it as if the snapshot *)
(* were still being taken, and the deferred unresolved.                       *)
SnapshotAnswered ==
    /\ Ready("answered")
    /\ LET s == Head(jobs).of IN
       IF Head(jobs).ok
       THEN /\ Close(s)
            /\ jobs' = Append(IF waiting THEN Append(Tail(jobs), Job("stop", 0, TRUE))
                              ELSE Tail(jobs),
                              Job("taken", s, TRUE))
            /\ UNCHANGED pending
       ELSE /\ pending' = [pending EXCEPT ![Owner(s)] = "rejected"]
            /\ jobs' = Tail(jobs)
            /\ UNCHANGED <<stream, taking, waiting>>
    /\ UNCHANGED <<events, process, later, profileVars, count, event, content, asked,
                   compilerVars, marked>>

(* takeSnapshot, or stopTrackingHeapObjects, after its await. *)
SnapshotTaken ==
    /\ Ready("taken")
    /\ LET s == Head(jobs).of IN
       /\ pending' = [pending EXCEPT ![Owner(s)] = "fulfilled"]
       /\ takingSnapshot' = IF Owner(s) = Stop THEN takingSnapshot ELSE FALSE
    /\ jobs' = Tail(jobs)
    /\ UNCHANGED <<events, process, later, pc, connected, tracking, awaited, snapshotVars,
                   compilerVars, waiting, marked>>

(* stopTrackingHeapObjects without a stream asks the agent to stop, which sends *)
(* a last snapshot: it would go to the stream of a snapshot under way.          *)
StopTracking(ready) ==
    /\ \E outcome \in {"fulfilled", "rejected"} :
         pending' = [pending EXCEPT ![Stop] = outcome]
    /\ content' = IF taking = 0 THEN content
                  ELSE [content EXCEPT ![taking] = Append(@, Stop)]
    /\ jobs' = ready
    /\ UNCHANGED <<taking, count, event, stream, asked>>

(* With a stream it takes one more snapshot. *)
SnapshotAtEnd(ready) ==
    /\ pending' = [pending EXCEPT ![Stop] = "pending"]
    /\ TakeSnapshotVia(NextSnapshot, AtEnd, ready)

(* Mutant: stop does not wait for a snapshot. *)
StopWaitsNever == FALSE

StopWaits == taking # 0

(* heapProfile after `await compiler.exec()': it stops the tracking and calls *)
(* Promise.all in the same turn; or the exception leaves it.                  *)
ExecSettled ==
    /\ Ready("exec")
    /\ IF Head(jobs).ok
       THEN /\ pc' = "settle"
            /\ tracking' = FALSE
            /\ awaited' = TRUE
            /\ waiting' = StopWaits
            /\ IF StopWaits
               THEN /\ pending' = [pending EXCEPT ![Stop] = "pending"]
                    /\ jobs' = Tail(jobs)
                    /\ UNCHANGED snapshotVars
               ELSE \/ events # {} /\ StopTracking(Tail(jobs))
                    \/ events = {} /\ SnapshotAtEnd(Tail(jobs))
       ELSE /\ pc' = "rejected"
            /\ jobs' = Tail(jobs)
            /\ UNCHANGED <<tracking, awaited, waiting, pending, snapshotVars>>
    /\ UNCHANGED <<events, process, later, connected, takingSnapshot, compilerVars, marked>>

(* The deferred is resolved, and stopTrackingHeapObjects goes on: without a *)
(* stream, since only an event's snapshot can have been under way.          *)
StopResumes ==
    /\ Ready("stop")
    /\ StopTracking(Tail(jobs))
    /\ UNCHANGED <<events, process, later, profileVars, compilerVars, waiting, marked>>

(* heapProfile after Promise.all. *)
Settle ==
    /\ pc = "settle"
    /\ compiler # "running"
    /\ Settled
    /\ pc' = IF \E s \in DOMAIN pending : pending[s] = "rejected" THEN "rejected" ELSE "disable"
    /\ UNCHANGED <<events, process, later, connected, tracking, takingSnapshot, awaited, snapshotVars,
                   compilerVars, waiting, pending, jobs, marked>>

(* heapProfiler.disable and session.disconnect. *)
Disable ==
    /\ pc = "disable"
    /\ compiler # "running"
    /\ \/ pc' = "done" /\ connected' = FALSE
       \/ pc' = "rejected" /\ UNCHANGED connected
    /\ UNCHANGED <<events, process, later, tracking, takingSnapshot, awaited, snapshotVars,
                   compilerVars, waiting, pending, jobs, marked>>

-----------------------------------------------------------------------------
(* 'unhandledRejection' has no listener. *)
Crash ==
    /\ compiler # "running"
    /\ jobs = <<>>
    /\ Unhandled
    /\ process' = "crashed"
    /\ UNCHANGED <<events, later, profileVars, snapshotVars, compilerVars, waiting, pending, jobs, marked>>

(* The file of a stream cannot be opened, or written to the end: nobody listens *)
(* to the 'error' of a stream.  One that is ended may still have chunks to write. *)
StreamFails ==
    /\ Quiet
    /\ \E s \in Snapshots : stream[s] # "none"
    /\ process' = "crashed"
    /\ UNCHANGED <<events, later, profileVars, snapshotVars, compilerVars, waiting, pending, jobs, marked>>

(* Nothing is left to do: the process ends, whatever is still awaited. *)
End ==
    /\ NothingAhead
    /\ compiler = "finished" => ~exitPatched
    /\ process' = "ended"
    /\ UNCHANGED <<events, later, profileVars, snapshotVars, compilerVars, waiting, pending, jobs, marked>>

CompilerStep == CompilerReturns \/ CompilerExits \/ CompilerThrows \/ CompilerResumes
AgentStep == \E s \in Snapshots : AgentAnswers(s)
ProfileStep == Prepare \/ Exec \/ Settle \/ Disable
Continuation == SnapshotAnswered \/ SnapshotTaken \/ ExecSettled \/ StopResumes
ProcessStep == BeforeExit \/ Crash \/ End

Step == CompilerStep \/ AgentStep \/ ProfileStep \/ Continuation \/ ProcessStep

Ended == process # "alive" /\ UNCHANGED vars

Next ==
    \/ process = "alive" /\ Step
    \/ process = "alive" /\ (StreamFails \/ \E e \in Marks : Mark(e))
    \/ Ended

Spec == Init /\ [][Next]_vars

(* The compiler gives the thread up, in the end for good, and what the event *)
(* loop can run it runs.                                                     *)
FairSpec == Spec /\ WF_vars(process = "alive" /\ Step)

-----------------------------------------------------------------------------
ProfileTyped ==
    /\ pc \in DOMAIN NextStep \cup {"start", "exec", "settle", "disable", "done", "rejected"}
    /\ connected \in BOOLEAN /\ tracking \in BOOLEAN /\ takingSnapshot \in BOOLEAN
    /\ waiting \in BOOLEAN /\ awaited \in BOOLEAN
    /\ pending \in [Snapshots \cup {Stop} -> {"none", "pending", "fulfilled", "rejected"}]

SnapshotsTyped ==
    /\ taking \in {0} \cup Snapshots
    /\ count \in 0 .. MaxSnapshots
    /\ event \in [Snapshots -> Marks \cup {AtEnd}]
    /\ stream \in [Snapshots -> {"none", "open", "ended"}]
    /\ content \in [Snapshots -> Seq(Snapshots \cup {Stop})]
    /\ asked \subseteq Snapshots

CompilerTyped ==
    /\ compiler \in {"idle", "running"} \cup Work
    /\ turns \in 0 .. MaxTurns
    /\ execSettled \in BOOLEAN /\ exitPatched \in BOOLEAN

Typed ==
    /\ events \subseteq Marks
    /\ process \in {"alive", "crashed", "quit", "ended"}
    /\ later \in BOOLEAN
    /\ ProfileTyped
    /\ SnapshotsTyped
    /\ CompilerTyped
    /\ jobs \in Seq([what : {"answered", "taken", "exec", "stop"},
                     of : Snapshots \cup {Stop}, ok : BOOLEAN])
    /\ marked \subseteq Marks

(* Types; and _snapshotWritable, which the next chunk is written to, is a stream *)
(* that is not closed.                                                           *)
TypeOK == Typed /\ (taking # 0 => stream[taking] = "open")

(* A snapshot whose stream is ended is whole, and nothing else has been written *)
(* to it, whether the agent answered at once, after the compiler, or while it   *)
(* was stopped.  A heapProfile that is done has ended every stream, waits for   *)
(* no answer, and has given process.exit back.                                  *)
SnapshotsAreWhole ==
    /\ \A s \in Snapshots : stream[s] = "ended" => content[s] = <<s>>
    /\ pc = "done" =>
        /\ \A s \in Snapshots : stream[s] # "open"
        /\ asked = {}
        /\ ~exitPatched

(* heapProfile comes to an end and main says how, although a snapshot that fails *)
(* leaves stopTrackingHeapObjects waiting for ever; unless the compiler ends     *)
(* the process, or an error that nobody handles does, as that of a stream.       *)
EventuallySettled ==
    <>(pc \in {"done", "rejected"} \/ process \in {"crashed", "quit"})

(* "Takes a heap snapshot at the specified <event> (can be specified multiple *)
(* times)": if all goes well, each event has its snapshot.                    *)
EachEventCaptured ==
    pc = "done" => \A e \in marked \cap events : \E s \in Snapshots : event[s] = e
=============================================================================
