------------------------------- MODULE Backfill -------------------------------
(***************************************************************************)
(* backfillAllCommits.ts queues a historical run for StartCommit and for   *)
(* each commit before it, one at a time, beside the runs of LatestBlob.    *)
(* The commits it is done with are lines of a file, so that it may be      *)
(* stopped anywhere and started again.                                     *)
(***************************************************************************)
EXTENDS LatestBlob, FiniteSets

CONSTANTS
    StartCommit,    \* --start-commit
    MaxStarts       \* bound on how often the script is started

ASSUME BackfillAssumption ==
    /\ StartCommit \in Commits
    /\ MaxStarts \in Nat

VARIABLES
    script,     \* what the script is about to do
    cursor,     \* startCommit~i, and 0 when there is no such commit any more
    seen,       \* lines of the file --seen
    mine,       \* the runs it has queued
    unlisted,   \* those that getBuilds does not list yet
    starts      \* how often it was started

backVars == <<script, cursor, seen, mine, unlisted, starts>>
vars == <<latestVars, backVars>>

BackfillInit ==
    /\ Init
    /\ StartCommit <= head
    /\ script = "off"
    /\ cursor = 0
    /\ seen = {}
    /\ mine = {}
    /\ unlisted = {}
    /\ starts = 0

-----------------------------------------------------------------------------
Start ==
    /\ script = "off"
    /\ starts < MaxStarts
    /\ script' = "look"
    /\ cursor' = StartCommit
    /\ starts' = starts + 1
    /\ UNCHANGED <<latestVars, seen, mine, unlisted>>

(* Mutant: getCommits finds nothing, and the script goes on. *)
OutOfCommitsIgnored == FALSE

OutOfCommits == cursor = 0

(* A commit of the file is skipped.  git fails beyond the first commit. *)
Look ==
    /\ script = "look"
    /\ \/ /\ OutOfCommits
          /\ script' = "ended"
          /\ UNCHANGED cursor
       \/ /\ cursor \in seen
          /\ cursor' = cursor - 1
          /\ UNCHANGED script
       \/ /\ ~OutOfCommits
          /\ cursor \notin seen
          /\ script' = "count"
          /\ UNCHANGED cursor
    /\ UNCHANGED <<latestVars, seen, mine, unlisted, starts>>

(* getPendingBuildCount: InProgress or NotStarted, of any cause.  As long as it *)
(* is not zero, it is asked again after a minute.                               *)
Unfinished(r) == at[r] \in {"pending", "uploading"}
PendingBuilds == {r \in Runs \ unlisted : Unfinished(r)}

CountBuilds ==
    /\ script = "count"
    /\ PendingBuilds = {}
    /\ script' = "queue"
    /\ UNCHANGED <<latestVars, cursor, seen, mine, unlisted, starts>>

(* await runPipeline.  If its answer is lost, the exception ends the script. *)
QueueRun(r) ==
    /\ script = "queue"
    /\ Queue(r, cursor)
    /\ mine' = mine \cup {r}
    /\ unlisted' = unlisted \cup {r}
    /\ script' \in {"append", "off"}
    /\ UNCHANGED <<head, cursor, seen, starts>>

(* Mutant: the error is caught. *)
AfterErrorGoOn == IF script = "queue" THEN "append" ELSE "off"

AfterError == "off"

(* A request fails for good, or the script is stopped. *)
Stop ==
    /\ script \notin {"off", "ended"}
    /\ script' = AfterError
    /\ UNCHANGED <<latestVars, cursor, seen, mine, unlisted, starts>>

AppendSeen ==
    /\ script = "append"
    /\ seen' = seen \cup {cursor}
    /\ script' = "sleep"
    /\ UNCHANGED <<latestVars, cursor, mine, unlisted, starts>>

(* Mutant: no delay. *)
ListedAtOnce == TRUE

(* "Delay a little [so] the build has a chance to show up": in a minute, it has. *)
ListedByNow == unlisted = {}

Wake ==
    /\ script = "sleep"
    /\ ListedByNow
    /\ script' = "look"
    /\ cursor' = cursor - 1
    /\ UNCHANGED <<latestVars, seen, mine, unlisted, starts>>

(* A run begins to be listed, some time after it was queued. *)
ShowUp(r) ==
    /\ r \in unlisted
    /\ unlisted' = unlisted \ {r}
    /\ UNCHANGED <<latestVars, script, cursor, seen, mine, starts>>

Script == Start \/ Look \/ CountBuilds \/ Stop \/ AppendSeen \/ Wake

Next ==
    \/ ((\E r \in Runs : Push(r) \/ RunStep(r)) \/ Tick) /\ UNCHANGED backVars
    \/ Script
    \/ \E r \in Runs : QueueRun(r) \/ ShowUp(r)

Spec == BackfillInit /\ [][Next]_vars

FairSpec == Spec /\ LatestFairness

-----------------------------------------------------------------------------
TypeOK ==
    /\ LatestTypeOK
    /\ script \in {"off", "look", "count", "queue", "append", "sleep", "ended"}
    /\ cursor \in 0 .. StartCommit
    /\ seen \subseteq 1 .. StartCommit
    /\ mine \subseteq Runs
    /\ unlisted \subseteq mine
    /\ starts \in 0 .. MaxStarts

(* No commit is skipped: wherever the script was stopped, what the file says is *)
(* done was queued, and so was all that the script has walked past.             *)
NoCommitSkipped ==
    \A c \in seen \cup (IF script = "off" THEN {} ELSE cursor + 1 .. StartCommit) :
        \E r \in mine : commit[r] = c

(* The backfill does not flood the agents: of its runs, one is pending at a     *)
(* time, as long as it is not stopped and started again.                        *)
OneBackfillAtATime ==
    starts <= 1 => Cardinality({r \in mine : Unfinished(r)}) <= 1
=============================================================================
