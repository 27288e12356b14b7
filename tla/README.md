# Verification of typescript-benchmarking

TLA+ models of the programs that measure the TypeScript compiler and publish the
results, the TLC runs that check them on small instances, and TLAPS proofs of the
properties that matter most for every size. Everything is translated from the code
at this commit; paths below are relative to `src/`.

## 1. Inventory

The repository measures builds of TypeScript. A pipeline (`build/benchmark.yml`) turns
a request into jobs, runs them on several agents, merges what they measured, and posts
or uploads it. On an agent, `ts-perf benchmark` runs a scenario on a host: a *scenario*
is a project and its compiler arguments, a *host* is a JavaScript runtime.

| component | state it keeps | operations | what is hard |
|---|---|---|---|
| benchmark runner `ts-perf/packages/commands/src/benchmark/measure.ts` | loop counters, a `values` object per iteration, `samples`, files of earlier compiles | clean, compile, second compile of a build, remove output, execute a startup program, collect a measurement | children's `exit` is not the end of their pipes; exits by signal; samples dropped or empty; stale files |
| server clients `benchmark/measuretsserver.ts`, `measurelsp.ts` | pending request, sequence numbers, open files | spawn, request and await answer, shut down | a server that dies with a request pending; an exit request in `finally` |
| benchmark command `benchmark/index.ts` | loaded benchmark, two baselines | load or measure, compare, save, upload | several saves in parallel, one of which fails; range error |
| benchmark file model `api/src/model/*.ts` | scenarios, hosts, measurements with indices | merge, filter, patch, compare, save to a blob | indices into arrays that are being renumbered |
| statistics `api/src/model/value.ts`, `utest.ts`, `uDistribution.ts` | a table of counts | mean, error, U test | boundaries of a table; zero samples |
| host installers `commands/src/host/*.ts` | directories and `host.json` | install, force, uninstall, list | a try that ends in the middle and is repeated |
| inspector client `inspector/src/*.ts` | session, snapshot in progress, its stream | start and stop tracking, take a snapshot, profile | callbacks between awaits; a rejected request |
| profiler host `profiler/src/commands/*.ts`, `executable.ts` | snapshots to await, a patched `process.exit` | profile a program and save before it exits | one thread for compiler and profiler; exits from anywhere |
| profile analysis `inspector/src/timeline.ts`, `visitors/*`, `commands/src/analyze` | trees of calls | trim, map, aggregate | pure data transformations |
| pipeline `build/benchmark.yml` | jobs, their outcomes, artifacts, a token | set up, benchmark on each agent, merge, post, upload, report a failure | failures and cancellation between steps; retries |
| pipeline set-up `scripts/src/setupPipeline.ts` | parameters | parse preset and overrides, make matrices | duplicates; empty matrices; commits relative to a HEAD that moves |
| result poster `scripts/src/postPerfResult.ts` | the status comment on GitHub, shared with other pipelines | create results comment; read, edit, write back, read again | lost updates, late writes, retries |
| latest result and backfill `scripts/src/checkLatestCommitForRef.ts`, `scripts/src/backfill` | blobs named by commit and `latest`; the backfill's file of commits | ask for the head of a ref, upload; queue a run for each commit of a range | runs of several commits out of order; a backfill that is stopped anywhere |
| GitHub App token `scripts/create-github-app-token-from-keyvault.cjs` | a token | create, revoke | revoked too early or never |
| others: printers, command framework, scenario scripts, provisioning, measured solutions | | | formatting, declarations, vendored code |

Interactions. The pipeline starts one `ts-perf benchmark` per matrix job (in the order
new, baseline); `benchmark/index.ts` calls `measureAndRunScenarios` once, which spawns
compilers itself and server clients as children that print the lines it parses. The
`.benchmark` files are published as artifacts, merged by `ts-perf merge` in the job
ProcessResults, printed, given to `postPerfResult.js` and uploaded by `saveBlob`. Pipelines
that were requested in one comment run independently and meet only in that comment, and
in the `latest` blob.

What makes each component correct:

- runner: each line counts for the run that printed it; no warmup is measured; a kept
  compiler sample is complete; builds start on a clean tree; the run ends;
- poster: a reported success stays in the comment; interference neither exhausts the tries
  nor leaves a placeholder for ever;
- pipeline: who asked hears of the results or of the failure; nothing is posted or uploaded
  that lacks a job of the plan; the token outlives its users and is always revoked;
- latest blob: never replaced by the result of an older commit; in the end, the head's;
- backfill: no commit of the range is forgotten, and at most one of its runs is pending;
- server clients: each request is answered or the run fails; no request after the exit;
- installers: a host with a `host.json` is complete, whatever was interrupted before;
- heap profiler: it ends, and each stream that is closed has the chunks of its own snapshot, once;
- file model: merge and filter keep each measurement with its scenario and host;
- set-up: each job that is asked for is run once, with compilers built from the commits asked for.

The hazards behind these, with the line where each bites, are the `hazards` of
PROJECT.json.

## 2. Plan

| order | module | abstract specification or composition | state |
|---|---|---|---|
| 1 | `MeasureRun` | - | done, proved |
| 2 | `PostPerfResult` | implements `ResultBoard` | done, proved |
| 3 | `BenchmarkPipeline`: jobs, conditions, step failures, retries, cancellation, token | the script of `PostPerfResult` as one step that succeeds or fails | done, proved |
| 4 | `LatestBlob`: pushes to a ref, runs of several commits and the `latest` blobs; `Backfill`: the script that queues runs of a range of commits | `Backfill` extends `LatestBlob`, and implements it | done, proved |
| 5 | `ServerSession`: client, server and their two pipes | one child of `MeasureRun`: its lines and its end | done, proved |
| 6 | `HostInstall`: install, configure and uninstall, with failure, interruption and retry | - | done, proved |
| 7 | `BenchmarkFile`: files, merge, filter; `ResultFiles`: the commands that use them | `ResultFiles` extends `BenchmarkFile` | done, proved |
| 8 | `HeapProfile`: heapProfile, the compiler it runs, and the V8 agent of the same process | the child of the command `heap` | done, proved |
| 9 | `SetupPipeline`: presets and arguments, and the checkouts and builds | implements `SetupSucceeds` and `SetupFails` of `BenchmarkPipeline` | done, proved |

There is one safety run per module, with its liveness properties in the same run; a
violation run only where the code disagrees with what the repository says of it.

Every invariant of a run that passes and both refinements have a theorem (section 12). What could
follow: two processes at once in `HostInstall`; the trimmer of profiles as a pure module.

## 3. `MeasureRun`: one benchmark run

`measureAndRunScenarios` and its four runners (`runCompilerScenario`, `runTSServerScenario`,
`runLSPScenario`, `runStartupScenario`). The runner is one asynchronous function, so an action
is the code between two awaits; between two actions a child's line may arrive or a child
may end. Which await is pending is `pc`:

| `pc` | the code awaits | actions |
|---|---|---|
| `begin` | the scenario's temporary files | `BeginScenario` |
| `clean` | `exit` of `tsc -b --clean` | `CleanExits` |
| `compile` | `exit` of a compiler or server client | `CompileExits` |
| `remove` | `rm` of the output directory, failure ignored | `RemoveOutput` |
| `execute` | `exit` of a startup execution | `ExecutionExits` |
| `done`, `failed` | - | `Ended` |

`LineArrives(c)` is the `line` listener of child `c`, possible from its spawn on, and after
its exit and after the end of its iteration too: `child[c].last - child[c].read` lines are in
the pipe. `values[n]` is the object `values` of iteration `n`, which `samples` holds by
reference: a line that arrives after `samples.push(values)` still changes that sample. Three
lines of code are about what is *not* done, and the model keeps them so: no exit code of a
compiler is tested, a failing `rm` is ignored, and nothing listens to a child's `error` event
(`SpawnFails`).

`kind` is chosen in `Init`. `server` stands for both server runners, which have the same loop:
the server client is the child, and `MetricKeys` is the set of names it printed. In a run
over several pairs the code picks the runner for each scenario; the model gives all pairs of
one behaviour the same kind, which loses nothing: `FinishScenario` resets everything but
`measurements` and `outputs`, and only `tsc` reads or writes `outputs`.

Abstracted: the text of a line to its index and a value of 0 or 1 (only the total is tested
for 0); averages (the series are kept instead); paths and environment of the child; a line
printed twice in one compile (the printed diagnostics have each name once).

Run **measure** (1.1 million states, under a minute): one scenario and host, a warmup and two
measured iterations, two lines per child, two executions per startup iteration, in all three
kinds, with and without `-b`. Lines of three iterations can be in the pipes at once. Two measured
iterations are the fewest where a sample can be charged to its neighbour in either
direction; two lines are the fewest where a total is distinct from another metric.

- `LinesCreditedOnce`, `CompilerSamplesComplete`.
- `MeasurementSizes`: how many samples a measurement has, from which iterations and in which order.
- `FirstCompileStartsClean`. The theorem covers runs of several pairs, where the products of one
  are there when the next begins.

A startup execution that fails ends the measuring of its iteration without a word: `exitCode ??=
await execute()` (line 539) does not execute any more once an exit code above 0 has been seen,
and the remaining turns of the loop push samples of about 0 ms (a finding).

What the run says in plain words. A compiler sample that is kept is complete,
*because* the total is the last line printed: the test of `values.totalTime` on line 261
does more than skip failed compiles. It also means that a compile whose pipe is slow is
dropped without a word, so a measurement may hold fewer samples than its `iterations` says
(`MeasurementSizes` has `<=` for `tsc`). A build does begin clean, except that a clean process
killed by a signal passes for a success (`null > 0` is false).

That the runner ends is not stated: each of its waits is for a child or a removal, and it ends if
they do. The code sets no timeout of its own.

## 4. `PostPerfResult` and `ResultBoard`: reporting back

A pull-request comment may request several pipelines. They share one status comment, in
which each replaces a placeholder of its own, `<!--result-ID-->`, by a link. GitHub has
no compare-and-set: the script reads the body, edits it, writes it back, waits a second,
and reads again, at most five times.

An action is one request or timer of one script (`CreateResults`, `GetComment`,
`UpdateComment`, `Wake`), or a request that fails for good (`RequestFails`), after which
the exception ends the process. `UpdateComment` may be applied and its answer lost (and `CreateResults` likewise): the
client library repeats it, with the same body, and the second application may overwrite what
others wrote in between. `RequestFails` may also have been applied. `Tick` is time: a timer
fires at `RetryDelay` or later. `MaxLatency` bounds, in ticks, how long after a read the
write of what it gave is applied for the last time. The code has no such bound: it is an
assumption on the network, and the theorems name it.

`ResultBoard` is what the readers of the comment are promised: a poster that has ended well
has its entry filled in, from then on for ever. `Board == INSTANCE ResultBoard WITH filled <-
Filled, outcome <- Outcome` maps the scripts to it.

Runs, with a delay of two ticks (one second) and a latency of one:

- **post** (92 000 states, 10 s): three posters, each with or without an entry in the
  comment, five tries as in the code. `SuccessIsVisible`, `TriesSuffice`,
  `ImplementsBoard`, and `EventuallyAllReported` under fairness. With fewer ticks of delay than of latency two
  posters are enough to lose an update, so the bound is where the interesting case begins.
- **post_lost** (a violation, 4 s): a fourth poster. p1's link is overwritten by p2, which
  had read before; p4 reads; p3, which had read before p2's write, restores the link; p1
  wakes, sees its link and reports success; p4 writes the placeholder back. The comment
  "Repeat; someone may have edited the comment at the same time" (line 93) is not made good: the
  script stops at the first good read. With a longer delay it is: a theorem says that
  N posters are safe if (N - 1) * latency < delay (section 12), so four of them if a write is
  applied within a third of the second. With four posters and a latency of one, a link can be lost at a
  delay of three, and not at four (TLC).

Fairness: weak, on the requests and the timer of each script and on time. `Answered` says
that a write is not left without an answer for ever: the client library repeats a
bounded number of times, after which the request fails. `RequestFails` has none.

## 5. `BenchmarkPipeline`: one run of the pipeline

The four jobs of `build/benchmark.yml` and the conditions between them. An action is the end
of one step of one job, with success or with failure:

| variable | in the code | actions |
|---|---|---|
| `setup`, `comparison`, `custom`, `matrix` | job Setup and the variables it sets | `SetupSucceeds`, `SetupFails` |
| `leg[j]`, `retries`, `files`, `published` | a leg of the matrix job Benchmark of an agent | `LegStarts`, `LegStepPasses`, `LegStepFails` |
| `at["ProcessResults"]`, `merged`, `dated`, `latest` | job ProcessResults | `ProcessStarts`, `Gather`, `CreateToken`, `Merge`, `PublishMerged`, `Comment`, `CheckLatest`, `Upload`, `Revoke` |
| `at["OnFailedPRRun"]` | job OnFailedPRRun | `ReportStarts`, `Gather`, `CreateToken`, `Comment`, `Revoke` |
| `canceled`, `stopped` | the state of the whole run | `Cancel` |

`Setup` is one step, whose outcome is any matrix: a preset and its overrides may filter out
every job (`SetupPipeline` is what happens in it, section 11). "gather" stands for what a reporter does before it asks for a token: downloads,
moving the artifacts, the clone and build of the benchmark repository. Each of these may fail,
and none has an effect but to let the job go on. The legs of one agent run one at a time; the
model interleaves them freely, which allows more behaviours. A step that is declared
`retryCountOnTaskFailure` is tried again, `MaxRetries` times.

`postPerfResult.js` is one step with three outcomes: posted, not posted, and posted although the
script failed (section 4 shows how). The upload goes kind by kind; of a kind, the blob under
the commit's name and the one that is the latest are saved in parallel, so that a failed
kind may have saved one, both or none. A custom commit range has no branch, and then the upload
fails where it names the blob.

Cancellation is what the text of the conditions means: a job that has not started evaluates
its condition, in which `canceled()` is now true; a job that runs ends its step and goes on with
those declared `always()`, that is, with the revocation. `stopped` holds the reporters that were
running at that moment. An agent that is lost, and what Azure reports of a job that runs into
`timeoutInMinutes`, are decided outside this repository and not modelled.

Run **pipeline** (1.6 million states, about 100 s): two agents, so that the matrix of one may be
empty and its job skipped; three jobs, two of them of one kind, so that a merge can succeed with
one of the two missing; one retry. Any number of steps may fail.

- `ResultsAreComplete`: what is posted or uploaded holds every job of the plan, in both
  versions if it is a comparison. The merge itself does not see to it: it takes what it finds.
  It holds because ProcessResults starts only when no leg has failed and the run is not
  cancelled (line 331), where "no leg was cancelled" is not tested and follows.
  The property also says that an upload that succeeds is whole. After one that failed, the
  latest results of the kinds may come from different runs; nothing in the repository rules that
  out.
- `TokenCoversItsUses`: across failures and cancellation. Two tokens outlive their job: one whose
  revocation failed ("lost"), and one that GitHub has made and the step has not put out, as it
  failed in between ("unseen"): the job has nothing to revoke it by.
- `RequestAnswered`: a run for a pull request that is not cancelled posts its results or its
  failure, unless OnFailedPRRun fails itself. Both may be posted: when the revocation fails after
  the results have been posted, the job has failed and the person hears that too.

Fairness: weak, on the steps of each job. Every step ends: those that do not are ended by
`timeoutInMinutes`. `Cancel` has none.

## 6. `LatestBlob` and `Backfill`: the latest results

Each push to a branch starts a run of the pipeline, and a person or a script may start
*historical* runs of any commit. They run side by side, and share one blob `latest` per kind. A
run asks GitHub, after it has measured and before it uploads, whether its commit is the head
of the branch, and calls that "generally safe" (`checkLatestCommitForRef.ts`:41). In
`LatestBlob` a run is what it does to these blobs:

| action | in the code |
|---|---|
| `Push`, `Historical`, `Queue` | a push; `runPipeline` with `HISTORICAL_RUN` |
| `CheckLatest` | the end of the measurement, and `isLatestCommitForRef` |
| `UploadKind` | one turn of the loop of "Upload benchmarks to blob store" |
| `RunFails` | a failing step or a cancellation, before the check or in the middle of the upload |
| `Tick` | time |

Commits are numbered as they are pushed, runs as they are queued. `age` is the time since a run
was queued and, after its check, since the check: a run takes at least `MinRun` ticks to get to
its check, and the last write of its upload is applied at most `MaxUpload` ticks after. Neither
bound is in the code. `LatestNeverOlder` needs `MaxUpload < MinRun`: a run whose commit is
overtaken after its check has uploaded before the newer commit is measured. With
`MaxUpload = MinRun` TLC finds an older result on top of a newer one.

`Backfill` adds `backfillAllCommits.ts`: `Look` (is the commit in the file?), `CountBuilds`
(wait until no build is pending), `QueueRun`, `AppendSeen`, then a minute of sleep and `Wake`.
`Stop` is a request that fails for good or a person who stops the script, anywhere; the
answer of `runPipeline` may also be lost after the run was queued. `Start` starts it again with the
same arguments. `unlisted` are the builds that `getBuilds` does not return yet. That a build is
listed within the minute is the assumption of the comment on line 155, and `Wake` makes it.
`backfillLatestOnBranch.ts` queues runs of heads; its effect is that of `Historical`, which
`LatestSpec` has and which the composed run takes from `backfillAllCommits.ts` only. The
theorems about `LatestSpec` hold with both.

Run **latest** (550 000 states, one minute): three runs, three commits, two kinds, a `MinRun` of two
ticks and a `MaxUpload` of one, a backfill from the second commit that is started at most
twice. Three runs are the fewest in which a backfilled run is pending between two pushes;
with two kinds an upload can be half done.

- `LatestNeverOlder`, `KindsAgree`: across overlapping runs, failures and late writes. After a run
  that failed half-way the kinds may be of two commits, and nothing repairs it before the next
  push (`KindsAgree` says exactly when they agree).
- `EventuallyLatest`: under fairness the latest results are the head's in the end, unless a run
  of the head failed: many skip the upload because they are outdated, but someone uploads.
- `NoCommitSkipped`: the run is queued before the line is written, so that a stop between the two
  queues a commit twice, and never forgets one.
- `OneBackfillAtATime`: unless the script is restarted within the minute of sleep.

That the composition implements `LatestBlob` is a theorem (`BackfillImplementsLatest`).

Fairness: weak, on the check and the upload of each run and on the ticks that count. Agents take the
queued runs and time passes. The script has none: no property needs it to go on.

## 7. `ServerSession`: the server clients

`measuretsserver.ts` and `measurelsp.ts` are the children that `MeasureRun` calls `server`. They
are two programs of one shape, and `options.client` says which one runs: start a server, greet
it, read the commands of the scenario, run them one at a time, print after each how long it
took, shut the server down. An action is the code between two awaits, and `pc` is what is
awaited:

| `pc` | tsserver | LSP | actions |
|---|---|---|---|
| `launch` | the server's start | the server's start | `Launch`, `CannotStart` |
| `hello` | `configure` | `initialize` | `Greeted` |
| `initialized` | - | the notification of that name | `Initialized` |
| `sleep` | the pause before a command, with `--cpus` | - | `Slept` |
| `read` | the files of `updateOpen` | the files of `updateOpen` | `ReadFiles` |
| `command` | one request | one request or notification for each file | `NextMessage`, `CommandDone` |
| `exit` | the exit message of `finally` | - | `ExitDone` |
| `shutdown`, `exitNote` | - | the two messages of `finally` | `ShutdownDone`, `ExitNoteDone` |
| `settled` | nothing: `main()` is settled | likewise | `End` |

`MessageFails` and `Throw` are the exception that goes through `finally`. The server and the
libraries that carry the messages are external: `Answer`, `Written`, `ExitAccepted`, `ServerExits`,
`ServerCrashes`, and, of a request to a dead server, either `Rejected` or `Drain`. In the latter
the promise is never settled; then the event loop is empty, and the client ends in the middle
of `main()`, with exit code 0. That the promise of tsserver's exit message is settled when the server
does obey is assumed of the library. `served` counts the answers that the server has given.

Run **session** (6000 states, 2 s): both clients, with and without `--cpus` and `--extended`; the
scenario of the repository, one with two more commands, with an unknown one, with two commands
swapped, and with too few; two files, the fewest where one answer is not all.

- `NumberedAlike`: the two clients send different messages and count them in different ways, but
  print the same lines in the same order (the comment on line 182 of `measurelsp.ts`).
- `TimesAreComplete`: a time that is printed covers the answers to all requests of its command.
- `ExitCodeIsRight`: with exit code 0, and unless the server crashed, every line is printed and no
  server is left; and an error is not hidden by the awaits of `finally`, which may fail or be cut off
  themselves. The exception is real: it is `Drain`. Its reader, `MeasureRun`, does not
  notice either, since a non-zero exit code there only adds "(with errors)" to a line of output.
- `EventuallyEnds`: except in one case. When an LSP server refuses the shutdown request, the error is
  swallowed together with the exit notification that was to follow, so a client that was
  successful waits for a server that nobody has told to go (`Refused`). Its parent has no timeout.

Fairness: weak, on the client, and on a server that answers, or refuses, each request and ends when it
is told to. `ServerCrashes` has none.

## 8. `HostInstall`: installing hosts

A host is a directory with the files of a runtime and a `host.json`. `dir[h]` is what the
directory of h holds besides host.json (`"none"`, `"part"`, `"whole"`), `json[h]` is host.json
(`"none"`, cut off in the middle of a write, `"ok"`), `flags[h]` its settings. Three commands work on
them, one process at a time; `pc` is what the process awaits:

| command | actions |
|---|---|
| `install` | `StartInstall`, `ReadIndex` (the releases of Node, fetched whatever is asked for), `Check` (is there a host.json?), `RemoveContents`, `RemoveJson`, `Removed`, `AllRemoved` (with `--force`), `Download`, `Unpack`, `Unpacked`, `SaveOpens`, `Saved`, `InstallEnds` |
| `configure` | `StartConfigure`, `ConfigureHost`, `SaveOpens`, `Saved`, `ConfigureEnds` |
| `uninstall` | `StartUninstall`, the removals of all hosts found, in parallel, `AllRemoved` |

`Fails` is an await that is rejected and `RemoveFails` a removal that is; `Killed` may happen anywhere. The
next command then finds what is left. The three installers share their shape, and differ where
`KindOf` says so: bun and VS Code are refused off Linux (`Refused`), `unzip` asks before it
overwrites (`Asks`). Two kinds of hosts are dropped without a word (`Dropped`; both are findings): those of
VS Code, whose installer never collects a version (`versions.push()` without an argument, so that
what follows in `vscodeInstaller.ts` is never run), and those of Node for an architecture
other than x86 and x64 (`OtherArch`), which a release matches by its files and
`getSupportedPlatformsAndArchitectures` then leaves out. `configure` saves a host unless `Host.with`
returned the same one (`SameHost`); a key that is not true is unset in host.json, so that setting it
to false always saves. A pattern may match
several hosts; a command names the set that its patterns match. Not modelled: the temporary
file and the archive, which are written anew by each try; two processes at once, which
`lock: true` in the commands asks to exclude and nothing excludes.

Run **hosts** (250 000 states, 40 s): two hosts of Node, of which one is for another architecture, and one
of Bun, any three commands, on Linux and on Windows. VS Code, of which nothing is ever
on the disk, is left to the proofs.

Three commands are enough for one that leaves something half done, one that makes it worse or
mends it, and one that relies on it.

- `ListedIsComplete`: host.json is written last, so a listed host has all its files; but a removal
  that is interrupted may take files first, and the host stays listed.
- `DoneOrReported`: an install or
  uninstall that ends well has done what it was asked to or reported it, whatever was left
  behind, with four exceptions that the property names: a host of VS Code; a host of Node for another
  architecture; a host that an interrupted removal has damaged, and one whose host.json is cut
  off. The last two are "nothing to do" for an install without `--force`, and the last is found by no other command.
- `OthersUntouched`: no command touches a host it was not asked for, or another setting than the one it
  was given, except that an uninstall of nothing but unknown names removes the default hosts (see
  below); even that one never touches a host that is disabled.
- `EventuallyEnds`, except for the question of `unzip`, which comes when
  bun is installed over the files of an earlier try.

`host uninstall` of a name that is none of the three writes an error, is left with an empty list of
patterns, and removes the default hosts, which is what `Host.findHosts` finds without patterns (a
finding; `StartUninstall` follows the code).

Fairness: weak, on the steps of the command that runs. Downloads and child processes end, except the
`unzip` that waits for an answer.

## 9. `BenchmarkFile` and `ResultFiles`: the result files

`BenchmarkFile` is data: a benchmark has a commit, lists of scenarios and hosts, and measurements, each
of a scenario and a host, with the host's position in the list, the keys of its values and its
samples. All values of a measurement are pushed together, so it has one sequence of samples here, and
a sample is the number of the run that took it: one sample of a run stands for all its
iterations. `from` is history: how often each run went into the file. Left out, because nothing else
depends on them: dates, counts of iterations, system data, and `scenarioIndex`, which is
written under another name and never read back. Version and architecture of a host are one field.

`ResultFiles` is the machine on which the commands run, one after another. `disk[f]` is what a file holds,
`Absent`, or `Torn` if it was cut off; `cmd` is the command that runs or ran last; `data` and `bases`
are what it has in memory, `written` how far each of its outputs is:

| command | actions |
|---|---|
| `benchmark` | `Begin`, `Measure` (see `MeasureRun`) or `Load`, `LoadBaselines`, the saves, `Saved`, `Compare` with the range error |
| `merge` | `Begin`, `MergeFiles`, the save, `Saved`, `Compare` (exit 0) |
| `patch` | `Begin`, `Patch`, the save, `Saved`, `Compare` (exit 0) |

The saves of a command run in parallel: a local file is emptied (`Truncate`) and written (`Write`), a
blob replaced at once (`Upload`). `Fails` is a rejected await: benchmark and patch end with 1, and
process.exit cuts off what is still being written; merge prints the error and ends with 0. `Killed`
may happen anywhere. Nothing else reads the files meanwhile, so the reads of a command are one step.

Two operations do less than they say, and the model follows the code: `Filter` with scenarios and hosts
keeps no measurement, and `Patch` throws at the first measurement of the patch and is otherwise
written without any (findings in PROJECT.json).

Runs, any four commands out of eighteen command lines, of which two may measure, on two local files and
a blob; two scenarios, one of them found twice (one overrides the other), two hosts, one of them only
a path; four builds, of two commits:

- **files** (550 000 states, 100 s). Four commands are two measurements, a merge and a comparison with the
  result. `SamplesAccounted`: under each scenario and host, a file holds exactly the samples that were
  taken there, as often as their run was merged into it, and the position of a measurement's host is
  right after any merges, unless a host without a version took it (`HostIndexResolves`).
  `SavedOrReported`: a command that ends without an error has left its whole result in each of its
  outputs, but for a blob that is not ASCII, which is uploaded with the wrong length.
  `AlarmIsRight`: exit code -1 means that a total time has grown by a tenth, by what was measured.
- **files_range** (a violation): the opposite direction, which the help of --errorOutOfRange promises.
  No error comes when the result is saved and nothing printed, or when --scenario and --host empty
  the baseline.

No fairness: the properties are about what a command has done when it ends. Deadlock is not checked,
since the machine rests after the fourth command.

## 10. `HeapProfile`: heap snapshots

`ts-perf heap` starts the profiler as a child, which runs the compiler *in its own process*:
`require` of the compiler's file is the body of a promise, and `process.exit` is patched to throw
meanwhile, so that the profile can be finished when the compiler thinks it has left. Snapshots are
asked of the V8 agent of that process, when the compiler sets a mark that --event names, or at
the end. `pc` is what `heapProfile` does or awaits:

| `pc` | the code | actions |
|---|---|---|
| `connect` to `startTracking` | four requests | `Prepare` |
| `start` | `exec` is called | `Exec` |
| `exec` | `await compiler.exec()` | `ExecSettled` |
| `settle` | `await Promise.all(pendingActions)` | `Settle` |
| `disable` | `await heapProfiler.disable()` | `Disable` |
| `done`, `rejected` | settled; `main` prints a rejection | `Crash`, `End` |

There is one thread. While the compiler has it, nothing runs but the listener it calls (`Mark`).
Continuations whose promises are settled wait in `jobs` and run in that order, one action each
(`SnapshotAnswered`, `SnapshotTaken`, `ExecSettled`, `StopResumes`), when the compiler has given the
thread up (`CompilerReturns`, `CompilerExits`, `CompilerThrows`); the next turn of the event loop
(`CompilerResumes`, `AgentAnswers`, `BeforeExit`) comes when there are none left. The agent is
external: it answers while it is asked, or in a turn of its own (`later`), or refuses; it sends the
chunks of one snapshot in one turn, so that they are one delivery. `content[s]` is what the
stream of snapshot s was given, the stop's own snapshot being 0. The marks and turns of the
compiler are arbitrary. The file of a stream may fail to be opened or written; nobody listens to the
'error' of a stream, so that the process crashes (`StreamFails`). Left out: the tests of `_started`, which always pass here, progress
reports, and file names.

Runs, with two marks, of which any may be events, up to three snapshots and three turns. Three
snapshots are one for each event and one more; in the third turn `process.exit` may be called
after `exec` was settled in an earlier one.

- **heap** (8700 states, 2 s). `TypeOK` has, besides the types, that the writable the next chunk goes
  to is never one that was closed: what closes it must reset it too. `SnapshotsAreWhole`: a stream that was closed holds its snapshot and
  nothing else, although the agent may answer at once, while the stop is waiting, or after the
  compiler has thrown; and a profiler that is done has closed all. What makes it true is that
  `stopTrackingHeapObjects` waits for the snapshot under way, as the snapshot that the stop sends
  goes to whatever stream is set. `EventuallySettled`: a snapshot that is refused never
  resolves the promise that the stop waits for, and leaves `_takingSnapshot` set; the profiler ends
  all the same, because `Promise.all` is rejected by the snapshot itself, or nobody handles the
  rejection and the process ends.
- **heap_events** (a violation): two events marked in one turn of the compiler. `takingSnapshot` is
  reset by a continuation, which does not run before the compiler gives the thread up, so the
  second event has no snapshot even when the first one is long finished. The help says that a
  snapshot is taken "at the specified <event> (can be specified multiple times)".

Fairness: weak, on the process as a whole: it goes on as long as anything can run. It does not
include `Mark`, of which a compiler may set any number, nor `StreamFails`. What neither property rules
out: a profiler that has crashed, or has quit because `process.exit` was called once it was handed
back, leaves what it was writing cut off.

## 11. `SetupPipeline`: planning the jobs

The job Setup in detail. `setupPipeline.ts` reads the parts of its input one by one (`ReadPart`,
`ReadFails`: a preset first, then arguments, unknown ones passed over) and turns the preset's
scenarios into jobs (`Plan`, the loops of `transformPreset` and `setupPipeline`). The steps after it
check out and build the new compiler and the baseline, one after the other in one clone
(`BuildStep`, `BuildFails`). The table of scenarios is the code's; `Preset` is what a preset yields,
`Worker` and `Kept` what `transformPreset` makes of it, `MatrixOf` the jobs of an agent. HEAD is a
variable, and commits are names of git (`HEAD`, `HEAD^1`, a hash), resolved where git is asked.
The costs are printed and decide nothing, with one exception: when baselining plans no job, there is no
highest cost to print, and `prettyMilliseconds` throws (`PlanFails`; a finding). Left out: their
amounts, names of commits, the agents that no scenario names, and the
number of warmups, the same everywhere. `SetupAssumption` says that no two hosts have names which
are equal once sanitized.

Run **setup** (65 000 states, 70 s): all presets and scenarios, both compilers, with and without
baseline machines, for a pull request, a branch that is uploaded for and another; a preset and two
arguments (two give any pair of a list of hosts, a range, a commit and the rest, and any of them
twice); a history of two commits, so that `HEAD^1` exists and differs.

- `PlannedAsAsked`, against a count of how often each scenario is asked for on each host: once
  means one job, on the machine that is its own if the run is for the baseline; never means
  none; and TSPERF_PROCESS_KINDS is just the kinds that have jobs, as ProcessResults expects. What
  is asked for *twice* is excepted: the code means to keep one copy and keeps none (a finding), so
  that the presets baseline and full have no tsc jobs at all with the native compiler.
- `BuildsWhatIsAsked`: the compilers are those of the commits that the parameters named when the
  clone was made, though HEAD moves in between, and steps are skipped under different conditions.
- `ImplementsSetup`: each step is `SetupSucceeds` or `SetupFails` of `BenchmarkPipeline` or leaves its
  variables alone: matrices are disjoint, a pull request is compared unless commits are given, and
  nothing is there before the job has succeeded. Cancellation is left to that module.

No fairness: no property needs it.

## 12. Proofs

`MeasureRun_proofs`, from `MeasureAssumption` alone (types of the constants; at least one pair,
iteration, line and execution):

- `TypeCorrect`, `EachLineCreditedOnce`: the inductive invariant `LinesInv`. `LinesCreditedOnce` is
  not inductive by itself: a new child starts with no line read, so its predecessor at that
  index must have shown nothing. `LaterNotSpawned` says so (children of later passes and
  iterations do not exist), `PairLeft` and `TotalIsLast` complete it.
- `CompilerSamplesAreComplete`: `KeptInv` says that every pushed sample and finished
  series has its total; with `LinesInv`, a total means that one child of that iteration has
  been read to its last line (`TotalMeansAll`). Values only grow, so late lines do no harm.
- `FirstCompileIsClean`: inductive on its own.
- `MeasurementsHaveTheirSizes`: the invariant says of the pair at hand what the property says of
  the measurements, that is, from which iterations its samples came, in order, and how many are
  still to come.

`PostPerfResult_proofs`:

- `TypeCorrect`, for any number of posters: among others, at most `MaxTries` tries each.
  It needs that a script that goes on has tries left (`TypeInv`).
- `SuccessStaysVisible` and `PostersImplementBoard`, assuming at most three posters
  (`AtMostThree`) and `MaxLatency < RetryDelay` (`Prompt`). The inductive invariant `SafeInv` follows
  the placeholder of p through the bodies in flight. While p sleeps, a body q that carries the
  placeholder was read before p's last write, or p's link is lost and nothing in flight can
  restore it (`Stale`). If it can be restored, then by a body that was read while the link
  was there, and the third poster is accounted for (`Restored`). Once p is awake, after a delay
  longer than any write is in flight, no dangerous body is left (`Awake`). The fourth poster is
  the one this argument cannot account for, and post_lost shows that no argument can.
- `TriesAreEnough`: `TriesSuffice`, under the same two assumptions, for four tries or more; the code makes five.
  p needs another try only if its link has been lost meanwhile, and each time that happens one
  of the others has *settled*: its link is in the comment and in every body in flight, for good. `Room`
  counts how many are left that may do it. It is not inductive by itself: a lost link may be
  about to be restored (`Rescued`), a dangerous body may be in flight (`Menaced`), and `LostTo`,
  `OneLinked` and `NoCircle` exclude the orders in which the third poster would read just then. With three tries the property is false.
- `SuccessOfManyStaysVisible` and `ManyPostersImplementBoard`, for any finite number N of posters,
  assuming (N - 1) * `MaxLatency` < `RetryDelay` (`LongDelay`). A body that disagrees with the comment
  about p was read while another such body was in flight, and so on back to p's last write. In
  such a relay everyone carries p's entry for a latency at most, and none twice, since each sleeps
  after its write: `Relay` bounds p's sleep by one latency for each poster that is `Behind`. All
  relays are over when p wakes, so that the bodies agree about it (`ManyInv`) from then on.
- `TriesAreEnoughForMany`: `TriesSuffice` under the same assumption with more tries than posters: five,
  as in the code, for four posters. When the bodies in flight have come to agree with the whole comment, the
  last writer has settled or failed (`LastWriterSettles`). By the argument above that
  happens between any two tries of p, so each try that fails leaves one rival fewer
  (`CountInv`). TLC finds three posters in need of a fourth try, and four in need of a fifth.

`BenchmarkPipeline_proofs`, from `PipelineAssumption` alone (any agents, jobs, kinds, retries):

- `TypeCorrect`, with the bound on the retries.
- `TokensRevoked`: the inductive invariant `TokenInv` adds to the property which steps come
  before the token is made, which while it is live, and that a job leaves these only through
  the revocation; a step that fails to put its token out leaves none that is live to the job.
- `ResultsComplete`: the property speaks of the end of the pipeline and depends on its
  beginning, so the invariant has two parts. `LegInv` says what a leg has saved at each of its
  steps, thus what one that succeeded has published. `MergeInv` says that ProcessResults is past
  its start only if every leg has succeeded (after which no leg saves anything any more), and that
  `merged` is all of them once the job is past its merge.

`Backfill_proofs`:

- `NeverOlder` and `LatestKindsAgree`, for any number of runs, commits and kinds, assuming
  `MaxUpload < MinRun` (`Prompt`). The inductive invariant `OrderInv` compares runs that are uploading with the
  blobs and with each other: a pending run of a newer commit than one that uploads as the latest was
  queued after the check of the latter, so its `age` is not greater. The upload is over before the
  newer run can be checked, and all runs that upload as the latest have one commit. `KindsInv` adds
  which kinds may still have an older one.
- `TypeCorrect`, `NothingSkipped` (`BackInv`), for any range and any number of restarts.
- `BackfillKeepsToOne`: `OneRunInv` says that when the script is about to queue a run, none of its own
  is unfinished, which is what it counted, since all of them were listed by then.
- `BackfillImplementsLatest`: each step of the composition is a step of `LatestBlob` or leaves its
  variables alone. `NeverOlder` and `LatestKindsAgree` are proved of `LatestSpec` and carried over by it.

`ServerSession_proofs`, for any scenarios and any number of files, from `SessionAssumption` alone:

- `TypeCorrect`, `LinesNumberedAlike`, `TimesComplete` and `ExitCodeRight`. The
  inductive invariant `Inv` is one: `PhaseInv` relates what is awaited to what has been sent and
  answered, `OutInv` says that when command n is at hand the lines of all earlier ones, and no
  others, are printed (`LinesReady`), and `EndInv` what the client knows of the server when it ends.

`Setup_proofs` has the proofs about what precedes a measurement. About `HostInstall`, for any hosts,
settings and number of commands, from `HostAssumption` alone:

- `TypeCorrect`, `ListedComplete`, `Done` and `OthersAreUntouched`. The inductive invariant `Inv` says that
  a host.json vouches for the files beside it even while it is cut off (`CompleteInv`; without that the
  write that follows could not be accounted for), that the host at hand is one the command has
  still to see to (`PhaseInv`), and that those it is through with are in order (`DoneInv`). `PhaseInv` also
  says that what is being removed was asked for or, for an uninstall of unknown names alone, is
  enabled, which is what `OthersAreUntouched` needs of that case.

About `SetupPipeline`, for any hosts that may be asked for, any history and any number of arguments, from
`SetupAssumption` alone (the scenarios and the presets are those of the code):

- `BuiltAsAsked`: `InputInv` says what parameters the arguments read so far can have made (explicit
  commits make a comparison; HEAD^1 is asked for only when HEAD is the pull request), `BuildInv` where
  HEAD is after each step and that what is built is the commit that was asked for before
  anything was switched.
- `PlanIsWhatIsAsked`: the property counts how often a scenario is asked for on a host, while the plan is
  a concatenation of concatenations. `Origin` ties each entry of the plan to the scenario and the place
  in the lists of hosts it comes from, one to one (`PlanHasOrigin`, from lemmas on where `FlattenSeq`
  puts the elements of its sequences); since names of scenarios are distinct, two entries of one name
  are two times asked, and an entry whose name is unique is the one job of its machine (`MatrixOfKept`).
- `SetupRefines`: `ImplementsSetup`. Step by step; only the end of the job is not a stutter, and it needs
  from `PlanInv` that matrices of different agents share no job, and from `InputInv` that a pull request
  without explicit commits is compared.

`ResultFiles_proofs`, for any files, builds and command lines, from `ConstantsAssumption` alone:

- `SavedOrElse`: `SavedOrReported`. The inductive invariant `IInv` says, while a command saves, that each
  output is as far as `written` says and that only a local file can be half written, and afterwards
  that no output has been disturbed.
- `FilesHoldBenchmarks` (`TypeOK`) and `NoSampleLost` (`SamplesAccounted`): the inductive invariant `SoundInv`
  says that every benchmark, in a file or in memory, is of its type and accounts for its samples: each
  command is shown to make such benchmarks from such benchmarks. The folds of merge and patch
  are unrolled into a function of the number of elements that have been folded in (they are finite,
  so a smallest prefix that breaks the invariant would exist; `WFMin` gives it, and no induction theorem with an operator
  as parameter is needed).
- `NoFalseAlarm` (`AlarmIsRight`): `AlarmInv` adds the property itself to `SoundInv`. What is compared
  is computed from the samples of a file, and what is true from the runs; that the former
  accounts for the latter is `SoundInv`.

`HeapProfile_proofs`, for any marks and any number of snapshots and turns, from `HeapAssumption` alone:

- `TypeCorrect`. The part about the stream rests on the invariant of `SnapshotsWhole`, the types on one
  of their own (`TypeInv`), with the fact that a compiler that has left work behind has a turn left.
- `SnapshotsWhole`. The inductive invariant says where the one snapshot stands that can be under way:
  its stream is the only one that is open; it is asked for and has nothing written, or the
  queue has its answer, or it was rejected and stays; and until it has ended neither `taken` nor
  `stop` is in the queue. There is one job of each kind at most (`Uniq`), which is why the job
  that is taken from the queue says what the others are not. Without the part on exec
  (`ControlInv`: exec's promise is settled once, and its job is in the queue only while heapProfile
  awaits it), a second stop could not be excluded.

Only model-checked: `EventuallyEnds` (twice), `EventuallyAllReported`, `RequestAnswered`,
`EventuallyLatest` and `EventuallySettled`. They are liveness properties under fairness, which speaks of
ENABLED, and the prover has no rule for it. The three properties of the runs that
expect a violation are false, and have no theorem.

## 13. Not modelled

PROJECT.json says of each component that is not in sections 3 to 11 why. What is left:

- the vendored compilers that are measured (`cases/solutions`). They are nearly all of the
  repository's lines, and no part of its logic: the programs above are a few thousand lines.
- floating point: the U test and its normal approximation, and the margin of error. Their
  results are printed and nothing is decided by them. The range error, which does decide, is
  modelled with the means it compares.
- recorded profiles: the trimmer, the source mapper and the timeline transform data in one pass,
  without failure or order of events.
- printers, declarations of options, parsing of patterns, system queries, and the
  provisioning of agents.
- two processes that install hosts at once: an agent of the pipeline runs one. `lock: true` in the
  commands asks to exclude it and is read by nothing (a hazard without a property).
- the CPU profiler of the profiler host, whose command is that of the heap profiler with one
  profile and no snapshots.
