# Principal: a verification project

TLA+ models of Principal (`src/principal`), the swarm that refactors a Python
repository: a job plans a change, races model-written candidates for each task,
tests every candidate in a sandbox, integrates what survived and opens a pull
request.  The models are translated from the code, model-checked with TLC on
small instances, and the parts marked below are proved with TLAPS for every
value of their constants.

Everything in the server runs on one asyncio event loop over one SQLite
connection used synchronously.  A coroutine is interrupted at an `await` and
nowhere else, so **an action is the code from one await to the next**, with every
row and event it writes on the way.  What makes the system hard is what happens
between two awaits of one coroutine: other candidates ending, cancellation
delivered at any await, timeouts, a full queue, a client that reconnects.

## 1. Inventory

| Part | State it keeps | Operations | Talks to |
|---|---|---|---|
| token budget (`models/budget.py`) | `job.budget_tokens`, `spent_tokens`, the reservation a call holds | reserve, settle, release | model client, store |
| model client (`models/client.py`, `models/cache.py`) | per call: attempts, protocol level, abandoned usage; the disk cache | `complete`: reserve, ask, retry with backoff, downgrade the protocol, charge, record | provider (external), budget |
| task scheduler (`orchestrator/scheduler.py`) | attempt rows, task row, the race of candidates, the seed of the repairs | `run_task`, `_first_green`, `_one_candidate`, `_repair_once`, timeouts, cancellation | model client, sandbox, gates |
| waves (`orchestrator/ordering.py`, `run_waves`) | waves, base patches, semaphore | `order_waves`, `run_waves`, `_dependency_patch` | planner's plan, scheduler |
| job pipeline (`orchestrator/job.py`) | job row, task rows, result events, terminal event | ingest, baseline, map, characterise, plan, execute, clean up, integrate, check, audit, report, publish | all of the above |
| outcome (`outcome.py`, `orchestrator/signals.py`) | none: reads rows and events | `gather_signals`, `classify` | job, dashboard |
| cancel route (`api/routes.py`) | the table of running jobs | `cancel_job`, concurrent calls | job pipeline, sandbox |
| event log and stream (`db/events.py`, `api/stream.py`) | event table, a bounded queue per subscriber, lag marks | emit, subscribe, replay by pages, follow, resync | dashboard |
| code graph (`graph/`) | graph, file, symbol, edge rows shared by the jobs of one commit | build, radius, coverage ingestion | planner, characterisation, impact |
| characterisation (`gates/characterise.py`, `mutation.py`) | generated test, score and re-baselined image of one job; registered edges of the commit's graph | generate, score, register, re-baseline | sandbox, graph |
| integration checks (`gates/behaviour.py`, `impact.py`, `security.py`, `strength.py`) | result events | compare, block, warn, audit | job pipeline |
| gates per candidate (`diffs.py`, `gates/scope.py`, `syntax.py`, `tests.py`, `pipeline.py`, `apply.py`) | attempt artifacts | place a diff by content, apply it, diff rules, test selection, the sandbox run | scheduler |
| cleanup (`orchestrator/cleanup.py`, `evidence.py`) | cleanup tasks | find orphans, plan removals | job pipeline |
| sandbox client (`sandbox/client.py`, `runner.py`, `scripts.py`) | a semaphore, the operation ids of a call | run with retries and a timeout, cancel, read a result | scheduler, job, platform (external) |
| snapshots and baseline (`sandbox/baseline.py`) | a directory per commit, its marker file, a lock | clone, reuse, rebuild; the baseline run | job |
| local sandbox (`sandbox/fake.py`) | a directory, a lock and a remembered result per (parent, script) | copy, run once, remember, reap | the same callers, without credentials |
| grounding (`grounding/tavily.py`) | per-job search count and query cache | search | planner, repairs |
| publishing (`publish/`) | branch, pull request | push, open | GitHub (external) |
| store (`db/store.py`) | the tables | reads and writes in transactions | all |
| dashboard (`dashboard/src/useJobStream.js`) | last event id, folded view | connect, drain, reconnect | stream |
| MCP server, CLI, benchmark, prompts | none of interest | read-only or offline | - |

What is hard here, and in which part:

* *cancellation anywhere* (task, job, client): a coroutine can be told to stop at
  every await, the last one included, and its siblings at the same time;
* *`asyncio.wait_for` on Python 3.11*, the version of the Dockerfile, which hands
  back a result and drops a cancellation that arrives with it;
* *several results in one loop iteration*: green and red candidates together;
* *timeouts racing answers*: the task timeout against the winner;
* *partial failure*: one task of a gather raises, one diff of an integration does
  not apply, the platform kills a run;
* *a bounded queue under a paged replay* (stream);
* *check-then-act on tokens* with several calls in flight (budget);
* *crash between two transactions*, and restart;
* *rows that outlive what they speak of*: the graph of a commit is shared by its
  jobs, the images that hold the tests are not;
* *operations that outlive the coroutine that started them*: a start whose answer
  was lost, a git process whose build was cancelled, a script past its timeout;
* *analyses that block*: an analysis that restates what Python, git or pytest will
  do is wrong at a boundary (a starred parameter, a repeated line, a zero quota)
  and blocks, or lets through, a patch for it.

The correctness properties of each part are listed with its module below; the
hazards, with their lines, are in `PROJECT.json`.

## 2. Modules

Composition: `ModelClient` EXTENDS `TokenBudget`; `JobRun` EXTENDS `Outcome`;
`LocalPlatform` EXTENDS `Snapshot` and `FakeSandbox`; `Analyses` EXTENDS the pure
analyses `Patch`, `Impact` (over `Signatures`), `Cleanup`, `Integration`, `Audit`
and `BlastRadius`.  `SafetyNet` stands beside them with what the jobs of one
commit share.  The
other modules meet through what one abstracts of the other: `WaveRunner` and
`JobRun` see of a task only how it settles, which `TaskRun` has from the inside
and states as `TaskPromise`; `SandboxRun` has from the inside the runs that
`TaskRun` and `JobRun` see by their results; `JobRun` sees of `Analyses` the
verdicts.  Abstract specifications are `TokenBudget` (for the
client), `TaskPromise`, `TaskSchedule` and `OrderedDelivery`; each detailed
module names its refinement (`BudgetSpec`, `PromiseSpec`, `ScheduleSpec`,
`DeliverySpec`) and it is checked as a PROPERTY.

### TokenBudget, ModelClient

`TokenBudget` is the ledger: `reserve` is check and provisional spend in one
transaction, `settle` replaces the estimate by the billed usage, `release` gives
it back.  `ModelClient` is `complete` with its retry loop, run by the calls
`Call`: a request in flight and a backoff sleep are its two awaits.  A blank
reply is billed and thrown away, its usage is carried in `abandoned` and charged
when the call ends; a 400 steps one protocol level down and does not count
against `attempts <= 3`; cancellation and unforeseen exceptions release.

Properties: what the calls overrun the budget by is bounded by the calls in
flight (`OverrunBounded`), a reservation exists exactly while its call runs
(`NoLeakedReservation`), usage of replies that were thrown away is charged
(`AbandonedUsageRecorded`), the client implements the budget (`BudgetSpec`), every
call ends (`CallsEnd`).  The proofs add that retries are bounded and that nothing
is admitted over budget.

### TaskPromise, TaskRun

`TaskRun` is one task: `Fanout` candidates race, `_first_green` looks at
whatever has ended (`CollectWinner`, `CollectLosers`), cancels the losers, and
`run_task` settles the task or goes through `MaxRepairs` repairs seeded by the
most informative failure.  `CanRaise` lets an attempt end with an exception that
nobody names; `Python311` chooses the `wait_for`.  A verdict is a member of a
small set; `info` is `_informativeness` plus one.  `TaskPromise` says what the
rows show: verdicts are final, a task settles once, verified only by an attempt
that passed.

Properties: when the task is over no coroutine of it runs and every attempt that
returned or was stopped is judged (`NothingLeftBehind`); a task discarded on its
merits has no green attempt (`GreenNeverExhausted`); a repair reads a diff and the
run of that diff (`SeedIsPair`); the promise is kept (`PromiseSpec`); every task
ends (`TaskEnds`).

### TaskSchedule, WaveRunner

`WaveRunner` starts from any plan `validate_plan` lets through (any acyclic
dependency relation over `Tasks`, any assignment of files), forms the waves one by
one as `order_waves` does (ready tasks, one per file, lowest seq first) and runs
them as `run_waves` does: base patches for the whole wave first, then a gather
under a semaphore.  `TaskSchedule` is the promise: a task starts after everything
it depends on has settled, alone in its file, within the permits.

Properties: a begun task works on the diffs of every verified task it
depends on, transitively, other than to its own file
(`TestedOnIntegratedTree`); the schedule is implemented (`ScheduleSpec`); the waves
end, which they can only when `order_waves` never runs into its `DependencyCycle`
and forgets no task (`WavesEnd`; the first is also proved, `NeverACycle`).

### Outcome, JobRun

`JobRun` is the coroutine `run_job` (or `run_plan_only`) from await to await
(`phase`), the tasks of its gathers, the cancel handlers, GitHub and the
server.  `gather` is what the job's coroutine will get from `asyncio.gather`:
the first exception decides and the rest run on.  `cancelling` is a cancellation
that was requested and not delivered.  The checks after integration are their
results (`checks`), in the order of the code, with the early returns; the
pull request is the two external steps `pushed` and `opened`.  `Outcome` is the
table of `classify`, by precedence; it reads what `gather_signals` reads.

Properties: the end of a job is final (`EndIsFinal`): its row stands (`EndStands`)
and is announced (`EndAnnounced`), Done is the last event (`DoneIsLast`), nothing
of the job runs on (`NothingOutlivesEnd`).  What is pushed is what the last green
integration applied (`PublishedIsTested`).  A verdict is earned (`VerdictIsEarned`):
VERIFIED is said only of a run whose every task was in that integration
(`VerifiedIsWhole`), FAILED only after a check that ran to its end
(`FailedIsKnown`).  Every job ends (`JobEnds`) and an accepted cancel is written
(`CancelTakes`).

What can go wrong around a job is a variable, `faults`, chosen at the start from
the constant `Surroundings`: a task that raises ("raise"), a crash of the server
("crash"), a sandbox that cuts an integration run short ("cut"), and the
`wait_for` of Python 3.11 ("python311").  Each property or
part of one names the one fault it cannot bear, if any, and is checked with all
the others present:

| Property | Holds unless |
|---|---|
| `PublishedIsTested`, `VerifiedIsWhole` | (always) |
| `EndStands`, `DoneIsLast` | python311: a dropped cancellation lets the coroutine write on |
| `EndAnnounced`, `JobEnds`, `CancelTakes` | crash: a red integration ends in two transactions; nothing resumes a job |
| `NothingOutlivesEnd` | raise: the gather leaves the other tasks running |
| `FailedIsKnown` | cut: a run without a verdict counts as red |

### SafetyNet

`SafetyNet` (`NetSpec`) is several jobs on one commit; `progress` says where the
coroutine of each is.  The `test_edge` rows (`edges`) belong
to the graph and are shared, and so is whether the graph is `built`; the baseline
`image`, the characterisation `artifact`, the `radius` taken at planning and what
a candidate is run with (`gate`) belong to a job.  What the repository's own tests
do to a symbol (`own`: import it, run it) and the name each job's target is
`asked` for by are chosen at the start.  A name is not a symbol: `find_target`
takes the full name, the end of it or the bare name (`Resolve`, `Target`), while
`characterisation_path` makes a file of whatever name it is given (`PathOf`).
`_characterise` gives it the full name of the symbol found,
`_characterisation_diff` the name that was asked for, and the model does the same.  `MapCovered`, `MapUncovered` and `MapDry` are the code from the end of
the baseline to the next await; `Write` and `Establish` are the characterisation,
its registration and the re-baselining; `Gate` is a candidate's test selection at
the moment it is run.  A generated test that is a method (`Methods`) is on the
image and gets no row, as in `_register_characterisation`.  Whether a suite passes,
collects and meets the mutation floor is a choice (`Establish` or `Refuse`).

Properties: a candidate is never run with a test its image lacks
(`GateRunsOnDisk`); a job in execution has a covered target, a generated test of
its own, or rows another job left on the same symbol (`NetOrBorrowed`); a pull
request carries its own job's tests and no other's, whole and in the file that ran
when the name asked for gives the file of the full name (`NetPublished`).  That a
net is published whatever the target was asked for by is not so
(`NetReachesPullRequest`, section 5).

### OrderedDelivery, EventStream

`EventStream` is the event table, the bounded queue of a subscriber, the
generator of `job_event_stream` (paged replay, then the live loop with its
duplicate check and its lag check) and the browser's EventSource with its last
id.  `OrderedDelivery` is: the client holds a prefix of the log, in order, each
event once.  It is implemented, and the terminal event arrives
(`TerminalReachesClient`), when the log fits a page or the queue (proved for every
size) and also when a replay of two pages runs beside a queue that overflows once
the replay is over (`stream_two_pages`).  Where the queue overflows during the
replay `stream_lost_end` shows the hole.

### SandboxRun

`SandboxRun` is `ContreeSandbox.run` with `MaxInflight` permits of a first-come
semaphore and `Attempts` tries: start the operation, poll it, back off and send it
again, stop it at the timeout or on cancellation.  An operation (`op`) belongs to
a call and a try and lives on the platform: it can be running although its start
was answered by an error, and it may end, be cut at its own timeout or be killed
whether or not anybody looks.  A call knows the operations it was told of (`known`)
and can stop only these.  What a script leaves on disk (a report of its own, the
report it inherited from its image, none) and how it exited are a result record;
`_parse`, `_inconclusive` and the verdicts of the three kinds of run read that
record, and are the definitions that decide `outcome`.

Properties: permits are neither lost nor invented (`PermitsBalance`); when a call
is over, no operation it was told of still runs, unless stopping it failed
(`KnownIsStopped`); a call that reports green has read a run that was whole and
passed (`OkIsGreenRun`); every call ends (`CallsEnd`).

### Snapshot, FakeSandbox, LocalPlatform

`Snapshot` is `ensure_snapshot` for one destination: the lock and its queue, the
marker file, `GitCalls` git processes per build, failures, cancellation (which
does not end the git process it waits for) and restarts of the server (which end
its git processes with it, as in a container, and empty the lock and its queue).  `exposed` is a history variable: a new tree was begun while a git
process of an older build was still running.  `FakeSandbox` is the local platform:
runs with the same parent and script share one directory, one execution and one
remembered result.  `LocalPlatform` composes the two: jobs take the snapshot, then
clone it in their baseline run, then run an attempt on the image of that.

Properties: a green baseline is of a whole tree, unless a tree was exposed
(`BaselineOfWholeTree`); one script runs in a directory at a time (`OneScript`); an
image is a fork of its parent and is never rewritten (`ImagesAreForks`); nobody
waits for a lock for ever (`NobodyWaitsForEver`).

### Analyses and its parts

The functions that decide about source text are modelled over abstract text: a
line, a name, a parameter list, a call.  What needs several steps (a diff placed
hunk by hunk and applied; the script of the audit, which writes, tests and
restores) has variables of its own; the others answer one question in one action.
A behaviour is one use of one analysis.

* `Patch`: from a reply to a patched file.  Hunks are canonicalised one after the
  other by content, nearest to the line they name, then without blank lines, then
  as insertions (`PlaceExactly`, `PlaceLoosely`, `PlaceInsertion`); the result goes
  through the scope and syntax gates, which apply it by its numbers.
  `AppliesAlike`: the numbers reproduce what was placed.  `PlacedExactly`: a hunk
  consumes exactly the lines it speaks of, whichever way it was placed.
* `Signatures`: `call_compat` and `signature_breaking`, against Python's binding of
  a call (`Accepts`), defined beside them.  `CompatIsBinding`,
  `NotBreakingBreaksNothing`.
* `Impact`: every finding of `analyse_impact`.  The gate knows a call by how it is
  spelled: it looks at the calls whose text is that of a call on the line of a known
  call site (`CallExprs`, `KnownCalls`).  `CallersFit`: what the gate lets through
  leaves no caller, among the files of the graph's call sites, with a call of the
  target that is spelled as before and that the new definition refuses.  A call the
  patch respells is not looked at (`EveryCallFits`, section 5).
* `Cleanup`: unused imports and orphaned private names over a tree, and the tasks
  made of them.  `NothingDangles`: after the removals nobody imports, reads or
  looks up what is gone.
* `Integration`: from a green integration run to the gates.  The sandbox applied
  the winning diffs one after the other; the host rebuilds each touched file from
  the same diffs (`Rebuilt`), once for each of the gates, and compares exports, test count,
  coverage and findings with the snapshot (`Gates`).  `PassedIsChecked`: where no
  diff was left out, what passed was judged on the very text that was tested.
* `Audit`: quotas, even sampling, the loop of the script with Python's compiled
  files, and the score.  `AuditIsSound`: the plan is fair and the score is that of
  the plan.
* `BlastRadius`: the breadth-first search with its depth and cap, against a
  reference definition by distances.  `RadiusIsReach`.

## 3. Runs

| Run | Instance | What it shows |
|---|---|---|
| `model_client` | 2 calls, 1 cache key, budget 4, 3 retries | overrun, reservations, abandoned usage, refinement of the budget, every call ends |
| `stream_two_pages` | 6 events, pages of 4, a queue of 2, 2 drops | ordered delivery through a replay of two pages, overflow, resync and reconnects; the terminal event arrives |
| `stream_lost_end` | 6 events, pages of 2, a queue of 3 | violation, section 5 |
| `task_run` | 3 candidates, 2 repairs, every fault | safety of the scheduler, the promise, every task ends |
| `job` | 3 tasks, 2 cancel handlers, 4 sets of faults | the end of a job, what is published and claimed, every job ends, cancels take |
| `waves` | every acyclic plan of 4 tasks in 2 files, 2 permits | patches, the schedule, the waves end |
| `safety_net` | 2 jobs, 3 symbols in 2 files, 4 names to ask for them by, 3 generated names of which one is a method, symmetry of the jobs | candidates run on what their image holds; nets are there and are the job's own |
| `sandbox` | 2 calls of 2 kinds, 1 permit, 2 tries | permits, operations stopped, green is green, calls end |
| `sandbox_cut` | the same | violation, section 5 |
| `local_baseline` | 3 jobs, 2 git calls, 1 restart | whole trees, one script per directory, images, no wait for ever |
| `analyses` | all small inputs of `MCAnalyses` | the analyses agree with what they predict |
| `analyses_mismatch` | the same | violation, section 5 |

The type invariants are in the modules (`TypeOK` and its like); they are not run
by themselves, and most of them are conjuncts of the inductive invariants of
section 6.

Why the bounds are enough.  Three candidates are the code's default fan-out, and
three is what it takes for a green, a red and a pending one at once; two repairs
let a repair follow a repair, and `max_repairs` is 2.  Two calls interleave in
every way two calls can, and a third adds to the ledger what the second adds.
Four tasks in two files give diamonds, chains across files and file conflicts
within a wave, and two permits make tasks wait.  A job of three tasks has room
for a discard or a cleanup task, a conflict dropped at integration and a
survivor.  Two handlers are what it takes for a cancel to race a cancel.  Two jobs on a
commit are one that writes rows and one that reads them, and either may be both;
a third adds another writer.  Two symbols in one file and one in the other let a
file have a covered symbol beside an uncovered target; of the four names three are
full names and one is the end of a name, which gives the test file of the symbol
in the other module.  The four sets of faults are the four that leave one fault
out, so every property meets, together, all the faults it is said to bear.  Six events over pages of four are a full page and a partial one,
and a queue of two overflows.  One permit makes a call wait for another, and two
tries are an operation that is sent again while the first may still run.  Three
jobs on one snapshot are a builder that fails or is cancelled, one that builds
again and one that waits.  The inputs of the analyses: files of up to four lines
over two texts and a blank, so that a block occurs twice and blanks differ;
parameter lists of up to two positional and a keyword-only name with calls of up
to three keywords; graphs of four symbols in four files,
with cycles; one definer and one user for the cleanup; up to two diffs of a Python
and a TypeScript file for the integration; up to three files of up to two ranges
for the audit; the proofs are for any size.  `MaxEvents`, `MaxDrops`, `MaxCrashes` and `Attempts` (four in
the code) are the only counters cut off: the waves are bounded by the tasks,
the ledger by the budget, the retries and the finite sets of estimates and usages.

Deadlock is not checked where the system may stop: a job that has ended, calls
that are all idle, waves that have ended, a stream that has been read, an analysis
that has answered.
`task_run` checks it.

## 4. Fairness

* Model calls: the SDK's request has a timeout and a backoff is a finite sleep, so
  each call's answer and resend are weakly fair.
* Tasks: every await of an attempt is a model call or a sandbox run inside
  `asyncio.wait_for`, so attempts and the steps of `run_task` are weakly fair.
  The cancel of a sandbox operation and the git subprocesses have no timeout in
  the code; they are assumed to answer.
* Jobs: the coroutine as a whole is weakly fair (some await of it ends), each task
  is, and each waiting cancel handler is.  Cancels and crashes are not fair: they
  may never happen.
* Sandbox runs: each coroutine is weakly fair and so is its timeout; the platform
  is not, an operation may run for ever, and it is the timeout that ends the call.
* Local platform: each job's way through the snapshot is weakly fair (git ends),
  and so is each run once it holds its lock (`communicate` is under a timeout and
  the script is killed after it).  Restarts and cancellations are not fair.
* Stream: the server keeps running its loop and the browser keeps reconnecting;
  drops are bounded by `MaxDrops`.

## 5. Disagreements found

Three are runs with the expected verdict "violation" and a finding in
`PROJECT.json` that quotes the line the code disagrees with.

* `stream_lost_end`: a queue that overflows with events the replay also delivers
  loses an event without a resync; it can be the terminal one.
* `sandbox_cut`: a run the platform's timeout ended (exit -1), or whose pytest was
  killed beside a report its image had inherited, is reported as a red suite.
* `analyses_mismatch`: the impact gate checks every call on the line of a known
  call site against the target's parameters, so a call of another function there
  can block the patch.

Others are stated in the modules as definitions whose comment begins with "Not so";
no run has them.  TLC refutes each on the instance of its component.

* `TaskRun!PlatformNeverBlamed` (`scheduler.py:226`): a task that never got an
  answer from the provider is discarded on its merits (`docs/SPEC.md:767`).
* `JobRun!FailedOnVerdict` (`job.py:632`): an integration run the platform killed
  is reported as FAILED (`runner.py:49-50`).
* `SafetyNet!TargetHasOracle` (`job.py:234`): a job that finds the rows of another
  job's generated tests skips its own characterisation and works on an image that
  holds none of them (`job.py:226`, `README.md:109`).
* `SafetyNet!NetIsSelected` (`gates/tests.py:25`): the tests generated for a target
  are not selected for its candidates when another symbol of the file has coverage,
  or imports (`job.py:305-306`, `schema.sql:98-99`).
* `SafetyNet!NetReachesPullRequest` (`job.py:1128`, `job.py:785-787`): the generated
  suite is registered under the file that the target's full name gives
  (`job.py:258`) and looked up under the file of the name that was asked for.  A
  target asked for by its bare name or the end of its name finds no row, and the
  pull request carries no net, though the function is there so that the merged one
  carries "the test that was the entire justification" (`job.py:1115-1124`); or it
  finds the row of a symbol whose file that is, and the suite is published as that
  file.
* `Analyses!EveryCallFits` (`impact.py:536-548`): a call of the target is checked
  when its text is one found on the lines of known call sites
  (`impact.py:427-431`).  A call that the patch spells another way (`m.target(x)` for
  `target(x)`, another receiver, an alias) is let through although the new
  definition refuses it (the premise of `CallersFit`).
* `Snapshot!OneWriter` (`baseline.py:142`): the git process of a cancelled build
  writes on in the directory of the next one (`baseline.py:57-59`).
* `Analyses!GatesReadTested` (`job.py:898`): two tasks on one file may both be
  written against the snapshot, in different waves.  git finds the hunks of the
  second where the first has moved them, the host's `apply_to_text` does not; the
  second diff is left out with a warning, the file counts as applied, and the
  gates pass a text the sandbox never tested, "exactly what the sandbox tested"
  notwithstanding (`job.py:991-992`).

The models contain these too, without a run of their own:

* The task timeout can discard a task that has a winner, while the losers are
  being cancelled (the exemption in `GreenNeverExhausted`).
* A task that raises aborts the job while its siblings go on (the fault "raise"
  of `NothingOutlivesEnd`).
* An HTTP error of GitHub aborts a verified job (`Abort` at "Pushing").
* `radius.tests` names generated tests of other jobs (`RadiusTests`).  The audit
  of strength runs the tests of the radius on its own job's image; pytest refuses
  a node the image lacks, every mutant then counts as incompetent and the audit
  reports that there was nothing to mutate.
* Two jobs that generate differently named tests for one target both leave their
  rows, though `characterisation_path` speaks of a rerun that overwrites
  (`Registered`, `Establish`).
* A generated suite of methods only has no row, so it is neither selected nor
  published (`HasRow` in `NetPublished`).
* On Python 3.11 a cancellation that meets the end of a sandbox run is dropped,
  and the job rewrites the row the cancel route wrote (`EndStands`).
* A crash between the two transactions of a red integration leaves a finished row
  without its terminal event (`EndAnnounced`, action `CrashBeforeEnd`).
* Nothing reads unfinished jobs at startup, though `docs/DESIGN.md:295-299`
  describes recovery as a database read (`JobEnds`, action `Restart`).
* A job cancelled while GitHub opens the pull request is NoPR with a pull request
  (actions `GitHub`, `Unwind`).
* `_audit_strength` looks its image up outside the audit's own `try`, so a sandbox
  error there aborts the job (`Abort` at "Auditing").
* A call of the model client that is cancelled after a blank reply refunds usage
  the provider has billed (`Cancel` of `ModelClient` ignores `abandoned`).
* A read of the response cache stands between the reservation and the `try` that
  refunds it (`client.py:130-146`).  An entry of the wrong shape would raise there
  and keep its reservation; the program writes no such entry and the model has none.
* A candidate that raises what nobody expects keeps its row without a verdict
  (`Raise` of `TaskRun`), and one that did not parse can be the seed of the
  repairs although another left a diff (`RaceLost`).
* `_patched_trees` takes its texts from a tree of Python files, so a touched
  TypeScript file is never applied and always blocks as uncheckable (`Unapplied`).
* The local sandbox remembers a timed-out run for ever under its (parent, script)
  and registers its image, remembers a launch that failed as exit 1, and goes on
  in the partial directory of a copy that failed (`FakeSandbox`).
* Two repositories of one name share the `_slug` of their snapshots; the model has
  one destination and does not show it.
* `signature_breaking` passes changes that break calls: a default that is removed,
  `*args` or `**kwargs` that is removed, a keyword-only parameter that becomes
  positional, a name under `**kwargs` that goes or becomes positional, a keyword
  that becomes positional-only (the conditions `Relaxed` and `posonly = 0` of
  `NotBreakingBreaksNothing`).  `call_compat` is wrong about positional-only
  parameters beside `**kwargs` (`Decided`).
* `orphaned_symbols` does not see a name imported under another, a re-export
  nobody reads without an `__all__`, a name in a string of its own file, or an
  `__all__` it cannot read (the condition `Plain` of `NothingDangles`).
* A hunk `@@ -0,0` into a file that exists is read as a new file, so gate 2 parses
  the added lines alone (`Added`).

## 6. Proofs

Checked by TLAPS for every value of the constants, under the assumptions
declared in the modules and evaluated by TLC on the runs: finite sets of calls
and tasks, natural bounds, lists that are lists.  Every safety property a passing
run checks is also a theorem, `DeliverySpec` for the jobs said below.

* `ModelClientProofs`, the ledger: type correctness, the overrun bound, nothing
  admitted over budget.  The invariant bounds `spent` by the budget plus what the
  calls in flight can be billed beyond their estimates; a sum over a finite set is
  handled through the library's facts on sums.  The client: `CallStates` is the
  strengthening that makes the retry bound inductive, for where a call waits tells
  how often it has asked and how much abandoned usage it can carry.  From it:
  reservations match calls, retries are bounded, no call is charged more than
  `MaxActual`, the client implements the budget, and a call that gives up or is
  answered has charged the blank replies it got on the way
  (`AbandonedUsageRecorded`).
* `EventStreamProofs`: the stream implements `OrderedDelivery` for every job whose
  log fits in a page or in the queue, for every page size, queue size and number
  of drops.  The invariant says what the queue holds: a contiguous stretch of the
  log that ends at its last event unless the subscriber has lagged, and begins no
  later than the event after the last one replayed.
* `WaveRunnerProofs`: `order_waves` never gets stuck, patches are complete, nothing
  is forgotten, and the waves implement `TaskSchedule`.  The invariant has three
  parts: `OrderInv` (dependencies lie in earlier waves, a wave has a file once),
  `RunInv` (earlier waves have settled, later ones have not begun) and `PatchInv`
  (a patch is what `_dependency_patch` would return now).  The key lemma,
  `UpstreamEarlier`, is that the transitive dependencies of a task lie in
  strictly earlier waves; it instantiates the closure with the tasks of the
  earlier waves.  The closure is therefore written as "in every set that holds
  the dependencies and is closed", not as recursion.
* `JobProofs`, one job: `PublishedIsTested`, `VerdictIsEarned`, `EndIsFinal`, for any
  tasks, handlers and surroundings.  None of them is inductive, for they speak of
  the end and the danger is earlier.  `RowsFit` says which tasks are open where the
  coroutine stands and which the gather still holds; without it a straggler could
  turn verified after integration.  `TestedFirst` says that past the integration
  run the diffs applied are those called verified and every check has passed.
  `EndedByItself` says that a row the coroutine ended is of a coroutine that is
  over.  `CancelHolds` is the heart of `EndStands`: as soon as the row is terminal,
  or a handler waits to make it so, the coroutine is over or the next thing it
  hears is the cancellation.  The `wait_for` of Python 3.11 breaks exactly this part,
  so it and what follows from it assume that fault away; the other parts do not.
  `OneEnd` ties the log to the row.
* `JobProofs`, the jobs of one commit: types, `GateRunsOnDisk`, `NetOrBorrowed` and
  `NetPublished`.  The strengthening says where rows come from: `RowsAreReal` (a row
  of another source names a test of the repository), `RowsHaveOrigin` (a row of a
  generated test is about the target of a job whose artifact holds the test),
  `NetIsOwn` (what a job holds is in the file that the full name of its target
  gives, image and artifact agree, and its functions have rows) and `NothingYet` (a job that has not established its
  net holds nothing and has run nothing).
* `TaskRunProofs`: for any fan-out and any number of repairs, `NothingLeftBehind`,
  `GreenNeverExhausted`, `SeedIsPair` and the refinement of `TaskPromise`.  The
  strengthening: where the coroutine of an attempt stands fixes what its row may
  say (`AttemptInv`); where `run_task` stands fixes which attempts may still run
  (`StageInv`); what `_first_green` has collected has ended (`RaceInv`); once the
  repairs have begun, no attempt is green but the last (`GreenInv`).
* `SandboxRunProofs`: `PermitsBalance`, `KnownIsStopped`, `OkIsGreenRun`, for any
  number of calls, tries and permits.  `OpInv` says that the tries of a call come in
  order, that the operations it knows were answered and that all but the current
  one are over or could not be stopped; the permits are counted through the
  cardinality of the calls that hold one.
* `LocalPlatformProofs`: `BaselineOfWholeTree`, `OneScript` and `ImagesAreForks`, for
  any number of jobs, git calls and restarts.  The lock of a directory, the active
  call and the running script are one (`LockHolds`, `ActiveHolds`); a used
  directory without a lock has a remembered result (`UsedIsKnown`); a job's runs
  are tied to how far it is with its snapshot (`JobInv`).
* `AnalysesProofs`, for inputs of any size (`AnalysesAssumption`,
  `PatchAssumption`, `IsGraph`: what the code builds as a list is a list, the kinds
  of line are the three that diffs.py:209 keeps, the edges and the target of a code
  graph name its symbols, numbers are natural, and Python is among the languages
  whose exports are extracted):
  * `CompatIsBinding`, `NotBreakingBreaksNothing`: both definitions are brought to
    one normal form, what a call must bind parameter by parameter (`Takes`).
  * `CallersFit`: what does not block has no call, among those the gate looks at,
    that the check refused, and by `CompatIsBinding` none that Python refuses; that
    a call spelled as before is among them follows from `CallExprs`
    (`KnownCallsFit`).
  * `NothingDangles`: what the plan removes is not named (`UnusedIsUnnamed`), and
    what is kept still offers what it offered (`OffersLeft`).  `PassedIsChecked`: by
    the gates, one by one.
  * `RadiusIsReach`: the rounds of the search cover, one after the other, what is
    within so many steps (`Covers`), by induction on the rounds (`FollowCovers`);
    distances are functions on the naturals (`IsWithin`), not recursion.
  * `AppliesAlike`: while a reply is placed, and provided its numbers apply,
    the text and the place reached are those the numbers give so far (`Agrees`).
    The key lemma, `FoundByNumber`, is that the line a hunk names is then among the
    places it fits and nearer than any other.
  * `PlacedExactly`: the invariant `Booked` says that the source is used up from its
    start.  Of a hunk placed over blank lines, `Matched` says after each of its
    lines that the stretch scanned has the code of the old lines so far, that what
    is to be written has the code of the new ones, and that the numbers of
    lines balance; each kind of line keeps it (`MatchAdds`, `MatchPasses`,
    `MatchFinds`), so a scan that succeeds has matched the whole hunk (`Scanned`).
    The code of a text (`Code`) is shown to commute with joining (`CodeJoins`).
  * `AuditIsSound`: the plan keeps to the cap, repeats no fault and leaves no file
    out when there is room (`FairPlan`, from the quotas and the even sampling), and
    the loop has tried the faults before `turn`, with at most one fault in the
    tree and no stale compiled file of the file under test (`AuditInv`).

Folds and induction.  The library's induction theorems take an operator, which the
provers here cannot instantiate.  Induction is therefore used on sets of numbers:
`Least`, that a set of naturals has a least element, comes from the library's
well-foundedness of the order, and `Induction` from it.  A fold of the community
modules is a CHOOSE of a function on the subsets of the domain; `FoldExists` shows
that there is one, and `FoldChain` that it is a chain, the value before and after
each element, which is what the lemmas on `TextsOf`, `ByNumbers`, `Scan`, `Code`,
`FlattenSeq` and the sampling speak of.

What the proofs changed.  A CASE whose guards overlapped (`Leave` of `JobRun`) has one
value for TLC and several for the provers; it is an IF now.  A
reply whose lines are of a fourth kind would be neither old nor new, so the kinds
are now an assumption.

Only model-checked: liveness (`CallsEnd`, `TaskEnds`, `JobEnds`, `CancelTakes`,
`WavesEnd`, `NobodyWaitsForEver`, `TerminalReachesClient`), since TLAPS has neither
ENABLED nor fairness; `DeliverySpec` where a replay has more than a page while the
queue overflows afterwards, for there it holds by the numbers of the instance; and
the negative results.

## 7. Not modelled

Source text: parsing, name resolution and embedding in the code graph, prompts and
the parsing of answers, the rules that find a security flaw in a text, the report
and the pull-request body.  They are functions of text without state; what the
system does with their results is in `Analyses`, `TaskRun` and `JobRun`, where a
finding is a fingerprint and a call a record.  In `Impact` the informational
findings on unchanged call sites and the wording are left out; in `Integration`
the relocated symbols, which no gate reads, and the ungated arm of the benchmark.

I/O: the provider's wire formats, git, the remote platform (external, modelled from
how the client uses it), SQL and the connection lock, HTTP routes that only read,
the command line, the MCP server, the benchmark.  Grounding
(`grounding/tavily.py`) is a search client whose results only go into prompts.  The
dashboard is modelled up to its reconnects, not its fold of events into a view.
`PROJECT.json` lists every part with its status.

## 8. What could follow

1. *Grounding*: the cap and the query cache under concurrent searches.
2. *Dashboard*: the fold of events into the view, under replay and reconnects.
3. A refinement between `JobRun` and `WaveRunner`, whose waves the job sees as one
   gather.
