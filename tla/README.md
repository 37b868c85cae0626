# TLA+ model of the Test Optimization payload uploader

`rules_test_optimization` lets Bazel tests write test, coverage and telemetry
payloads into their `test.outputs` directories, and uploads them afterwards in
one `bazel run` of the uploader. The uploader (`tools/core/uploader_py`) is the
part of the repository with state, threads, retries, deletion of user data and
other processes to agree with, so it is what this project models. Paths below
are relative to `tools/core/uploader_py` unless they say otherwise.

1. [The system](#the-system): inventory of components, state, interaction
2. [Modules](#modules): what each module models and how it maps to the code
3. [Runs](#runs): what TLC checks, bounds, fairness
4. [Proofs](#proofs): what TLAPS proves and along which argument
5. [Disagreements found](#disagreements-found)
6. [Not modelled](#not-modelled) and [plan](#plan)

## The system

### Components

| Component | State | Operations | What makes it correct |
|---|---|---|---|
| `application.py`, `main.py` | the report, its exit code and reason | `run_uploader`: lock, expected targets, resources, freshness, discovery, pool, postflight checks, staging cleanup, report | an earlier failure is never masked by a later stage; the lock is held while files are touched; staging directories do not outlive the run |
| `locking.py` | lock directory with a pid file, guard file; on Windows a locked byte | `acquire`, `release` | one uploader per workspace; crashed owners are replaced; live owners are not |
| `coordinator.py` | temporary root | `run_discovered_tasks`: worker inputs, pool, aggregate report, exit code 0, 1 or 130 | the exit code says what happened to every file |
| `worker_pool.py` | bounded task queue, result queue, shutdown event, activity counters, threads | `run_file_workers`, `worker_loop`, `stop_started_workers`, `_collect_run` | every file is run at most once and reported; the call ends; nothing runs after it |
| `file_worker.py` | one payload file, task directory | `process_file`: enrich, validate, split, post, persist failed chunks or delete | no event is lost; nothing accepted is replayed without cause; SUCCEEDED means delivered |
| `splitting.py` | loop variables, chunk files | `prepare_test_chunks` | chunks within the limit, in order, complete |
| `transport.py` | attempt count, delays | `HttpTransport._post` | bounded attempts and waits; only what may be retried is |
| `telemetry.py` | plan, request body, retry marker | `build_telemetry_plan`, augmentation of telemetry files | nothing the tracer wrote is lost; facts stay with the file they were placed on; nothing is sent more often than it was attached or had to stay |
| `freshness.py` | plan of authorised outputs | BEP and execution-log parsing, plan, filter, postflight accounting | only outputs of this build are uploaded; a fresh output without payloads is noticed |
| `discovery.py`, `expected_targets.py` | list of tasks | scan, quiescence wait, target matching | no half-written file is deleted |
| `resources.py`, `enrichment.py`, `codeowners.py` | contexts and rules of one invocation, tags of retained files | loading, selection per payload, merge, ownership | an event gets the tags of its own repository and the owners the rules mean |
| `reporting.py` | none that survives a call | aggregation of results, the public document | every file is accounted for |
| `config.py`, `credentials.py`, `endpoints.py`, `temporary.py`, `logging_utils.py` | none that survives a call | parsing, redaction, scoped directories | per-input functions |
| `../test_optimization_doctor.py` | staging run directories | BEP parsing, artifact staging with owner markers, cleanup | ambiguous BEPs are refused; a run removes its own directories only |
| `../uploader_bash_runtime.sh.tpl`, PowerShell twin | the same lock directory | the older uploader, still in use during the rollout | shares the lock |
| `../test_optimization_sync*.bzl` | files of the generated repository | HTTP requests with retries, feature gating | a failed fetch does not look like an empty answer |
| language modules, bootstraps, wrappers, CI scripts, examples | none | code generation and Bazel analysis | - |

### How they interact

`application` takes the workspace lock, prepares freshness (which may stage
remote artifacts through the doctor), waits for discovery to settle, filters
the tasks and hands them to `coordinator`. The coordinator loads rules and
telemetry plan, creates the temporary root and calls the worker pool. Each
worker thread owns one HTTP transport and runs `process_file` on one task at a
time; the only shared state between workers is the queues, the event and the
counters. Results come back in a queue, are put in intake order, and become the
report and the exit code. The source files, the staging directories and the
lock are on disk: they are what a crash leaves, and what other invocations see.

### What is hard here

* **Threads.** The main thread receives `KeyboardInterrupt` at any bytecode, in
  particular between `thread.start()` and the registration of the thread, while
  it is blocked in `put` or `join`, and inside the exception handler.
  The drain of the handler competes with the workers for queue items.
* **Processes.** Several uploaders reclaim the lock of a dead one; a legacy
  uploader does so without the guard. Between `mkdir` and the pid write the
  owner is unknown. On Windows the file is unlinked after it is unlocked.
* **Delivery.** An accepted request whose answer is lost; a crash between an
  accepted chunk and the replacement of the source; a source that cannot be
  deleted or replaced; partial success over several runs with different
  divisions into chunks, different contexts and different rules.
* **Writers.** Tests may still write, rewrite or remove payloads while the
  uploader waits, reads and deletes; the wait reads the wall clock.
* **Freshness.** Local directories, staged artifacts, BEP files and the execution
  log name the same output keys and contradict each other.
* **Arithmetic.** The splitter adds up body sizes instead of measuring them.
* **Order of stages.** The exit code and reason of a run are rewritten by five
  later stages, and Ctrl-C may come in each.

`PROJECT.json` lists each hazard at its line, with the properties that watch it.

## Modules

| Module | Models | Used by |
|---|---|---|
| `WorkerPool` | `worker_pool.py`, and its mapping to `UploadPool` | `WorkerPoolProofs` |
| `UploadPool` | the contract of `run_file_workers`, without threads | `Invocation` follows it |
| `WorkspaceLock` | `locking.py` on Unix, and the lock of the Bash uploader | `LockProofs` |
| `PlatformLock` | `locking.py` on either platform: adds Windows | `LockProofs` |
| `Chunking` | the contract between the splitter and its caller | `Splitting`, `FileUpload` |
| `Splitting` | `splitting.py`; its result meets `Chunking` | `SplittingProofs` |
| `FileUpload` | `_process_test`, `_post`, one file over several invocations | `FileUploadProofs` |
| `Telemetry` | `telemetry.py`, `_process_telemetry`, outcomes of `_process_coverage` | `TelemetryProofs` |
| `Discovery` | `wait_for_quiescence`, then reading and deleting, against writers | `DiscoveryProofs` |
| `CodeOwners` | `codeowners.py` | `Enrichment` |
| `Enrichment` | `resources.py`, `enrichment.py` over several invocations | `EnrichmentProofs` |
| `ExpectedTargets` | `expected_targets.py` | `Freshness` |
| `Freshness` | `freshness.py` and what it uses of the doctor | `Invocation` |
| `Reporting` | `reporting.py` | `Invocation` |
| `Invocation` | `application.py`, `coordinator.py`, `main.py` | `InvocationProofs` |
| `MC...` | instances and symmetry for TLC | |

### WorkerPool

`cpc` is the point in `run_file_workers` where the main thread is, `wpc[w]` the
point in `worker_loop` of each thread. `taskQueue` and `unfinished` are the two
halves of `queue.Queue`: its items, and the counter that `join` waits for.
`active` and `peak` are the activity counters, `shutdown` the event. `starts`
and `results` are the ledger: how often a file's pipeline was entered, and how
often its result was queued; they stand for the result queue, whose order does
not matter because `_collect_run` sorts it again.

One action is one step that another thread can see: `thread.start()`, the
append to `started_threads`, each `put`, each of the two halves of a timed-out
`get` (`GetTimesOut`, then `CheckShutdown` reads the event), the acquisition,
the check of the event, the entry into the pipeline, its result, and
`task_done`. `process_file` is one step between `BeginFile` and `EndFile`; an
exception in it also ends in a result, as at lines 146-156.
`Interrupt` is a `KeyboardInterrupt` inside the `try`, `EscapingInterrupt` one
at any point where no `except` catches it. `StartFails` and
`TransportFactoryFails` are the two ways to fail without an interrupt.

### WorkspaceLock and PlatformLock

The directory (`lockDir`), its `pid` file (`pidFile`), the file objects opened
on it (`handles`, so that a pid written into an unlinked file is lost), the
`flock` (`guard`), and per process the program counter, the attempt, the
`last_detail` of the refusal and the reason of a removal. Every file system
call that two processes can interleave is an action: `Mkdir`, `CreatePid`,
`WritePid`, `Unlink`, `Rmdir`, and the inspection. A Bash uploader goes through
the same actions without the guard, truncates an existing pid file
(`CreatePid`), and releases without reading the pid (`BeginRelease`). Its
`rm -rf` is the same two steps, unlink and rmdir. `Age` abstracts the 30-second
clock: an unchanged directory may become old at any time, or, with `Prompt`,
only while nobody is between two file system calls. `PidReused` makes the pid of
a dead owner look alive. `Crash` is possible anywhere.

Python's I/O fails where the code handles it, and where it does not: the guard
when it is taken (`BeginFails`) and when it is taken again for the release
(`GuardFails`), `mkdir`, the pid file when it is made, written or read back by
its owner (`PidUnread`), and the removal at any point of it (`RemovalFails`: a
foreign file in the directory or an `OSError`, for which
`_remove_unix_lock_if_simple` returns False). Every caller ignores that result.
A reclaimer tries again until its attempts are used up, and is then refused with
"stale lock could not be removed"; an undo or a release ends with the directory
still there, which the model calls "abandoned", since its pid is dead as soon as
the process ends, as after a crash. One failure is left out: a contender's read
of the pid file. A lock whose pid cannot be read is incomplete, and dead once it
is 30 seconds old (`locking.py:180-182`), even if its owner still works.

`PlatformLock` chooses the platform at the start. On Windows the path names a
file with an identity (`linked`), each process has a file open (`opened`) and
may hold its byte (`locking`). Opening, locking, unlocking, closing and
unlinking are steps of their own; a lock that fails closes the file and tries
again. Of Windows it assumes that a file somebody has open through Python
cannot be unlinked, and that closing, also by a crash, drops the byte locks.

### Splitting and Chunking

`Splitting` walks through `prepare_test_chunks` one event at a time with the
code's own variables (`chunkStart`, `chunkSize`, `ranges`). The payload is the
envelope's length and `offset`, the running length of the serialized events:
event `i` is `offset[i+1] - offset[i]` bytes. This keeps the arithmetic of the
code and needs no sum. `Body` is what the code measures again before it writes,
so `AssertionNeverFires` compares the two. `Chunking!Splits` says what a
division is, as a function from an event to the first event of its chunk;
`MeetsContract` shows that the splitter returns one, and `FileUpload` takes any
of them, so its results do not depend on the greedy choice.

### FileUpload

`source` is the set of events in the file on disk, `stamp` the invocation whose
runtime-id the file carries, `intake` how often the intake accepted each event
and `identities` the runtime-ids it saw; everything else belongs to the running
invocation and is meaningless after it ends or crashes. A request is accepted,
accepted with the answer lost, refused for now (which uses an attempt), refused
for good, or raises out of the loop (`PostRaises`: an `OSError` or
`HttpTransportError` that the transport does not catch, handled at
`file_worker.py:213-222`). After the last chunk exactly one of `DeleteSource`,
`DeleteFails`, `KeepSource`, `PersistFailed`, `PersistFails` happens. `Crash` is
possible between any two steps; `DeleteFails` includes both tries of
`_cleanup_source`, and `PersistFails` both tries of `_atomic_replace_source`,
which is atomic because it renames.

### Telemetry

`disk` maps a path to the content of its file: whether it is marked as a
retained request, and the items its body holds: `<<0, path>>` for what the
tracer wrote and `<<version, facts>>` for a facts file of one synchronisation,
whichever file it is sent with. So the same facts sent with another file, also
by a later invocation, count as sent twice. `Directive` is the plan: groups by service and
language, facts files that agree on the environment, and the anchor that gets
the facts. `Begin` builds it from the files present.

`Send` is a request with its outcome, `AnswerLost` an accepted attempt whose
answer is lost, and `PostRaises` an `OSError` or `HttpTransportError` that leaves
the loop (`file_worker.py:815-839`) to the handler at 213-222, which keeps the
whole source, also after the first of two requests was accepted.
`RetainTelemetry` and `RetainCoverage` are what stays on disk after a failure;
`Crash`, a failing write and `Renew` come between.

The ledger: `attached` counts how often an item was given to a file, by the
tracer or by a plan, `again` how often the file had to stay after an acceptance,
`delivered` the acceptances. Facts files are not consumed, so every invocation
that finds telemetry attaches them again. Assumed: a facts file decodes, and the
application of a telemetry file is an object.

### Discovery

Real time `t` and the skew of the wall clock are separate variables, since the
wait subtracts wall-clock times from modification times. Tests open (truncate),
complete and remove their files at any time. The wait is its scan, the reading
of the clock, the decision and the sleep; the workers read, send, then delete or
retain without looking again. `paused` records tests that were quiet for as long
as the wait takes for the end, which is what nobody can tell from finished.

### CodeOwners and Enrichment

`CodeOwners` is the path of a source to its owners: normalisation, candidates
relative to the repository in their order (`Candidates` has one of seven places
for each, empty where the code adds none), globs as the regular expressions
they are compiled to (by segments), malformed rules skipped, the last matching
rule, the first matching candidate. `Covers`, a definition by laying a glob over segments, is the
reference. `Enrichment` has one payload file over invocations that are given
different contexts (override, command line, bundled manifest), sidecars and
rules. The worker's `copy` is enriched; `disk` gets that copy only when failed
chunks replace the file. Values are their origin, so the properties can ask
where each tag of an accepted event comes from.

### ExpectedTargets, Freshness, Reporting and Invocation

`Invocation` is the main thread of one invocation: `pc` runs through
`_run_uploader_with_lock` and each early return and handler is an action of its
own. A task is an output key and a payload file, and an output has any number
of files. A Ctrl-C may come at any step, from taking the lock to giving it back
after the report was printed; it is handled by the innermost `except`, `finally`
or `main`. `lock` is "left" when the directory may stay: after a Ctrl-C while the
lock is taken or released, and after a release or an undo that failed
unnoticed. `escaped` is the exit code of an error that leaves `run_uploader`
without a report: Ctrl-C, and `Unhandled`, the errors that are none of the
controlled ones (a BEP that is not UTF-8, a staging directory that cannot be
made, a refused removal in the handler of a planning failure, a report that
cannot be printed). What the report counts (`LegacyContext`) is counted as in
the code, outputs as outputs and files as files. Left out are names: the reason
of a failed preflight is guessed from the words of the message, and a label or
path that holds such a word can mislead it. `Freshness` are the operators it uses: what the
doctor gets from the BEP, which artifacts can be staged, the plan, the admission
filter and the postflight accounting; `ExpectedTargets` loads the expected
labels and assigns outputs to them; `Reporting` is the aggregate and the
document. Workers own and finish files one step each, as the contract
`UploadPool` allows; a file ends `succeeded`, `partial`, `failed` or `skipped`,
which `FileUpload` and `Telemetry` refine. `stagingDir`, `undeleted` and
`prepared` are the staging directory, a failed removal of it, and whether the
`finally` clause knows it.

## Runs

Each passing run has one mutant per property in `PROJECT.json`: a plausible bug
in one mapped definition that the property must catch. The mutants stand next
to the definitions they replace and are used by nothing else.

| Run | Bounds | Shows |
|---|---|---|
| `pool` | 2 workers, 4 tasks, queue of 4, 1 fault (26,575 states) | files run at most once, counters are exact, interrupts are reported exactly, nothing is owned when the call ends, the call and the threads end, `UploadPool!Spec` with its liveness is implemented. Two workers are the least that can compete; four tasks and two stop markers fill the queue, so `put` blocks |
| `lock_python` | 3 Pythons on Unix or Windows, 3 attempts, 1 reused pid, any stall, every failing operation, symmetry (69,353) | exclusion; a reclaimer with an attempt left races with nobody, and what it removed is free; a lock without a live process has a crash or a failed operation behind it; no live lock is taken. Three processes: a dead owner and two that reclaim |
| `lock_mixed` | 2 Pythons, 1 Bash, 2 attempts, 1 reused pid, every failing operation (232,366) | exclusion unless an owner died or could not give its lock back; everyone decides |
| `lock_rollout` | 2 Pythons, 1 Bash, 3 attempts | **violation** of `MutualExclusion` |
| `file_delivery` | 3 events, 2 attempts, 3 invocations in all modes, 2 disturbances (308,339) | no event lost, duplicates explained, success is delivery, one runtime-id, only failed chunks kept, pipelines end. Three events have four divisions; three invocations allow a partial success, another one, and a clean end |
| `file_pipeline_error` | 3 events, 2 attempts, 2 invocations, 1 disturbance | **violation** of `AcceptedNotRetained` |
| `split_bounds` | every payload of up to 4 events and 9 bytes, envelopes up to 9, limit 8 | the greedy result is a division, within the limit, with the fewest chunks; refusals are justified. The limit is inside the range of every quantity, so each comparison is met from both sides and at equality |
| `invocation` | 2 targets whose outputs can be taken for each other's, outputs of up to 2 payload files, BEPs of up to 2 of 12 events, 29 configurations, 2 Ctrl-C at any step, failing directories and removals (1,029,540) | only authorised outputs are entered, under the lock; exit code, reason and document are honest; what keeps a staging directory alive; the invocation ends |
| `stale_local_copy` | the same BEPs with the execution log as source | **violation** of `StagedCopyWins` |
| `discovery` | a parsed and a raw file, 2 openings, 2 ticks of slow scans, 1 clock step, 3 settings (1,644,550) | the wait ends in its budget; nothing a test wrote last is deleted unsent, except where the wait could not tell |
| `telemetry` | 4 files of 2 languages, 3 facts files, 2 synchronisations, 2 invocations, up to 3 of the files, 1 fault and any number of exceptions (611,161) | nothing is lost, facts stay with the file they were placed on, nothing is sent more often than it was attached or had to stay. Two invocations show what is retained and sent again; three files give an anchor, another file of its group, and one outside of it |
| `enrichment` | 2 repositories, 10 choices of contexts, 5 of CODEOWNERS, 8 sources, 2 invocations (124,070) | contexts of the own repository, every tag and owner explained |

The configurations of `invocation` are the recommended CI one, local use, the
execution log, and each of these changed in one respect, those that are refused
included; BEP events include executed, cached, skipped and remote outputs with
and without a key. Two events are enough for every conflict the parser knows.
`lock_rollout` uses fewer than three Pythons because two and a Bash uploader
already disagree.

**Fairness.** `WorkerPool!FairSpec` has weak fairness of the coordinator and of
each worker: threads are scheduled, and `process_file` returns because attempts,
timeouts and waits are bounded in `transport.py`. No fault is ever due.
`WorkspaceLock!FairSpec` has weak fairness per process; `flock` blocks, so a
process can be overtaken, but each of the others starts once and leaves the
guard in a bounded number of steps. `FileUpload!FairSpec` makes a started
pipeline go on; nobody has to start another invocation. `Invocation!FairSpec`
is weak fairness of the main thread and of each worker, with no due Ctrl-C;
`Discovery!FairSpec` that of the waiting thread and of time, with no due write.
Safety properties never use fairness. In every module the only stuttering end
is `Finished`, so deadlock is checked in all runs.

**Bounds that are part of a model.** `MaxFaults`, `MaxReuse`, `MaxInvocations`,
`MaxDisturbances`, `MaxEvents`, `MaxBytes`, `MaxEnvelope`, `MaxInterrupts`,
`MaxWrites`, `MaxSlow`, `MaxSteps`, `MaxRuns`, `MaxFiles`, `MaxVersion` cap what TLC
enumerates; the theorems hold for every value of them, except that
`QuietExitUnderOneFault` and `PoolKeepsContract` assume `MaxFaults <= 1`, as
they must.

## Proofs

All proofs are checked by TLAPS with the SMT, Zenon and PTL backends; none
depends on more than the named assumptions about the constants, which TLC
evaluates in every run. Each safety invariant and safety action property of the
passing runs is a theorem about the specification the run checks, under the
assumptions named below. Every inductive invariant was model-checked on the
run's instance before it was proved.

* **WorkerPool** (`PoolInvariant` and its corollaries). The safety properties
  are not inductive: that no file runs twice needs to know that no task is in
  two places at once (`OnePlace`), what a worker holds at each point
  (`HoldsItem`), how far it has got (`LedgerExact`), and that nothing that was
  put disappears before the shutdown event (`NoTaskLost`). `CoordinatorKnows`
  records what each join established; with `UnfinishedExact` it turns
  `unfinished = 0` into "no item is queued or held", which is what both the
  normal and the interrupted return rely on. `ActivityStep` adds that
  `active_workers` is the number of files in a pipeline. Proved for any number
  of workers, tasks and faults: `AtMostOnce`, `ResultsConsistent`,
  `CountersExact`, `InterruptReportExact`, `TypeOK`; and `QuietExit` for at
  most one fault.
* **The pool implements its contract** (`PoolKeepsContract`). `FileState` and
  `Outcome` map the ledger of the threads to the state of `UploadPool`. The
  entry into a pipeline maps to `Own`, its result to `Report`, the steps of the
  coordinator that leave the function to `Complete` or `Raise`, and every other
  step to a stutter; `PoolInv` is what makes the guards of the abstract steps true, in
  particular that nothing is under way when the call returns. The fairness of
  `UploadPool!Spec` is left to run `pool`.
* **Locks** (`LockInvariant`, assuming that there is no Bash uploader).
  The guard's holder is the only process between inspection and removal or
  between `mkdir` and the written pid (`GuardExact`); a critical process has
  its pid on disk, and a process that removes knows that nobody is critical
  (`OwnerOnDisk`). A removal may fail at any point of it, so after it the
  directory is gone only where it did not (`Reclaimed`); but nobody else can be
  at work on it, because the reclaimer never leaves the guard in between. For
  `NoLeakedLock`, each directory on disk has a process that answers for it, and
  one that crashed or failed to remove it does so for ever (`Traced`). So
  `MutualExclusion`, `ReclaimEffective`, `NoLeakedLock` and the action property
  `LiveLockKept` hold for any number of invocations, attempts, crashes, stalls,
  failing operations and reused pids.
* **The rollout** (`RolloutIsExclusive`, assuming `Prompt`: no process stalls
  for 30 seconds between two file system calls). With Bash uploaders the guard
  says nothing. `OneHolder` says, as long as nobody died or gave up
  its release (`HolderOwns`), that one process at most got past `mkdir` and has
  not given the lock up, and that what is on disk is its own lock, which nobody
  may take for dead; hence `RolloutExclusion` for any number of either kind. The
  premise that no owner died or gave up is part of the property, and run
  `lock_rollout` shows that it is needed.
* **PlatformLock** (`WindowsInv`). A process that has the file open and is about
  to lock it, works or unlocks it has the linked file, because an open file
  cannot be unlinked; so two processes at work would hold one byte. On Unix
  every step is one of `WorkspaceLock`, so what is proved of its steps carries
  over; the steps of Windows make no lock directory (`WindowsLeavesFiles`). Hence
  `PlatformExclusion`, `PlatformReclaimEffective`, `PlatformLeavesNoLock` and
  `PlatformLiveLockKept`.
* **Splitting** (`SplitInvariant`). `ScanKnows`: the running `chunkSize` is the
  size of the open chunk's body. `RangesTile`: the ranges so far are ordered,
  cover everything before the open chunk and are within the limit. From these:
  the assertion is unreachable, the result meets `Chunking`, and refusals are
  justified, for every limit and payload. The contract that `FileUpload`
  assumes is therefore a theorem about the code that provides it.
  `GreedyIsFewest` adds `RangesGreedy`, that a chunk was closed only because the
  next event did not fit: so the first events of two greedy chunks cannot share
  a chunk of any division within the limit, and mapping one to the other is an
  injection.
* **FileUpload** (`UploadInvariant`). A chunk that is neither to be sent nor
  failed was accepted (`Running`), what is still in the file was accepted
  no more often than faults and keep-payloads runs explain (`WithinBlame`), and
  the file carries the runtime-id the intake knows (`Stamped`). From these:
  `NoEventLost`, `SuccessMeansDelivered`, `DuplicatesExplained`, `OneIdentity`
  and the action property `RetainsExactlyFailed`, for every file, division,
  number of attempts, invocations and disturbances.
* **Telemetry** (`TelemetryInvariant`). `Accounted` adds to the acceptances of an
  item those that may still come, one for each file that holds or was given it
  and has not had it accepted in this invocation (`Awaiting`); the sum is bounded by how
  often the item was attached and how often a file had to stay with it, which
  every step keeps, also an exception between two requests and a lost answer.
  `PlacedKnown` says where facts are that were placed on a file: accepted with
  it, retained in it, still to be sent after its own content, or the file had to
  stay; `ContentKept` that what the tracer wrote was accepted or is in its own
  file. From these: nothing the tracer wrote is lost (`TelemetryIsKept`), facts
  stay with the file they were placed on (`FactsAreKept`), and nothing is sent
  more often than it was attached or had to stay (`TelemetrySentOnce`), for every
  set of files, number of synchronisations, invocations and faults.
* **Discovery** (`DiscoveryInvariant`). `SleepsInBudget` bounds the sleep by
  what is left of the budget, `TimesAgree` ties the modification times to when
  the tests last wrote, and `FinishedAtWork` says that what the wait hands over
  is finished or was not distinguishable from it. The maximum that the wait
  computes exists because a set of integers with an upper bound has a greatest
  element (`MaxOfBounded`). Hence `WaitIsBounded` and `NothingIsOverrun`.
* **Enrichment** (`EnrichmentInvariant`). `TagsInv` says that file, copy and
  accepted events are what the test wrote after a known set of invocations:
  those whose copy the file got, and for the copy and what was sent the current
  one too. `MetaGrows`, `MetricsGrow` and `EnvGrows` say what one more
  invocation makes of that set; the last writer of a key, or the first one of
  the environment, is its greatest or least element. Hence `TagsAreExplained`,
  and with `SelectSound`, what `ContextPlan.select` can return,
  `ContextsAreOwn`. The owners of an event are in `TagsInv` too: they are those
  of the least invocation in the set whose rules mean any, and `OwnersGrow` says
  that a later one changes nothing. Hence `OwnersAreExplained`.
* **Globs and candidates** (`HitsIsCovers`, `OwnersAsMeant`). That matching a
  glob from its end (`Hits`) finds what laying it over the path means (`Covers`)
  is an induction over the glob, and the induction theorems of the library cannot
  be instantiated. The proof goes around it: the table of what can be laid from
  each segment on satisfies the recursion equation of `Hits` (`LaidIsRest`), and
  two tables that satisfy it are equal, since otherwise there is a last row
  in which they differ, and that row is determined by the next (`RestUnique`).
  The walk over the segments of a path is shown to exist and to have its type
  the same way, by the least segment at which it fails (`WalkExists`,
  `WalkTyped`). `CandidatesTyped` then gives `OwnersAsMeant`: `match_source`
  returns the owners that the rules mean. The assumptions are that paths are
  sequences of segments and that a rule that could be compiled has a glob
  (`RuleList`): `compile_pattern` raises `ValueError` for an empty one.
* **Invocation** (`WorkInv`, `StagingInv`). `WorkInv` says at which points the
  main thread holds the lock, and that a file is owned only while the pool runs
  or after a second Ctrl-C. `StagingInv` says who is responsible for the staging
  directory at each point: `prepare_freshness`, the cleanup once the directory
  was handed over, or nobody, and then with an excuse. Hence `UploadsUnderLock`,
  `StagingRemovedAtRest` and `StagingContained`, for every configuration, BEP,
  disk content and number of Ctrl-C.
* **The outcome of an invocation** (`InvocationInvariant`). `InvocationInv` adds
  what the plan authorises at each point (`PlanInv`, `OutputsInv`), which files
  are tasks and what became of them (`FilesInv`), and what exit code, reason and
  document say of that (`ExitInv`, `ReasonInv`, `ReportInv`), stage by stage,
  since each of the five later stages may rewrite them. `Claims` is what each
  reason says of the run, kept by every stage that does not rewrite it; `ExitCode`
  is the document's or that of the error that escaped. Files are counted through
  the disjoint sets of files of the outputs (`PayloadsAreAccounted`). Hence
  `UploadsAreAuthorised`, `ExitCodesAreHonest`, `ReasonsAreHonest`,
  `ReportAccountsForFiles` and `InvocationTypeCorrect`. The assumptions are that
  output keys and payload files are finitely many, that the placeholder for "no label" is never
  an expected target, and that a `test.outputs` directory belongs to one target
  of a build (`OneTargetPerKey`).
* **Why an invocation ends** (`InvocationsAdvance`). `Position` numbers the points
  of the main thread in the order of the code. Every step, also every Ctrl-C,
  failure and early return, leads to a later point or brings one file from
  untouched to owned, or from owned to a result, which is then final. So an
  invocation has at most as many steps as there are points and two for each file.
  That the next step is taken is what `InvocationEnds` adds, with TLC and under
  fairness.

**Model-checked only.** Liveness (`PoolTerminates`, `EveryContenderDecides`,
`PipelineEnds`, `InvocationEnds`, `DiscoveryEnds`) and the liveness half of
`UploadPool`: they depend on fairness and ENABLED, out of the prover's reach.

## Disagreements found

1. **Bash and Python** (`lock_rollout`). After a crash, a Bash uploader that found
   the lock dead, by its pid or by its age, removes the lock that a Python uploader
   has since reclaimed.
2. **Errors inside the chunk loop** (`file_pipeline_error`). An `OSError` after
   an accepted chunk skips the documented replacement of the source, so the
   chunk is uploaded again; the report shows no request at all.
3. **Stale local copy** (`stale_local_copy`). With the execution log as freshness
   source, artifacts are staged from the BEP but the plan does not name them, so
   the local directory with the same key wins, against
   `docs/Configuration_Reference.md:978`.

Stated as exceptions in properties, or outside the runs:

* A second Ctrl-C while the first is being handled escapes the pool with a
  worker still uploading, although `stop_started_workers` documents that it
  leaves no live thread. `QuietExit` holds for one fault (and the theorem
  assumes it); `UploadsUnderLock` and `StagingRemovedAtRest` carry the clause
  `interrupts >= 2`. TLC violates `QuietExit` with `MaxFaults = 2`.
* `StagingContained`: the staging directory survives when the merge with the
  freshness facts is refused (`freshness.py:188-189` cleans nothing, the handler
  below it does), and after a Ctrl-C before `prepare_freshness` returns.
* `OwnContext`: when all but one of several bundled contexts are unusable, the
  remaining one enriches every payload, also those of other repositories;
  `docs/Uploader_Reference.md:806-808` matches by repository whenever several
  are bundled.
* `TagsExplained`: an event retained after a partial success may carry tags of
  two invocations, and its owners are those of the first.
* `OnlyAuthorised` (clause `OnlyLogKnown`): when the BEP names of an execution
  only a remote `test.log` or `test.xml`, the doctor derives the output key from
  it (`test_optimization_doctor.py:825`), and the local directory with that key
  is authorised although nothing says that this execution left it.
* A CODEOWNERS glob such as `docs/*` also covers nested files, as `Covers` says;
  on GitHub it does not.
* A stale lock removed on the last attempt is reported as "stale lock could not
  be removed", like one whose removal failed (`detail` in `WorkspaceLock`).
* `NoLeakedLock`: besides a crash, a failed removal in the undo of an acquisition
  or in a release leaves the directory (`locking.py:164`, `213-217`, `230`), as
  does an owner that cannot read its pid back. The next invocation reclaims it.
* The requests of a telemetry file end like chunks do (finding 2): after an
  exception in the loop at `file_worker.py:815-839` the handler keeps the whole
  source, so an accepted request is sent again and the facts that went with it
  are planned anew. `FactsKept` and `SentOnce` count that as a file that had to stay,
  although `docs/Uploader_Reference.md:748-752` promises to retain the rejected
  request only, or to warn.
* `FactsKept` speaks of facts that were placed. A marked file that the plan
  chooses as the anchor takes none in that invocation. `SentOnce` allows a facts
  file once for each plan that attached it: facts are not consumed.
* `ReasonHonest`: a failure that `_preflight_failure_reason` names is there, but
  need not be the one that ended the run; a refused lock without a configured BEP
  is reported as `missing_bep_json`. A Ctrl-C after the document was printed makes
  the process end with 130 whatever the document says.
* `ReportAccounts`: `freshness_skipped_outputs` counts outputs, the other numbers
  count files.

## Not modelled

* The PowerShell, batch and remaining Bash uploaders and the launchers: other
  platforms' twins, of which only the shared lock matters here.
* Schema validation, redaction, configuration, credentials, endpoints: functions
  of one input without state, within reach of unit tests.
* The sync repository rule: single-threaded Starlark whose retries run inside
  one `curl` process.
* The rest of the doctor (its report, archives, downloads), Starlark analysis
  code, support bundle, onboarding generators: no concurrency, no state after
  they return.
* A crash of the process while artifacts are staged: each run directory has a
  fresh name, and stays.
* Inside the modelled parts: symlink and path checks, response excerpts, delays
  between attempts and `Retry-After`, gzip, wildcards within a path segment,
  wording of warnings, JSON layout, times in the report.

## Plan

Done: all modules above, and the proofs of all their safety properties. Next:

1. The composition of staging with `FileUpload`: failed chunks kept inside a
   staging directory that the same run deletes (hazard at `application.py:299`).
2. The refinement of the outcomes of `Invocation` by `FileUpload` and
   `Telemetry`, which is informal so far.
