------------------------------ MODULE Invocation ------------------------------
(***************************************************************************)
(* One uploader invocation under the workspace lock (application.py), from *)
(* the expected targets to the exit code: freshness and staging, discovery *)
(* and authorisation, the workers, the checks after them, removal of the   *)
(* staging directory, the report.                                          *)
(*                                                                         *)
(* The worker pool is the contract of module UploadPool: a file is owned   *)
(* at most once and, unless the run is interrupted or fails, reported.     *)
(* Ctrl-C may come at any step, also while the lock is taken or released.  *)
(* A task is <<output key, payload file>>.  Abstracted: the protocol of    *)
(* the lock (module WorkspaceLock), waiting for quiescence (Discovery),    *)
(* the inside of a pipeline (FileUpload and Telemetry), resources and      *)
(* temporary files beyond their failure, what the report prints, and names *)
(* that hold the words the reason of a failure is guessed from.            *)
(***************************************************************************)
EXTENDS Freshness, Reporting

CONSTANTS
  Keys,            \* output keys under the scan roots
  Configs,         \* configurations of an invocation
  Beps,            \* BEPs a test invocation may leave
  PayloadFiles,    \* the payload files of an output
  Artifacts,       \* sets of them a staged artifact may hold
  LocalTrees,      \* what the local bazel-testlogs may hold: for every key
                   \*   [meta, files], the label in its metadata and payloads,
  NoOutput,        \*   or nothing
  MaxInterrupts,   \* bound: Ctrl-C
  FlakyDisk        \* directories may fail to be made or removed

\* A test.outputs directory belongs to one target of a build, and None is not
\* a label.
OneTargetPerKey(bep) ==
  \A d, e \in Results(bep) : \A o \in d.outputs, q \in e.outputs :
    o.key = q.key /\ o.key # NoKey => d.label = e.label

ASSUME InvocationAssumption ==
  /\ MaxInterrupts \in Nat
  /\ FlakyDisk \in BOOLEAN
  /\ IsFiniteSet(Keys) /\ IsFiniteSet(PayloadFiles)
  /\ Artifacts \subseteq SUBSET PayloadFiles
  /\ \A tree \in LocalTrees, k \in Keys :
       tree[k] # NoOutput => tree[k].files \subseteq PayloadFiles
  /\ \A c \in Configs : NoLabel \notin LoadExpectedTargets(c.expected)
  /\ \A bep \in Beps : OneTargetPerKey(bep)

VARIABLES
  cfg,         \* the configuration
  events,      \* the events of the configured BEP files, if they can be read
  pc,          \* the point the main thread has reached
  lock,        \* the workspace lock: "free" of this invocation, "held" by it,
               \*   or "left": there, and not removed by it any more
  targets,     \* the expected targets
  facts,       \* what the BEP says, staging included
  staged,      \* pairs whose artifacts are in the staging directory
  stagingDir,  \* the staging run directory exists
  undeleted,   \* removing it was tried, and failed or was refused
  prepared,    \* freshness_preparation is assigned: cleanup knows the directory
  plan,        \* the freshness plan
  outputs,     \* raw_discovery: key -> [meta, files, staged, of], where of
               \*   is the labels whose execution, as the BEP has it, left it
  tasks,       \* eligible tasks: task -> the label it is stamped with
  file,        \* task -> what the workers did with its file
  exit,        \* the exit code of the report so far
  reason,      \* the reason code so far, "none" if the report is to find one
  report,      \* the aggregate of the workers' results
  completed,   \* workers_completed: the workers' results are in the report
  reported,    \* the report was emitted
  escaped,     \* exit code of the error that leaves run_uploader, 0 if none
  interrupts   \* Ctrl-C so far

inputVars == <<cfg, events>>
preparation == <<targets, facts, staged, plan>>
work == <<outputs, tasks, file>>
result == <<exit, reason, report, completed, reported>>
outcome == <<result, escaped>>
staging == <<stagingDir, undeleted, prepared>>
vars == <<inputVars, pc, lock, preparation, staging, work, outcome, interrupts>>

NoFacts == ParseBep({})
NoExit == 1000  \* there is no report yet

Init ==
  /\ cfg \in Configs
  /\ events \in IF cfg.bep = "readable" THEN Beps ELSE {{}}
  /\ pc = "start" /\ lock = "free"
  /\ targets = {} /\ facts = NoFacts /\ staged = {} /\ plan = EmptyPlan
  /\ stagingDir = FALSE /\ undeleted = FALSE /\ prepared = FALSE
  /\ outputs = <<>> /\ tasks = <<>> /\ file = <<>>
  /\ exit = NoExit /\ reason = "none"
  /\ report = EmptyReport /\ completed = FALSE /\ reported = FALSE
  /\ escaped = 0 /\ interrupts = 0

PreflightSteps == {"start", "targets", "resources", "source", "parse", "stage",
                   "merge", "plan", "handover", "discover", "admit", "prepare"}
Steps == PreflightSteps \cup {"work", "draining", "postflight", "cleanup", "emit", "release", "done"}

-----------------------------------------------------------------------------
(* Failing                                                                 *)

\* _preflight_failure_reason: inferred from the configuration and the plan.
PreflightReason(remoteOnly) ==
  IF /\ cfg.bep = "absent"
     /\ "bep" \in {cfg.source, cfg.artifacts} \/ cfg.mode = "required"
    THEN "missing_bep_json"
  ELSE IF plan.remote # {} \/ remoteOnly THEN "bep_output_remote_only_without_downloader"
  ELSE IF plan.cached # {} /\ plan.eligible = {} THEN "target_cached_by_bazel"
  ELSE "upload_failed_unknown"

\* A controlled error: an empty report with exit code 2, then the cleanup.
Fail(remoteOnly) ==
  /\ pc' = "cleanup" /\ exit' = 2 /\ reason' = PreflightReason(remoteOnly)
  /\ UNCHANGED <<inputVars, preparation, prepared, work, report, completed, reported,
                 escaped, interrupts>>

FailKeeping(remoteOnly) ==
  Fail(remoteOnly) /\ UNCHANGED <<lock, stagingDir, undeleted>>

\* _cleanup_staged_bep_run_roots, which may silently leave a part of it.
RemoveStaging ==
  /\ stagingDir' \in IF FlakyDisk THEN {FALSE, stagingDir} ELSE {FALSE}
  /\ undeleted' = (undeleted \/ stagingDir')

\* The removal is refused with SystemExit(1), which nobody handles here.
RefuseRemoval ==
  /\ FlakyDisk /\ staged # {}
  /\ undeleted' = TRUE /\ escaped' = 1 /\ UNCHANGED stagingDir

\* The next step of the preflight, which decides nothing about the outcome.
Go(step) ==
  /\ pc' = step
  /\ UNCHANGED <<inputVars, lock, outcome, interrupts>>

-----------------------------------------------------------------------------
(* Lock, expected targets, resources                                       *)

Acquire ==
  /\ pc = "start"
  /\ lock' = "held" /\ pc' = "targets"
  /\ UNCHANGED <<inputVars, preparation, staging, work, outcome, interrupts>>

\* Another uploader holds the lock, or it cannot be taken; a directory that was
\* made in vain may stay.
AcquireRefused ==
  /\ pc = "start" /\ Fail(FALSE)
  /\ lock' \in IF FlakyDisk THEN {"free", "left"} ELSE {"free"}
  /\ UNCHANGED <<stagingDir, undeleted>>

LoadTargets ==
  /\ pc = "targets" /\ ~TargetsRefused(cfg.expected)
  /\ targets' = LoadExpectedTargets(cfg.expected)
  /\ Go("resources")
  /\ UNCHANGED <<facts, staged, plan, staging, work>>

RefuseTargets ==
  pc = "targets" /\ TargetsRefused(cfg.expected) /\ FailKeeping(FALSE)

\* load_resources and resolve_local_testlogs_root.
LoadResources ==
  /\ pc = "resources" /\ Go("source")
  /\ UNCHANGED <<preparation, staging, work>>

RefuseResources == pc = "resources" /\ FailKeeping(FALSE)

-----------------------------------------------------------------------------
(* prepare_freshness                                                       *)

Source ==
  IF SelectSource(cfg) = "bep" /\ cfg.bep = "missing" THEN "none" ELSE SelectSource(cfg)

ChooseSource ==
  /\ pc = "source" /\ ~SourceRefused(cfg)
  /\ Go(IF BepNeeded(cfg, Source) THEN "parse" ELSE "plan")
  /\ UNCHANGED <<preparation, staging, work>>

RefuseSource == pc = "source" /\ SourceRefused(cfg) /\ FailKeeping(FALSE)

ReadBep ==
  /\ pc = "parse" /\ cfg.bep = "readable" /\ ~BepAmbiguous(events)
  /\ facts' = ParseBep(events)
  /\ Go(IF StagingRequested(cfg) THEN "stage" ELSE "plan")
  /\ UNCHANGED <<targets, staged, plan, staging, work>>

\* The BEP is not JSON and is not required.
SkipBep ==
  /\ pc = "parse" /\ cfg.bep = "corrupt" /\ BepOptional(cfg)
  /\ Go("plan")
  /\ UNCHANGED <<preparation, staging, work>>

RefuseBep ==
  /\ pc = "parse"
  /\ IF cfg.bep = "corrupt" THEN ~BepOptional(cfg) ELSE BepAmbiguous(events)
  /\ FailKeeping(FALSE)

\* Any of the artifacts may fail to materialise; a run directory that holds
\* none is removed at once.
StageArtifacts ==
  /\ pc = "stage"
  /\ \E materialised \in SUBSET Stageable(facts.refs, cfg.remoteArtifacts) :
       /\ ~StagingFails(facts.refs, cfg.remoteArtifacts, materialised)
       /\ staged' = materialised
       /\ stagingDir' = (materialised # {})
  /\ Go("merge")
  /\ UNCHANGED <<targets, facts, plan, undeleted, prepared, work>>

\* The doctor removes the run directory before it fails; its message may say
\* that a reference is remote-only.
StagingFailed ==
  /\ pc = "stage"
  /\ \E materialised \in SUBSET Stageable(facts.refs, cfg.remoteArtifacts) :
       StagingFails(facts.refs, cfg.remoteArtifacts, materialised)
  /\ \E remoteOnly \in BOOLEAN :
       /\ remoteOnly => \E r \in facts.refs : r.remote /\ ~r.cached
       /\ FailKeeping(remoteOnly)

MergeStaged ==
  /\ pc = "merge" /\ ~StagedConflict(facts, staged)
  /\ facts' = ApplyStaged(facts, staged)
  /\ Go("plan")
  /\ UNCHANGED <<targets, staged, plan, staging, work>>

\* SystemExit from the doctor is turned into a FreshnessError before the
\* handler that removes the staging directory.
RefuseMerge == pc = "merge" /\ StagedConflict(facts, staged) /\ FailKeeping(FALSE)

NewPlan ==
  IF Source = "execution_log" THEN LogPlan(cfg.logEntries, targets)
  ELSE IF BepNeeded(cfg, Source) /\ cfg.bep = "readable"
    THEN BepPlan(Source, facts, targets, cfg.remoteArtifacts, StagingRequested(cfg))
  ELSE EmptyPlan

PlanFails ==
  IF Source = "execution_log" THEN cfg.log # "readable" ELSE PlanRefused(cfg, NewPlan)

BuildPlan ==
  /\ pc = "plan" /\ ~PlanFails
  /\ plan' = NewPlan
  /\ Go("handover")
  /\ UNCHANGED <<targets, facts, staged, staging, work>>

\* Mutant: the planning failure leaves the staging directory.
RefusePlanKeeping == pc = "plan" /\ PlanFails /\ FailKeeping(Source # "execution_log")

\* The planning failure removes the staging directory itself.
RefusePlan ==
  /\ pc = "plan" /\ PlanFails
  /\ RemoveStaging /\ UNCHANGED lock
  /\ Fail(Source # "execution_log")

\* The preparation is returned and assigned.
HandOver ==
  /\ pc = "handover" /\ prepared' = TRUE
  /\ Go("discover")
  /\ UNCHANGED <<preparation, stagingDir, undeleted, work>>

-----------------------------------------------------------------------------
(* Discovery and authorisation                                             *)

NothingExpected == NoExpectedPayloads(plan, targets)
ScanRoots == cfg.local \/ staged # {}

\* The labels that were executed and whose output was kept locally.
ExecutedLocally(k) ==
  {e.label : e \in {x \in Results(events) :
     ~x.cached /\ \E o \in x.outputs : o.key = k /\ ~o.remote}}

LocalCopy(local, k) ==
  [meta |-> local[k].meta, files |-> local[k].files, staged |-> FALSE,
   of |-> ExecutedLocally(k)]

StagedKeys == {p[2] : p \in staged}

\* An artifact holds payload files, and metadata or not.
StagedCopy(k, files, marked) ==
  LET label == (CHOOSE p \in staged : p[2] = k)[1]
  IN  [meta |-> IF marked THEN label ELSE NoLabel, files |-> files, staged |-> TRUE,
       of |-> {label}]

\* discover_file_tasks: a selected key never falls back to the local copy;
\* for any other the local root comes before the staged ones.
UsedCopies(local, files, marked) ==
  LET isLocal(k) == local[k] # NoOutput
      isStaged(k) == k \in StagedKeys
      selected(k) == \E p \in plan.selected : p[2] = k
  IN  [k \in {x \in Keys : isStaged(x) \/ (isLocal(x) /\ ~selected(x))} |->
         IF isStaged(k) /\ (selected(k) \/ ~isLocal(k))
         THEN StagedCopy(k, files[k], k \in marked) ELSE LocalCopy(local, k)]

NoRoots == ~ScanRoots /\ cfg.failOnError /\ ~NothingExpected

LocalRoots == IF cfg.local THEN LocalTrees ELSE [Keys -> {NoOutput}]

Discover ==
  /\ pc = "discover" /\ ~NoRoots
  /\ IF NothingExpected THEN outputs' = <<>>
     ELSE \E local \in LocalRoots, files \in [StagedKeys -> Artifacts],
             marked \in SUBSET StagedKeys :
            outputs' = UsedCopies(local, files, marked)
  /\ Go("admit")
  /\ UNCHANGED <<preparation, staging, tasks, file>>

DiscoverNothing == pc = "discover" /\ NoRoots /\ FailKeeping(FALSE)

Selection == SelectExpectedOutputs(DOMAIN outputs, targets)

LabelOf(k) == IF Selection[k] # NoLabel THEN Selection[k] ELSE outputs[k].meta

\* The payload files of some of the outputs.
FilesIn(keys) == UNION {{<<k, f>> : f \in outputs[k].files} : k \in keys}

Candidate(k) == k \in DOMAIN Selection /\ outputs[k].files # {}
Verdict(k) == Admission(plan, cfg.mode, LabelOf(k), k)
OutputsWith(verdict) == {k \in DOMAIN outputs : Candidate(k) /\ Verdict(k) = verdict}
Admitted == OutputsWith("take")

FilterFails ==
  \/ SelectionRefused(DOMAIN outputs, targets, plan.source = "bep")
  \/ OutputsWith("refuse") # {}

AdmitFails ==
  \/ FilterFails
  \/ Admitted # {} /\ ~cfg.credentials /\ ~cfg.dryRun

\* Selection, freshness filter and credentials.
Admit ==
  /\ pc = "admit" /\ ~AdmitFails
  /\ tasks' = [t \in FilesIn(Admitted) |-> LabelOf(t[1])]
  /\ file' = [t \in FilesIn(Admitted) |-> "untouched"]
  /\ Go("prepare")
  /\ UNCHANGED <<preparation, staging, outputs>>

RefuseAdmission == pc = "admit" /\ AdmitFails /\ FailKeeping(FALSE)

-----------------------------------------------------------------------------
(* The workers                                                             *)

\* _prepare_worker_inputs and the temporary directory of the invocation.
Prepare ==
  /\ pc = "prepare" /\ Go("work")
  /\ UNCHANGED <<preparation, staging, work>>

\* A bad proxy, broken CODEOWNERS or facts, or no temporary directory.
PrepareFails == pc = "prepare" /\ FailKeeping(FALSE)

InFile(states) == {t \in DOMAIN file : file[t] \in states}

\* Files are owned while the pool runs and finished even after an escape.
Own(t) ==
  /\ pc = "work" /\ file[t] = "untouched"
  /\ file' = [file EXCEPT ![t] = "owned"]
  /\ UNCHANGED <<inputVars, pc, lock, preparation, staging, outputs, tasks,
                 outcome, interrupts>>

Finish(t) ==
  /\ file[t] = "owned"
  /\ \E r \in FileResults : file' = [file EXCEPT ![t] = r]
  /\ UNCHANGED <<inputVars, pc, lock, preparation, staging, outputs, tasks,
                 outcome, interrupts>>

\* run_discovered_tasks returns: failed files make the exit code 1.
PoolReturns ==
  /\ pc = "work" /\ InFile({"untouched", "owned"}) = {}
  /\ pc' = "postflight"
  /\ exit' = IF InFile(FailedStatuses) # {} THEN 1 ELSE 0
  /\ report' = Aggregate(file, 0) /\ completed' = TRUE
  /\ UNCHANGED <<inputVars, lock, preparation, staging, work, reason, reported, escaped,
                 interrupts>>

\* Ctrl-C: no further file is entered, and 130 is reported once the owned
\* ones are finished.
InterruptPool ==
  /\ pc = "work" /\ DOMAIN file # {}
  /\ interrupts < MaxInterrupts /\ interrupts' = interrupts + 1
  /\ pc' = "draining"
  /\ UNCHANGED <<inputVars, lock, preparation, staging, work, outcome>>

\* Mutant: the tasks that were not entered are not counted.
CollectWithoutCancelled ==
  LET done == InFile(FileResults)
  IN  Aggregate([t \in done |-> file[t]], 0)

\* WorkerPoolInterrupted: the results so far, and the number of other tasks.
CollectInterrupted ==
  LET done == InFile(FileResults)
  IN  Aggregate([t \in done |-> file[t]], Cardinality(DOMAIN file) - Cardinality(done))

\* Mutant: the interrupted run does not wait for the owned files.
PoolInterruptedAtOnce ==
  /\ pc = "draining"
  /\ pc' = "postflight" /\ exit' = 130 /\ reason' = "interrupted"
  /\ report' = CollectInterrupted /\ completed' = TRUE
  /\ UNCHANGED <<inputVars, lock, preparation, staging, work, reported, escaped,
                 interrupts>>

PoolInterrupted ==
  /\ pc = "draining" /\ InFile({"owned"}) = {}
  /\ pc' = "postflight" /\ exit' = 130 /\ reason' = "interrupted"
  /\ report' = CollectInterrupted /\ completed' = TRUE
  /\ UNCHANGED <<inputVars, lock, preparation, staging, work, reported, escaped,
                 interrupts>>

\* Mutant: the failure does not wait for the owned files.
PoolFailsAtOnce == pc = "work" /\ FailKeeping(FALSE)

\* WorkerPoolError: the results of the workers are not in the report.
PoolFails == pc = "work" /\ InFile({"owned"}) = {} /\ FailKeeping(FALSE)

-----------------------------------------------------------------------------
(* After the workers                                                       *)

Handled ==
  {p \in {<<tasks[t], t[1]>> : t \in InFile({"succeeded"} \cup FailedStatuses)} :
     p[1] # NoLabel}
NoTasks == FilesIn(DOMAIN outputs) = {}

\* The exit code and the reason after validate_fresh_outputs_accounted.
Accounted ==
  LET error == AccountingError(plan, targets, cfg.failOnError, Handled)
  IN  IF exit = 130 \/ error = 0 THEN [exit |-> exit, reason |-> reason]
      ELSE [exit |-> error,
            reason |-> IF error = 2 THEN PreflightReason(TRUE)
                       ELSE "fresh_output_without_payloads"]

\* ... and after the check for tests that ran without leaving payloads.
Verified(testsRan) ==
  IF ~NoTasks THEN Accounted
  ELSE IF NothingExpected THEN [Accounted EXCEPT !.reason = "ok"]
  ELSE IF ScanRoots /\ testsRan /\ cfg.failOnError
       THEN [exit |-> 1, reason |-> "tests_ran_without_payloads"]
  ELSE Accounted

Postflight ==
  /\ pc = "postflight" /\ pc' = "cleanup"
  /\ \E testsRan \in BOOLEAN :
       exit' = Verified(testsRan).exit /\ reason' = Verified(testsRan).reason
  /\ UNCHANGED <<inputVars, lock, preparation, staging, work, report, completed, reported,
                 escaped, interrupts>>

\* An invocation that an unhandled error leaves reports nothing.
AfterCleanup == IF escaped # 0 THEN "release" ELSE "emit"

\* _cleanup_staging, which knows the directory once it was handed over.
Cleanup ==
  /\ pc = "cleanup" /\ pc' = AfterCleanup
  /\ IF prepared THEN RemoveStaging ELSE UNCHANGED <<stagingDir, undeleted>>
  /\ UNCHANGED <<inputVars, lock, preparation, prepared, work, outcome, interrupts>>

\* Mutant: the reason of the earlier stages stays.
CleanupRefusedKeepingReason ==
  /\ pc = "cleanup" /\ FlakyDisk /\ prepared /\ staged # {}
  /\ pc' = AfterCleanup
  /\ exit' = IF exit \in {0, NoExit} THEN 2 ELSE exit
  /\ undeleted' = TRUE
  /\ UNCHANGED <<inputVars, lock, preparation, stagingDir, prepared, work, reason, report,
                 completed, reported, escaped, interrupts>>

\* The doctor refuses to remove what it does not recognise as its own.  Without
\* a report there is an empty one now, which an error in flight outruns.
CleanupRefused ==
  /\ pc = "cleanup" /\ FlakyDisk /\ prepared /\ staged # {}
  /\ pc' = AfterCleanup
  /\ exit' = IF exit \in {0, NoExit} THEN 2 ELSE exit
  /\ reason' = IF exit' = 2 /\ reason \in {"none", "ok"} THEN "staging_cleanup_failed" ELSE reason
  /\ undeleted' = TRUE
  /\ UNCHANGED <<inputVars, lock, preparation, stagingDir, prepared, work, report, completed,
                 reported, escaped, interrupts>>

\* _legacy_context: the sizes of what the invocation found and decided.
LegacyContext ==
  [outputs |-> Cardinality(DOMAIN outputs),
   discovered |-> Cardinality(FilesIn(DOMAIN outputs)),
   skipped |-> IF FilterFails THEN 0 ELSE Cardinality(OutputsWith("skip")),
   eligible |-> Cardinality(plan.eligible), cached |-> Cardinality(plan.cached),
   remote |-> Cardinality(plan.remote), selected |-> Cardinality(plan.selected),
   staged |-> Cardinality(staged)]

\* Whether any request was attempted, as far as the results tell.
AttemptedIn ==
  {a \in BOOLEAN :
     /\ StatusCount(report, {"succeeded", "partial"}) > 0 /\ ~cfg.dryRun => a
     /\ a => StatusCount(report, {"succeeded"} \cup FailedStatuses) > 0 /\ ~cfg.dryRun}

\* The reason is decided with the document.
WriteReport ==
  /\ reported' = TRUE
  /\ IF reason # "none" THEN UNCHANGED reason
     ELSE \E attempted \in AttemptedIn :
            reason' = ResultReason(exit, cfg.dryRun, attempted, LegacyContext)

\* What was emitted, once it was.
FinalDocument == Document(report, exit, reason, cfg.dryRun, LegacyContext)

\* Mutant: the invocation ends once the report is written.
EmitAndEnd ==
  /\ pc = "emit" /\ pc' = "done" /\ WriteReport
  /\ UNCHANGED <<inputVars, lock, preparation, staging, work, exit, report, completed,
                 escaped, interrupts>>

\* The report is printed; that it cannot be written to a file only warns.
Emit ==
  /\ pc = "emit" /\ pc' = "release" /\ WriteReport
  /\ UNCHANGED <<inputVars, lock, preparation, staging, work, exit, report, completed,
                 escaped, interrupts>>

\* Giving the lock back may fail, at its guard or at the removal, unnoticed.
Release ==
  /\ pc = "release" /\ pc' = "done"
  /\ lock' \in IF lock # "held" THEN {lock}
               ELSE IF FlakyDisk THEN {"free", "left"} ELSE {"free"}
  /\ UNCHANGED <<inputVars, preparation, staging, work, outcome, interrupts>>

\* Errors that are none of the controlled ones: a BEP that is not UTF-8, a
\* staging directory that cannot be made, a planning failure whose removal of
\* the staging directory is refused, a report that cannot be printed.
Unhandled ==
  /\ \/ /\ \/ pc = "parse" /\ cfg.bep = "corrupt"
           \/ pc = "stage" /\ FlakyDisk
        /\ pc' = "cleanup" /\ escaped' = 1 /\ UNCHANGED <<stagingDir, undeleted>>
     \/ pc = "plan" /\ PlanFails /\ pc' = "cleanup" /\ RefuseRemoval
     \/ /\ pc = "emit" /\ pc' = "release" /\ escaped' = 1
        /\ UNCHANGED <<stagingDir, undeleted>>
  /\ UNCHANGED <<inputVars, lock, preparation, prepared, work, result, interrupts>>

\* Ctrl-C outside the pool, or a second one inside it: the finally clauses run
\* and the exit code is 130, unless one of them ends in an error of its own.
\* One during the cleanup or the release ends it; one while the lock is taken
\* or released may leave the lock.
Interrupt ==
  /\ interrupts < MaxInterrupts /\ interrupts' = interrupts + 1
  /\ \/ pc \in PreflightSteps \cup {"draining", "postflight"} /\ pc' = "cleanup"
     \/ pc = "work" /\ DOMAIN file = {} /\ pc' = "cleanup"
     \/ pc \in {"cleanup", "emit"} /\ pc' = "release"
     \/ pc = "release" /\ pc' = "done"
  /\ IF pc = "start" \/ (pc = "release" /\ lock = "held")
     THEN lock' \in {"free", "left"} ELSE UNCHANGED lock
  /\ \/ pc \notin {"merge", "plan"} /\ escaped' = 130 /\ UNCHANGED <<stagingDir, undeleted>>
     \/ pc \in {"merge", "plan"} /\ escaped' = 130 /\ RemoveStaging
     \/ pc \in {"merge", "plan"} /\ RefuseRemoval
  /\ UNCHANGED <<inputVars, preparation, prepared, work, result>>

\* The main thread, and the workers.
MainStep ==
  \/ Acquire \/ AcquireRefused \/ LoadTargets \/ RefuseTargets
  \/ LoadResources \/ RefuseResources
  \/ ChooseSource \/ RefuseSource \/ ReadBep \/ SkipBep \/ RefuseBep
  \/ StageArtifacts \/ StagingFailed \/ MergeStaged \/ RefuseMerge
  \/ BuildPlan \/ RefusePlan \/ HandOver
  \/ Discover \/ DiscoverNothing \/ Admit \/ RefuseAdmission
  \/ Prepare \/ PrepareFails
  \/ PoolReturns \/ PoolInterrupted \/ PoolFails
  \/ Postflight \/ Cleanup \/ CleanupRefused \/ Emit \/ Unhandled \/ Release
WorkerStep == \E t \in DOMAIN file : Own(t) \/ Finish(t)

Done == pc = "done" /\ UNCHANGED vars

Next == MainStep \/ WorkerStep \/ InterruptPool \/ Interrupt \/ Done

Spec == Init /\ [][Next]_vars

\* Neither the main thread nor the worker threads stop by themselves.
FairSpec == Spec /\ WF_vars(MainStep) /\ WF_vars(WorkerStep)

-----------------------------------------------------------------------------
(* Properties                                                              *)

TypeOK ==
  /\ cfg \in Configs /\ events \in Beps \cup {{}}
  /\ pc \in Steps
  /\ lock \in {"free", "held", "left"} /\ stagingDir \in BOOLEAN /\ undeleted \in BOOLEAN
  /\ prepared \in BOOLEAN /\ completed \in BOOLEAN
  /\ reported => pc \in {"release", "done"}
  /\ DOMAIN outputs \subseteq Keys
  /\ DOMAIN file = DOMAIN tasks
  /\ DOMAIN tasks \subseteq FilesIn(DOMAIN outputs)
  /\ \A t \in DOMAIN file : file[t] \in {"untouched", "owned"} \cup FileResults
  /\ exit \in {NoExit, 0, 1, 2, 130} /\ escaped \in {0, 1, 130}
  /\ interrupts \in 0..MaxInterrupts

Entered == InFile({"owned"} \cup FileResults)

\* main: the exit code of the process, in the end.
ExitCode == IF escaped # 0 THEN escaped ELSE exit

\* Workers touch files under the workspace lock only, unless a second Ctrl-C
\* made the pool give up on them.
UploadsUnderLock == InFile({"owned"}) # {} => lock = "held" \/ interrupts >= 2

\* The staging directory is not removed under a worker that reads from it.
StagingRemovedAtRest ==
  [][stagingDir /\ ~stagingDir' => InFile({"owned"}) = {} \/ interrupts >= 2]_vars

\* The BEP names no more of an execution's output than a log that is kept
\* remotely: the doctor takes the output as fresh, whatever is there locally.
OnlyLogKnown(label, k) ==
  \E e \in Results(events) :
    /\ e.label = label /\ ~e.cached
    /\ \A o \in e.outputs : o.key = k => o.remote /\ ~o.hint

\* With BEP freshness a file is entered only when the BEP reports its output
\* as executed, never as cached, for an expected target, and the copy that is
\* read is the one this execution left, if the BEP can tell.
OnlyAuthorised ==
  \A t \in Entered :
    LET k == t[1]
    IN  /\ targets # {} => tasks[t] \in targets
        /\ plan.source = "bep" =>
             /\ \E e \in Results(events) : ~e.cached /\ <<tasks[t], k>> \in MappedPairs(e)
             /\ <<tasks[t], k>> \notin ParseBep(events).cached
             /\ tasks[t] \in outputs[k].of \/ OnlyLogKnown(tasks[t], k)

\* Documented: staged BEP outputs win over stale local directories with the
\* same output key.
StagedCopyWins ==
  \A t \in Entered :
    LET k == t[1]
    IN  (\E p \in staged : p[2] = k) => outputs[k].staged \/ tasks[t] \in outputs[k].of

\* An executed result of an expected target whose output the BEP names.
Traceable(e) ==
  /\ e.kind = "result" /\ e.label \in targets /\ ~e.cached
  /\ MappedPairs(e) \cup RemotePairs(e) # {}

\* Exit code 0 means what CI takes it for: not interrupted, reported, no file
\* failed or left out, the BEP knows every expected target, and with
\* fail-on-error each one that it reports as executed had a file processed.
\* 130 is exactly the code of an interrupted run, unless an error that nobody
\* handles ends it.
ExitHonest ==
  pc = "done" =>
    /\ ExitCode = 130 <=> interrupts > 0 /\ escaped # 1
    /\ ExitCode = 0 =>
         /\ reported
         /\ InFile({"untouched", "owned"} \cup FailedStatuses) = {}
         /\ plan.source = "bep" => targets \subseteq {e.label : e \in events}
         /\ plan.source = "bep" /\ cfg.failOnError =>
              \A e \in events : Traceable(e) =>
                \E t \in InFile({"succeeded"}) : tasks[t] = e.label

\* The expected targets the BEP is silent about, and those it calls fresh of
\* which no file got through the workers.
Unaccounted ==
  (targets \ Represented(plan)) \cup ({p[1] : p \in plan.eligible} \ {p[1] : p \in Handled})

NothingFound == {"no_test_outputs_found", "no_payload_json_found"}
GoodReasons == {"ok", "upload_skipped_dry_run"} \cup NothingFound

\* What the reason claims is so, whatever the later stages overwrote: it is a
\* good one for exit code 0 only; a failed upload, an unaccounted target, files
\* that are missing, a staging directory that is stuck, Ctrl-C and a remote-only
\* or cached output are named only where there is one; and the name of a stuck
\* staging directory hides no failed upload.  The process ends with the code of
\* the document, unless Ctrl-C comes after it was emitted.
ReasonHonest ==
  reported =>
    /\ ExitCode # exit => ExitCode = 130 /\ interrupts > 0
    /\ exit = 0 <=> reason \in GoodReasons
    /\ reason \in NothingFound \cup {"tests_ran_without_payloads"} => NoTasks
    /\ reason \in {"upload_failed_http", "payload_enrichment_failed"} =>
         completed /\ InFile(FailedStatuses) # {}
    /\ reason = "fresh_output_without_payloads" => completed /\ Unaccounted # {}
    /\ reason = "staging_cleanup_failed" =>
         /\ exit = 2 /\ undeleted /\ completed
         /\ InFile({"untouched", "owned"} \cup FailedStatuses) = {}
    /\ exit = 130 <=> reason = "interrupted"
    /\ reason = "bep_output_remote_only_without_downloader" =>
         \E e \in Results(events) : ~e.cached /\ \E o \in e.outputs : o.remote
    /\ reason = "target_cached_by_bazel" => ~completed /\ plan.cached # {}

\* The document accounts for every payload file, although it counts what was
\* skipped by output: when the workers returned, also after Ctrl-C, the file is
\* counted with the status its worker gave it or as never entered, or its output
\* was skipped by freshness or belongs to no expected target; a successful run
\* has nothing but successes and skips; and only when the pool failed can files
\* have been sent that the document omits, with exit code 2.
ReportAccounts ==
  reported =>
    LET document == FinalDocument
        files == document.files
        skipped == FilesIn(OutputsWith("skip"))
    IN  /\ completed =>
             /\ \A t \in DOMAIN file :
                  IF t \in DOMAIN report.results THEN report.results[t] = file[t]
                  ELSE file[t] = "untouched"
             /\ files.eligible = Cardinality(DOMAIN file)
             /\ files.discovered = files.eligible + Cardinality(skipped)
                  + Cardinality(FilesIn(DOMAIN outputs \ DOMAIN Selection))
             /\ document.context.skipped = Cardinality({t[1] : t \in skipped})
        /\ document.result = "success" =>
             files.succeeded + files.skipped = files.eligible /\ document.failures = 0
        /\ document.result = "failure" /\ completed => InFile({"succeeded", "partial"}) = {}
        /\ ~completed => exit = 2 /\ document.uploaded = 0

\* What may keep the staging directory alive after the invocation: removal
\* that failed, Ctrl-C while nobody was responsible for it or during its
\* removal, and staged artifacts another event reports as cached.
StagingContained ==
  pc = "done" /\ stagingDir =>
    \/ undeleted \/ interrupts > 0
    \/ StagedConflict(ParseBep(events), staged)

\* Every invocation ends, leaves no file half way, and does not keep the lock:
\* it gave it back or, after Ctrl-C or a failure of the disk, left it to the next
\* one, which finds its owner dead.
InvocationEnds == <>[](pc = "done" /\ lock # "held" /\ InFile({"owned"}) = {})
=============================================================================
