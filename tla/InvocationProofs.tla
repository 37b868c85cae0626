--------------------------- MODULE InvocationProofs ---------------------------
(***************************************************************************)
(* What holds of an invocation for every configuration, BEP, content of    *)
(* the disk and number of Ctrl-C.  The workspace lock covers the work on   *)
(* files, the staging directory outlives it, and little can make it        *)
(* outlive the invocation; only what the BEP authorises is uploaded; exit  *)
(* code, reason and report agree with what became of every file; no        *)
(* step goes back, so every invocation has a bounded number of them.       *)
(*                                                                         *)
(* InvocationInv is the inductive invariant.  Its parts follow the course  *)
(* of an invocation, and each is shown to be kept by every step from       *)
(* itself and the parts it rests on.                                       *)
(***************************************************************************)
EXTENDS Invocation, FiniteSetTheorems, SequenceTheorems, TLAPS

Owned == InFile({"owned"})

\* Points at which the invocation may be without the lock.
Unlocked == {"start", "postflight", "cleanup", "emit", "release", "done"}

\* Files are owned while the pool runs, or after a second Ctrl-C escaped it.
WorkInv ==
  /\ pc \in Steps /\ interrupts \in Nat
  /\ pc \notin Unlocked => lock = "held"
  /\ pc = "draining" => interrupts >= 1
  /\ pc \in PreflightSteps => Owned = {}
  /\ Owned # {} => pc \in {"work", "draining"} \/ interrupts >= 2

BeforeStaging == {"start", "targets", "resources", "source", "parse", "stage"}
Prepared == {"discover", "admit", "prepare", "work", "draining", "postflight"}

Excused == undeleted \/ interrupts > 0 \/ StagedConflict(ParseBep(events), staged)

\* While the staging directory exists, somebody will remove it or there is an
\* excuse: prepare_freshness itself, the cleanup that knows it, or nobody.
StagingInv ==
  /\ stagingDir \in BOOLEAN /\ undeleted \in BOOLEAN /\ prepared \in BOOLEAN
  /\ pc \in BeforeStaging => ~stagingDir
  /\ pc \in {"stage", "merge"} => facts = ParseBep(events)
  /\ pc \in Prepared => prepared
  /\ stagingDir =>
       \/ pc \in {"merge", "plan", "handover"}
       \/ prepared /\ pc \in Prepared \cup {"cleanup"}
       \/ Excused

-----------------------------------------------------------------------------
(* The lock covers the work                                                *)

LEMMA NothingInside == DOMAIN <<>> = {}
<1>1. <<>> \in Seq({}) /\ Len(<<>>) = 0
  BY EmptySeq
<1> QED
  BY <1>1

LEMMA OwnedKept == file' = file => Owned' = Owned
BY DEF Owned, InFile

\* A controlled failure happens in the preflight or in the pool.
LEMMA FailureShape ==
  ASSUME \/ AcquireRefused \/ RefuseTargets \/ RefuseResources \/ RefuseSource \/ RefuseBep
         \/ StagingFailed \/ RefuseMerge \/ RefusePlan \/ DiscoverNothing
         \/ RefuseAdmission \/ PrepareFails \/ PoolFails
  PROVE  /\ pc \in PreflightSteps \cup {"work"}
         /\ \E remoteOnly \in BOOLEAN : Fail(remoteOnly)
<1>1. pc \in PreflightSteps \cup {"work"}
  BY DEF AcquireRefused, RefuseTargets, RefuseResources, RefuseSource, RefuseBep,
         StagingFailed, RefuseMerge, RefusePlan, DiscoverNothing, RefuseAdmission,
         PrepareFails, PoolFails, PreflightSteps
<1>2. \E remoteOnly \in BOOLEAN : Fail(remoteOnly)
  BY DEF AcquireRefused, RefuseTargets, RefuseResources, RefuseSource, RefuseBep,
         StagingFailed, RefuseMerge, RefusePlan, DiscoverNothing, RefuseAdmission,
         PrepareFails, PoolFails, FailKeeping
<1> QED
  BY <1>1, <1>2

\* An error that is none of the controlled ones ends the run early or takes
\* the report with it.
LEMMA UnhandledShape ==
  ASSUME Unhandled
  PROVE  /\ \/ pc \in {"parse", "stage", "plan"} /\ pc' = "cleanup"
            \/ pc = "emit" /\ pc' = "release"
         /\ escaped' = 1 /\ stagingDir' = stagingDir
         /\ undeleted' = IF pc = "plan" THEN TRUE ELSE undeleted
         /\ UNCHANGED <<inputVars, lock, preparation, prepared, work, result, interrupts>>
BY DEF Unhandled, RefuseRemoval

\* Ctrl-C outside the pool leads to the next of the finally clauses, and
\* leaves an exit code of its own.
LEMMA InterruptShape ==
  ASSUME Interrupt
  PROVE  /\ \/ pc \in PreflightSteps \cup {"work", "draining", "postflight"}
               /\ pc' = "cleanup"
            \/ pc \in {"cleanup", "emit"} /\ pc' = "release"
            \/ pc = "release" /\ pc' = "done"
         /\ pc = "work" => DOMAIN file = {}
         /\ escaped' \in {1, 130}
         /\ interrupts < MaxInterrupts /\ interrupts' = interrupts + 1
         /\ lock' \in {lock, "free", "left"}
         /\ UNCHANGED <<inputVars, preparation, prepared, work, result>>
<1>1. escaped' \in {1, 130}
  BY DEF Interrupt, RefuseRemoval
<1>2. lock' \in {lock, "free", "left"}
  BY DEF Interrupt
<1>3. /\ \/ pc \in PreflightSteps \cup {"draining", "postflight"} /\ pc' = "cleanup"
         \/ pc = "work" /\ DOMAIN file = {} /\ pc' = "cleanup"
         \/ pc \in {"cleanup", "emit"} /\ pc' = "release"
         \/ pc = "release" /\ pc' = "done"
      /\ interrupts < MaxInterrupts /\ interrupts' = interrupts + 1
      /\ UNCHANGED <<inputVars, preparation, prepared, work, result>>
  BY DEF Interrupt
<1> QED
  BY <1>1, <1>2, <1>3 DEF PreflightSteps

\* The other steps of the preflight lead on and decide nothing.
LEMMA PreflightShape ==
  ASSUME \/ Acquire \/ LoadTargets \/ LoadResources \/ ChooseSource \/ ReadBep \/ SkipBep
         \/ StageArtifacts \/ MergeStaged \/ BuildPlan \/ HandOver
         \/ Discover \/ Admit \/ Prepare
  PROVE  /\ pc \in PreflightSteps /\ pc' \in PreflightSteps \cup {"work"}
         /\ UNCHANGED <<outcome, interrupts>>
<1>1. pc \in PreflightSteps /\ UNCHANGED <<outcome, interrupts>>
  BY DEF Acquire, LoadTargets, LoadResources, ChooseSource, ReadBep, SkipBep,
         StageArtifacts, MergeStaged, BuildPlan, HandOver, Discover, Admit, Prepare, Go,
         PreflightSteps
<1>2. pc' \in PreflightSteps \cup {"work"}
  BY DEF Acquire, LoadTargets, LoadResources, ChooseSource, ReadBep, SkipBep,
         StageArtifacts, MergeStaged, BuildPlan, HandOver, Discover, Admit, Prepare, Go,
         PreflightSteps
<1> QED
  BY <1>1, <1>2

LEMMA InitWorkInv == Init => WorkInv
<1> SUFFICES ASSUME Init PROVE WorkInv
  OBVIOUS
<1>1. DOMAIN file = {}
  BY NothingInside DEF Init
<1>2. Owned = {}
  BY <1>1 DEF Owned, InFile
<1> QED
  BY <1>2 DEF Init, WorkInv, Steps, PreflightSteps, Unlocked

\* The steps that lead from one point of the preflight to the next.
LEMMA GoKeepsWorkInv ==
  ASSUME WorkInv, NEW step \in (PreflightSteps \ {"start"}) \cup {"work"}, Go(step),
         lock = "held", Owned' = {}
  PROVE  WorkInv'
BY DEF WorkInv, Go, Steps, PreflightSteps, Unlocked

\* A controlled failure while no file is owned.
LEMMA FailKeepsWorkInv ==
  ASSUME WorkInv, NEW remoteOnly \in BOOLEAN, Fail(remoteOnly), Owned = {}
  PROVE  WorkInv'
<1>1. Owned' = {}
  BY OwnedKept DEF Fail, work
<1> QED
  BY <1>1 DEF WorkInv, Fail, Steps, PreflightSteps, Unlocked

LEMMA PreflightKeepsWorkInv ==
  ASSUME WorkInv,
         \/ Acquire \/ AcquireRefused \/ LoadTargets \/ RefuseTargets
         \/ LoadResources \/ RefuseResources
         \/ ChooseSource \/ RefuseSource \/ ReadBep \/ SkipBep \/ RefuseBep
         \/ StageArtifacts \/ StagingFailed \/ MergeStaged \/ RefuseMerge
         \/ BuildPlan \/ RefusePlan \/ HandOver
         \/ Discover \/ DiscoverNothing \/ Admit \/ RefuseAdmission
         \/ Prepare \/ PrepareFails
  PROVE  WorkInv'
<1> USE DEF WorkInv, PreflightSteps, Unlocked
<1>1. CASE Acquire
  <2>1. Owned' = {}
    BY <1>1, OwnedKept DEF Acquire, work
  <2> QED
    BY <1>1, <2>1 DEF Acquire, Steps
<1>2. CASE \/ LoadTargets \/ LoadResources \/ ChooseSource \/ ReadBep \/ SkipBep
           \/ StageArtifacts \/ MergeStaged \/ BuildPlan \/ HandOver \/ Discover \/ Prepare
  <2>1. Owned = {} /\ file' = file /\ lock = "held"
    BY <1>2 DEF LoadTargets, LoadResources, ChooseSource, ReadBep, SkipBep, StageArtifacts,
                MergeStaged, BuildPlan, HandOver, Discover, Prepare, work
  <2>2. \E step \in (PreflightSteps \ {"start"}) \cup {"work"} : Go(step)
    BY <1>2 DEF LoadTargets, LoadResources, ChooseSource, ReadBep, SkipBep, StageArtifacts,
                MergeStaged, BuildPlan, HandOver, Discover, Prepare
  <2> QED
    BY <2>1, <2>2, OwnedKept, GoKeepsWorkInv
<1>3. CASE Admit
  <2>1. Owned' = {}
    BY <1>3 DEF Admit, Owned, InFile
  <2>2. Go("prepare") /\ lock = "held"
    BY <1>3 DEF Admit
  <2> QED
    BY <2>1, <2>2, GoKeepsWorkInv
<1>4. CASE \/ AcquireRefused \/ RefuseTargets \/ RefuseResources \/ RefuseSource \/ RefuseBep
           \/ StagingFailed \/ RefuseMerge \/ RefusePlan \/ DiscoverNothing
           \/ RefuseAdmission \/ PrepareFails
  <2>1. Owned = {}
    BY <1>4 DEF AcquireRefused, RefuseTargets, RefuseResources, RefuseSource, RefuseBep,
                StagingFailed, RefuseMerge, RefusePlan, DiscoverNothing, RefuseAdmission,
                PrepareFails
  <2>2. \E remoteOnly \in BOOLEAN : Fail(remoteOnly)
    BY <1>4 DEF AcquireRefused, RefuseTargets, RefuseResources, RefuseSource, RefuseBep,
                StagingFailed, RefuseMerge, RefusePlan, DiscoverNothing, RefuseAdmission,
                PrepareFails, FailKeeping
  <2> QED
    BY <2>1, <2>2, FailKeepsWorkInv
<1> QED
  BY <1>1, <1>2, <1>3, <1>4

LEMMA LateStepsKeepWorkInv ==
  ASSUME WorkInv,
         \/ PoolReturns \/ PoolInterrupted \/ PoolFails
         \/ Postflight \/ Cleanup \/ CleanupRefused \/ Emit \/ Unhandled \/ Release
  PROVE  WorkInv'
<1> USE DEF WorkInv, PreflightSteps, Unlocked, Steps, AfterCleanup
<1>1. file' = file /\ interrupts' = interrupts
  BY DEF PoolReturns, PoolInterrupted, PoolFails, FailKeeping, Fail, Postflight, Cleanup,
         CleanupRefused, Emit, Unhandled, Release, work
<1>2. Owned' = Owned
  BY <1>1, OwnedKept
<1>3. CASE PoolReturns
  <2>1. Owned = {}
    BY <1>3 DEF PoolReturns, Owned, InFile
  <2> QED
    BY <1>1, <1>2, <1>3, <2>1 DEF PoolReturns
<1>4. CASE PoolInterrupted
  BY <1>1, <1>2, <1>4 DEF PoolInterrupted, Owned
<1>5. CASE PoolFails
  BY <1>5, FailKeepsWorkInv DEF PoolFails, FailKeeping, Owned
<1>6. CASE Postflight
  BY <1>1, <1>2, <1>6 DEF Postflight
<1>7. CASE Cleanup \/ CleanupRefused
  BY <1>1, <1>2, <1>7 DEF Cleanup, CleanupRefused
<1>8. CASE Emit \/ Release
  BY <1>1, <1>2, <1>8 DEF Emit, Release
<1>9. CASE Unhandled
  BY <1>1, <1>2, <1>9, UnhandledShape
<1> QED
  BY <1>3, <1>4, <1>5, <1>6, <1>7, <1>8, <1>9

\* Workers change a file only while the pool runs, or after it was escaped.
LEMMA WorkersKeepWorkInv ==
  ASSUME WorkInv, WorkerStep
  PROVE  WorkInv'
<1>1. PICK k \in DOMAIN file : Own(k) \/ Finish(k)
  BY DEF WorkerStep
<1>2. pc' = pc /\ lock' = lock /\ interrupts' = interrupts
  BY <1>1 DEF Own, Finish
<1>3. Finish(k) => Owned # {}
  BY DEF Finish, Owned, InFile
<1>4. /\ pc \notin PreflightSteps
      /\ pc \in {"work", "draining"} \/ interrupts >= 2
  BY <1>1, <1>3 DEF Own, WorkInv, PreflightSteps
<1> QED
  BY <1>2, <1>4 DEF WorkInv

LEMMA InterruptsKeepWorkInv ==
  ASSUME WorkInv, InterruptPool \/ Interrupt
  PROVE  WorkInv'
<1> USE DEF WorkInv, PreflightSteps, Unlocked, Steps
<1>1. interrupts' = interrupts + 1 /\ file' = file
  BY DEF InterruptPool, Interrupt, work
<1>2. Owned' = Owned
  BY <1>1, OwnedKept
<1>3. CASE InterruptPool
  BY <1>1, <1>2, <1>3 DEF InterruptPool
<1>4. CASE Interrupt
  <2>1. pc' \in {"cleanup", "release", "done"}
    BY <1>4, InterruptShape
  <2>2. Owned # {} => interrupts >= 1
    <3>1. DOMAIN file = {} => Owned = {}
      BY DEF Owned, InFile
    <3>2. pc # "work" \/ Owned = {}
      BY <1>4, <3>1, InterruptShape
    <3> QED
      BY <3>2
  <2> QED
    BY <1>1, <1>2, <2>1, <2>2
<1> QED
  BY <1>3, <1>4

LEMMA NextKeepsWorkInv == WorkInv /\ [Next]_vars => WorkInv'
<1> SUFFICES ASSUME WorkInv, [Next]_vars PROVE WorkInv'
  OBVIOUS
<1>1. CASE MainStep
  BY <1>1, PreflightKeepsWorkInv, LateStepsKeepWorkInv DEF MainStep
<1>2. CASE WorkerStep
  BY <1>2, WorkersKeepWorkInv
<1>3. CASE InterruptPool \/ Interrupt
  BY <1>3, InterruptsKeepWorkInv
<1>4. CASE UNCHANGED vars
  <2>1. Owned' = Owned
    BY <1>4, OwnedKept DEF vars, work
  <2> QED
    BY <1>4, <2>1 DEF vars, WorkInv
<1> QED
  BY <1>1, <1>2, <1>3, <1>4 DEF Next, Done

THEOREM WorkInvariant == Spec => []WorkInv
BY InitWorkInv, NextKeepsWorkInv, PTL DEF Spec

\* Workers touch files under the workspace lock only, unless a second Ctrl-C
\* made the pool give up on them: for every configuration of the uploader and
\* everything it may find.
THEOREM LockCoversWork == Spec => []UploadsUnderLock
<1>1. WorkInv => UploadsUnderLock
  BY DEF WorkInv, UploadsUnderLock, Owned, Unlocked
<1> QED
  BY <1>1, WorkInvariant, PTL

\* The staging directory is not removed under a worker that reads from it.
THEOREM StagingOutlivesWork == Spec => StagingRemovedAtRest
<1>1. ASSUME WorkInv, [Next]_vars, stagingDir, ~stagingDir'
      PROVE  Owned = {} \/ interrupts >= 2
  <2> USE <1>1 DEF WorkInv, PreflightSteps
  <2>1. CASE \/ StageArtifacts \/ RefusePlan \/ Cleanup \/ Interrupt
    <3>1. pc \in {"stage", "plan", "cleanup"} \/ pc \in {"merge", "plan"}
      BY <2>1 DEF StageArtifacts, RefusePlan, Cleanup, Interrupt
    <3> QED
      BY <3>1
  <2>2. CASE stagingDir' = stagingDir
    BY <2>2
  <2>3. CASE MainStep
    <3> SUFFICES ASSUME ~StageArtifacts, ~RefusePlan, ~Cleanup
                 PROVE  stagingDir' = stagingDir
      BY <2>1, <2>2
    <3> QED
      BY <2>3 DEF MainStep, Acquire, AcquireRefused, LoadTargets, RefuseTargets,
           LoadResources, RefuseResources, ChooseSource, RefuseSource, ReadBep, SkipBep,
           RefuseBep, StagingFailed, MergeStaged, RefuseMerge, BuildPlan, HandOver, Discover,
           DiscoverNothing, Admit, RefuseAdmission, Prepare, PrepareFails, PoolReturns,
           PoolInterrupted, PoolFails, Postflight, CleanupRefused, Emit, Unhandled,
           RefuseRemoval, Release, FailKeeping, staging
  <2>4. CASE WorkerStep
    BY <2>2, <2>4 DEF WorkerStep, Own, Finish, staging
  <2>5. CASE InterruptPool \/ UNCHANGED vars
    BY <2>2, <2>5 DEF InterruptPool, vars, staging
  <2> QED
    BY <2>1, <2>3, <2>4, <2>5 DEF Next, Done
<1>2. WorkInv /\ [Next]_vars =>
        [stagingDir /\ ~stagingDir' => InFile({"owned"}) = {} \/ interrupts >= 2]_vars
  BY <1>1 DEF Owned
<1> QED
  BY <1>2, WorkInvariant, PTL DEF Spec, StagingRemovedAtRest

-----------------------------------------------------------------------------
(* What outlives the invocation                                            *)

LEMMA InitStagingInv == Init => StagingInv
BY DEF Init, StagingInv, Prepared

\* Failing before there is a directory, with it handed over, or by the
\* conflict that excuses it.
LEMMA FailKeepsStagingInv ==
  ASSUME StagingInv, WorkInv, NEW remoteOnly \in BOOLEAN, Fail(remoteOnly),
         UNCHANGED <<stagingDir, undeleted>>,
         stagingDir => pc \in Prepared \/ Excused
  PROVE  StagingInv'
<1>1. /\ pc' = "cleanup"
      /\ events' = events /\ staged' = staged /\ prepared' = prepared
      /\ stagingDir' = stagingDir /\ undeleted' = undeleted /\ interrupts' = interrupts
  BY DEF Fail, inputVars, preparation
<1>2. Excused' = Excused
  BY <1>1 DEF Excused
<1>3. stagingDir' => Excused' \/ prepared'
  BY <1>1, <1>2 DEF StagingInv
<1> QED
  BY <1>1, <1>3 DEF StagingInv, BeforeStaging, Prepared

LEMMA PreflightKeepsStagingInv ==
  ASSUME StagingInv, WorkInv,
         \/ Acquire \/ LoadTargets \/ LoadResources \/ ChooseSource \/ ReadBep \/ SkipBep
         \/ StageArtifacts \/ MergeStaged \/ BuildPlan \/ HandOver
         \/ Discover \/ Admit \/ Prepare
  PROVE  StagingInv'
<1> USE DEF StagingInv, BeforeStaging, Prepared, Go, inputVars, outcome, staging, preparation
<1>1. CASE Acquire \/ LoadTargets \/ LoadResources \/ ChooseSource \/ SkipBep
  BY <1>1 DEF Acquire, LoadTargets, LoadResources, ChooseSource, SkipBep
<1>2. CASE ReadBep
  BY <1>2 DEF ReadBep
<1>3. CASE StageArtifacts
  <2>1. /\ pc = "stage" /\ pc' = "merge" /\ facts' = facts /\ events' = events
        /\ undeleted' = undeleted /\ prepared' = prepared /\ stagingDir' \in BOOLEAN
    BY <1>3 DEF StageArtifacts
  <2>2. ParseBep(events)' = ParseBep(events)
    BY <2>1
  <2> QED
    BY <2>1, <2>2
<1>4. CASE MergeStaged \/ BuildPlan
  <2>1. /\ pc \in {"merge", "plan"} /\ pc' \in {"plan", "handover"}
        /\ events' = events /\ staged' = staged /\ prepared' = prepared
        /\ undeleted' = undeleted /\ stagingDir' = stagingDir
    BY <1>4 DEF MergeStaged, BuildPlan
  <2> QED
    BY <2>1
<1>5. CASE HandOver
  <2>1. /\ pc' = "discover" /\ prepared' = TRUE
        /\ undeleted' = undeleted /\ stagingDir' = stagingDir
    BY <1>5 DEF HandOver
  <2> QED
    BY <2>1
<1>6. CASE Discover \/ Admit \/ Prepare
  <2>1. /\ pc \in Prepared /\ pc' \in Prepared /\ prepared' = prepared
        /\ undeleted' = undeleted /\ stagingDir' = stagingDir
    BY <1>6 DEF Discover, Admit, Prepare
  <2> QED
    BY <2>1
<1> QED
  BY <1>1, <1>2, <1>3, <1>4, <1>5, <1>6

LEMMA RefusalsKeepStagingInv ==
  ASSUME StagingInv, WorkInv,
         \/ AcquireRefused \/ RefuseTargets \/ RefuseResources \/ RefuseSource \/ RefuseBep
         \/ StagingFailed \/ RefuseMerge \/ RefusePlan \/ DiscoverNothing
         \/ RefuseAdmission \/ PrepareFails \/ PoolFails
  PROVE  StagingInv'
<1>1. CASE RefusePlan
  <2>1. /\ pc' = "cleanup" /\ prepared' = prepared
        /\ stagingDir' \in BOOLEAN /\ undeleted' = (undeleted \/ stagingDir')
    BY <1>1 DEF RefusePlan, RemoveStaging, Fail, StagingInv
  <2> QED
    BY <2>1 DEF StagingInv, BeforeStaging, Prepared, Excused
<1>2. CASE \/ AcquireRefused \/ RefuseTargets \/ RefuseResources \/ RefuseSource
           \/ RefuseBep \/ StagingFailed \/ RefuseMerge \/ DiscoverNothing
           \/ RefuseAdmission \/ PrepareFails \/ PoolFails
  <2>1. /\ \E remoteOnly \in BOOLEAN : Fail(remoteOnly)
        /\ UNCHANGED <<stagingDir, undeleted>>
    BY <1>2 DEF AcquireRefused, RefuseTargets, RefuseResources, RefuseSource, RefuseBep,
                StagingFailed, RefuseMerge, DiscoverNothing, RefuseAdmission, PrepareFails,
                PoolFails, FailKeeping
  <2>2. \/ pc \in BeforeStaging \cup Prepared
        \/ pc = "merge" /\ StagedConflict(facts, staged)
    BY <1>2 DEF AcquireRefused, RefuseTargets, RefuseResources, RefuseSource, RefuseBep,
                StagingFailed, RefuseMerge, DiscoverNothing, RefuseAdmission, PrepareFails,
                PoolFails, BeforeStaging, Prepared
  <2>3. stagingDir => pc \in Prepared \/ Excused
    BY <2>2 DEF StagingInv, Excused
  <2> QED
    BY <2>1, <2>3, FailKeepsStagingInv
<1> QED
  BY <1>1, <1>2

LEMMA LateStepsKeepStagingInv ==
  ASSUME StagingInv, WorkInv,
         \/ PoolReturns \/ PoolInterrupted \/ InterruptPool
         \/ Postflight \/ Cleanup \/ CleanupRefused \/ Emit \/ Unhandled \/ Release
  PROVE  StagingInv'
<1> USE DEF StagingInv, BeforeStaging, Prepared
<1>1. events' = events /\ staged' = staged /\ prepared' = prepared
  BY DEF PoolReturns, PoolInterrupted, InterruptPool, Postflight, Cleanup, CleanupRefused,
         Emit, Unhandled, Release, inputVars, preparation, staging
<1>2. StagedConflict(ParseBep(events), staged)' = StagedConflict(ParseBep(events), staged)
  BY <1>1
<1>3. CASE PoolReturns \/ PoolInterrupted \/ InterruptPool \/ Postflight
  <2>1. /\ pc \in Prepared /\ pc' \in Prepared \cup {"cleanup"}
        /\ undeleted' = undeleted /\ stagingDir' = stagingDir
    BY <1>3 DEF PoolReturns, PoolInterrupted, InterruptPool, Postflight, staging
  <2> QED
    BY <1>1, <2>1
<1>4. CASE Cleanup
  <2>1. pc = "cleanup" /\ pc' \in {"emit", "release"} /\ interrupts' = interrupts
    BY <1>4 DEF Cleanup, AfterCleanup
  <2>2. CASE prepared
    <3>1. stagingDir' \in BOOLEAN /\ undeleted' = (undeleted \/ stagingDir')
      BY <1>4, <2>2 DEF Cleanup, RemoveStaging
    <3> QED
      BY <1>1, <2>1, <3>1 DEF Excused
  <2>3. CASE ~prepared
    BY <1>1, <1>2, <1>4, <2>1, <2>3 DEF Cleanup, Excused
  <2> QED
    BY <2>2, <2>3
<1>5. CASE CleanupRefused
  <2>1. /\ pc' \in {"emit", "release"} /\ undeleted' = TRUE /\ stagingDir' = stagingDir
    BY <1>5 DEF CleanupRefused, AfterCleanup
  <2> QED
    BY <1>1, <2>1 DEF Excused
<1>6. CASE Emit \/ Release
  <2>1. /\ pc \in {"emit", "release"} /\ pc' \in {"release", "done"}
        /\ undeleted' = undeleted /\ stagingDir' = stagingDir /\ interrupts' = interrupts
    BY <1>6 DEF Emit, Release, staging
  <2> QED
    BY <1>1, <1>2, <2>1 DEF Excused
<1>7. CASE Unhandled
  <2>1. /\ \/ pc \in {"parse", "stage", "plan"} /\ pc' = "cleanup"
           \/ pc = "emit" /\ pc' = "release"
        /\ stagingDir' = stagingDir /\ interrupts' = interrupts
        /\ undeleted' = IF pc = "plan" THEN TRUE ELSE undeleted
    BY <1>7, UnhandledShape
  <2> QED
    BY <1>1, <1>2, <2>1 DEF Excused
<1> QED
  BY <1>3, <1>4, <1>5, <1>6, <1>7

LEMMA NextKeepsStagingInv == WorkInv /\ StagingInv /\ [Next]_vars => StagingInv'
<1> SUFFICES ASSUME WorkInv, StagingInv, [Next]_vars PROVE StagingInv'
  OBVIOUS
<1>1. CASE MainStep
  BY <1>1, PreflightKeepsStagingInv, RefusalsKeepStagingInv, LateStepsKeepStagingInv
     DEF MainStep
<1>2. CASE WorkerStep \/ UNCHANGED vars
  <2>1. /\ pc' = pc /\ events' = events /\ staged' = staged /\ prepared' = prepared
        /\ facts' = facts /\ undeleted' = undeleted /\ stagingDir' = stagingDir
        /\ interrupts' = interrupts
    BY <1>2 DEF WorkerStep, Own, Finish, vars, inputVars, preparation, staging
  <2> QED
    BY <2>1 DEF StagingInv, Excused
<1>3. CASE InterruptPool
  BY <1>3, LateStepsKeepStagingInv
<1>4. CASE Interrupt
  <2>1. /\ pc' \in {"cleanup", "release", "done"} /\ prepared' = prepared
        /\ interrupts' = interrupts + 1
    BY <1>4, InterruptShape
  <2>3. stagingDir' \in BOOLEAN /\ undeleted' \in BOOLEAN
    BY <1>4 DEF Interrupt, RemoveStaging, RefuseRemoval, StagingInv
  <2>2. interrupts' > 0
    BY <2>1 DEF WorkInv
  <2> QED
    BY <2>1, <2>2, <2>3 DEF StagingInv, BeforeStaging, Prepared, Excused
<1> QED
  BY <1>1, <1>2, <1>3, <1>4 DEF Next, Done

\* A staging directory that is left behind could not be removed, or Ctrl-C
\* came while nobody was responsible for it or during its removal, or staged
\* artifacts are reported as cached by another event: nothing else leaks it.
THEOREM StagingLeavesNothing == Spec => []StagingContained
<1>1. StagingInv => StagingContained
  BY DEF StagingInv, StagingContained, Prepared, Excused
<1> QED
  BY <1>1, WorkInvariant, InitStagingInv, NextKeepsStagingInv, PTL DEF Spec

-----------------------------------------------------------------------------
(* The rest of the inductive invariant: what was decided before the        *)
(* workers, what they did, and what became of it.                          *)

\* What the BEP says, and how staging changed it.
Known ==
  LET bep == ParseBep(events)
  IN  /\ ~BepAmbiguous(events)
      /\ facts.eligible = bep.eligible \cup staged
      /\ facts.cached = bep.cached
      /\ facts.remote = bep.remote \ staged
      /\ facts.skipped = bep.skipped
      /\ facts.refs = bep.refs
      /\ staged \cap bep.cached = {}
      /\ staged \subseteq Stageable(bep.refs, cfg.remoteArtifacts)
      /\ staged # {} => StagingRequested(cfg)

PlanSteps == BeforeStaging \cup {"merge", "plan"}

\* Some execution left an output that only a remote store has.
KeptRemotely ==
  \E e \in Results(events) : ~e.cached /\ \E o \in e.outputs : o.remote

\* A plan made from the BEP agrees with the events.
PlanInv ==
  /\ cfg \in Configs /\ events \in Beps \cup {{}}
  /\ NoLabel \notin targets
  /\ pc \in BeforeStaging => staged = {}
  /\ pc \in {"stage", "merge"} =>
       facts = ParseBep(events) /\ ~BepAmbiguous(events) /\ StagingRequested(cfg)
  /\ pc = "merge" => staged \subseteq Stageable(facts.refs, cfg.remoteArtifacts)
  /\ pc = "plan" /\ cfg.bep = "readable" /\ BepNeeded(cfg, Source) => Known
  /\ pc \in PlanSteps => plan = EmptyPlan
  /\ plan.source = "bep" =>
       /\ Known
       /\ plan = BepPlan("bep", facts, targets, cfg.remoteArtifacts, StagingRequested(cfg))
  /\ facts.remote \cup plan.remote # {} => KeptRemotely

\* A local copy is read only where staging selected nothing.
OutputsInv ==
  /\ pc \in PlanSteps \cup {"handover", "discover"} => DOMAIN outputs = {}
  /\ DOMAIN outputs \subseteq Keys
  /\ NothingExpected => DOMAIN outputs = {}
  /\ \A k \in DOMAIN outputs :
       /\ outputs[k].files \subseteq PayloadFiles
       /\ IF outputs[k].staged
          THEN \E p \in staged : p[2] = k /\ outputs[k].of = {p[1]}
          ELSE outputs[k].of = ExecutedLocally(k) /\ \A p \in plan.selected : p[2] # k

\* The filter accepted the outputs, and the tasks are those it admitted.
Filtered ==
  /\ ~FilterFails
  /\ DOMAIN file = FilesIn(Admitted)
  /\ \A t \in DOMAIN file : tasks[t] = LabelOf(t[1])

FilteredSteps == {"prepare", "work", "draining", "postflight"}

FilesInv ==
  /\ pc \in PreflightSteps \ {"prepare"} => DOMAIN file = {}
  /\ DOMAIN file = DOMAIN tasks
  /\ \A t \in DOMAIN file : file[t] \in {"untouched", "owned"} \cup FileResults
  /\ (pc \in FilteredSteps \/ DOMAIN file # {} \/ completed) => Filtered

\* The report agrees with what the workers did.
Counted ==
  /\ DOMAIN report.results = InFile(FileResults)
  /\ \A t \in DOMAIN report.results : report.results[t] = file[t]
  /\ report.cancelled = Cardinality(DOMAIN file) - Cardinality(InFile(FileResults))
  /\ Owned = {}

Settled == InFile({"untouched", "owned"} \cup FailedStatuses) = {}

AccountedFor == AccountingError(plan, targets, cfg.failOnError, Handled) = 0

Undecided == PreflightSteps \cup {"work", "draining"}

\* The exit code so far, and that of an error that is not controlled.
ExitInv ==
  /\ exit \in {NoExit, 0, 1, 2, 130} /\ escaped \in {0, 1, 130}
  /\ pc \in Undecided => exit = NoExit /\ escaped = 0 /\ ~completed
  /\ pc \in PreflightSteps \cup {"work"} => interrupts = 0
  /\ pc = "draining" => DOMAIN file # {}
  /\ exit = 130 \/ escaped = 130 => interrupts > 0
  /\ pc \notin Undecided =>
       /\ exit = NoExit => escaped # 0
       /\ interrupts > 0 => exit = 130 \/ escaped # 0
  /\ pc = "postflight" =>
       /\ completed /\ escaped = 0
       /\ exit = 0 \/ (exit = 1 /\ InFile(FailedStatuses) # {})
            \/ (exit = 130 /\ DOMAIN file # {})
  /\ exit = 0 => completed /\ Settled
  /\ exit = 0 /\ pc # "postflight" /\ (escaped = 0 \/ reported) => AccountedFor

\* A report is emitted unless an error runs past it, and with the results of
\* the workers if they returned.
ReportInv ==
  /\ IF completed THEN Counted ELSE report = EmptyReport
  /\ reported => pc \in {"release", "done"} /\ escaped # 1 /\ exit # NoExit
  /\ ~completed /\ exit # NoExit => exit = 2
  /\ pc = "emit" => escaped = 0
  /\ pc \in {"release", "done"} /\ escaped = 0 => reported

\* What a reason claims, but for the good ones.
Claims ==
  /\ reason \in NothingFound \cup {"tests_ran_without_payloads"} => NoTasks
  /\ reason \in {"upload_failed_http", "payload_enrichment_failed"} =>
       completed /\ InFile(FailedStatuses) # {}
  /\ reason = "fresh_output_without_payloads" => completed /\ Unaccounted # {}
  /\ reason = "staging_cleanup_failed" => exit = 2 /\ undeleted /\ completed /\ Settled
  /\ exit = 130 <=> reason = "interrupted"
  /\ reason = "bep_output_remote_only_without_downloader" => KeptRemotely
  /\ reason = "target_cached_by_bazel" => ~completed /\ plan.cached # {}

\* The reasons that the document is given only when it is made.
LateReasons == GoodReasons \ {"ok"}

\* The claims hold from the moment they are made, and with them what decides
\* the reason where there is none yet.
ReasonInv ==
  /\ pc \in Undecided => reason = "none"
  /\ pc = "postflight" => reason = IF exit = 130 THEN "interrupted" ELSE "none"
  /\ reported \/ escaped = 0 => Claims
  /\ ~reported /\ escaped = 0 =>
       /\ reason \notin LateReasons
       /\ reason = "ok" => exit = 0
       /\ exit = 0 => reason \in {"none", "ok"}
       /\ reason = "none" /\ pc \notin Undecided =>
            exit = 0 \/ (exit = 1 /\ completed /\ InFile(FailedStatuses) # {})
  /\ reported => (exit = 0 <=> reason \in GoodReasons)

-----------------------------------------------------------------------------
(* The plan agrees with the BEP                                            *)

\* Nothing the plan is made from changes, and the step leads away from the
\* points that promise something about it.
LEMMA PlanInvKept ==
  ASSUME PlanInv, UNCHANGED <<inputVars, preparation>>,
         pc' \in PlanSteps => pc' = pc
  PROVE  PlanInv'
<1>1. /\ cfg' = cfg /\ events' = events /\ targets' = targets
      /\ facts' = facts /\ staged' = staged /\ plan' = plan
  BY DEF inputVars, preparation
<1>2. Known' = Known
  BY <1>1 DEF Known
<1>3. Source' = Source
  BY <1>1 DEF Source
<1>4. KeptRemotely' = KeptRemotely
  BY <1>1 DEF KeptRemotely
<1> QED
  BY <1>1, <1>2, <1>3, <1>4 DEF PlanInv, PlanSteps, BeforeStaging

LEMMA InitPlanInv == Init => PlanInv
<1> SUFFICES ASSUME Init PROVE PlanInv
  OBVIOUS
<1>1. events \in Beps \cup {{}}
  BY DEF Init
<1>2. facts.remote = {} /\ plan.remote = {}
  BY DEF Init, NoFacts, ParseBep, Results, EmptyPlan
<1> QED
  BY <1>1, <1>2 DEF Init, PlanInv, PlanSteps, BeforeStaging, EmptyPlan

\* What a BEP calls remote an execution left there.
LEMMA RemoteIsKeptRemotely == ParseBep(events).remote # {} => KeptRemotely
<1> SUFFICES ASSUME ParseBep(events).remote # {} PROVE KeptRemotely
  OBVIOUS
<1>1. PICK e \in Results(events) : ~e.cached /\ RemotePairs(e) # {}
  BY DEF ParseBep
<1>2. \E o \in e.outputs : o.remote
  BY <1>1 DEF RemotePairs
<1> QED
  BY <1>1, <1>2 DEF KeptRemotely

LEMMA EarlyStepsKeepPlanInv ==
  ASSUME PlanInv,
         Acquire \/ LoadTargets \/ LoadResources \/ ChooseSource \/ ReadBep \/ SkipBep
  PROVE  PlanInv'
<1> USE DEF PlanInv, PlanSteps, BeforeStaging, Go, inputVars, preparation
<1>1. CASE LoadTargets
  <2>1. /\ pc = "targets" /\ pc' = "resources" /\ cfg' = cfg /\ events' = events
        /\ facts' = facts /\ staged' = staged /\ plan' = plan
        /\ targets' = LoadExpectedTargets(cfg.expected)
    BY <1>1 DEF LoadTargets
  <2>2. NoLabel \notin targets'
    BY <2>1, InvocationAssumption
  <2>3. KeptRemotely' = KeptRemotely
    BY <2>1 DEF KeptRemotely
  <2> QED
    BY <2>1, <2>2, <2>3 DEF EmptyPlan
<1>2. CASE Acquire \/ LoadResources \/ ChooseSource \/ SkipBep
  <2>1. /\ pc \in {"start", "resources", "source", "parse"}
        /\ pc' \in {"targets", "source", "parse", "plan"}
        /\ cfg' = cfg /\ events' = events /\ staged' = staged /\ plan' = plan
        /\ targets' = targets /\ facts' = facts
    BY <1>2 DEF Acquire, LoadResources, ChooseSource, SkipBep
  <2>2. Source' = Source
    BY <2>1 DEF Source
  <2>3. pc' = "plan" => ~BepNeeded(cfg, Source) \/ cfg.bep = "corrupt"
    BY <1>2 DEF Acquire, LoadResources, ChooseSource, SkipBep
  <2>4. KeptRemotely' = KeptRemotely
    BY <2>1 DEF KeptRemotely
  <2> QED
    BY <2>1, <2>2, <2>3, <2>4 DEF EmptyPlan
<1>3. CASE ReadBep
  <2>1. /\ pc = "parse" /\ ~BepAmbiguous(events) /\ facts' = ParseBep(events)
        /\ cfg' = cfg /\ events' = events /\ staged' = staged /\ plan' = plan
        /\ targets' = targets
        /\ pc' = IF StagingRequested(cfg) THEN "stage" ELSE "plan"
    BY <1>3 DEF ReadBep
  <2>2. staged' = {}
    BY <2>1
  <2>3. Known'
    BY <2>1, <2>2 DEF Known
  <2>4. KeptRemotely' = KeptRemotely
    BY <2>1 DEF KeptRemotely
  <2>5. facts'.remote # {} => KeptRemotely'
    BY <2>1, <2>4, RemoteIsKeptRemotely
  <2>6. plan'.remote = {}
    BY <2>1 DEF EmptyPlan
  <2> QED
    BY <2>1, <2>2, <2>3, <2>5, <2>6 DEF EmptyPlan
<1> QED
  BY <1>1, <1>2, <1>3

\* What staging changes of the facts.
LEMMA StagedFields ==
  ASSUME NEW E, NEW S
  PROVE  LET bep == ParseBep(E)
             merged == ApplyStaged(bep, S)
         IN  /\ merged.eligible = bep.eligible \cup S
             /\ merged.cached = bep.cached
             /\ merged.remote = bep.remote \ S
             /\ merged.skipped = bep.skipped
             /\ merged.refs = bep.refs
BY DEF ApplyStaged, ParseBep

LEMMA StagingStepsKeepPlanInv ==
  ASSUME PlanInv, StageArtifacts \/ MergeStaged
  PROVE  PlanInv'
<1> USE DEF PlanInv, PlanSteps, BeforeStaging, Go, inputVars, preparation
<1>1. CASE StageArtifacts
  <2>1. /\ pc = "stage" /\ pc' = "merge"
        /\ cfg' = cfg /\ events' = events /\ facts' = facts /\ plan' = plan
        /\ targets' = targets
        /\ staged' \subseteq Stageable(facts.refs, cfg.remoteArtifacts)
    BY <1>1 DEF StageArtifacts
  <2>2. plan'.source # "bep"
    BY <2>1 DEF EmptyPlan
  <2>3. KeptRemotely' = KeptRemotely
    BY <2>1 DEF KeptRemotely
  <2> QED
    BY <2>1, <2>2, <2>3
<1>2. CASE MergeStaged
  <2>1. /\ pc = "merge" /\ pc' = "plan" /\ ~StagedConflict(facts, staged)
        /\ cfg' = cfg /\ events' = events /\ staged' = staged /\ plan' = plan
        /\ targets' = targets /\ facts' = ApplyStaged(facts, staged)
    BY <1>2 DEF MergeStaged
  <2>2. Known'
    BY <2>1, StagedFields DEF Known, StagedConflict
  <2>3. plan'.source # "bep"
    BY <2>1 DEF EmptyPlan
  <2>4. KeptRemotely' = KeptRemotely
    BY <2>1 DEF KeptRemotely
  <2>5. facts'.remote \subseteq facts.remote
    BY <2>1, StagedFields
  <2> QED
    BY <2>1, <2>2, <2>3, <2>4, <2>5
<1> QED
  BY <1>1, <1>2

LEMMA PlanningKeepsPlanInv ==
  ASSUME PlanInv, BuildPlan
  PROVE  PlanInv'
<1>1. /\ pc = "plan" /\ pc' = "handover" /\ plan' = NewPlan
      /\ cfg' = cfg /\ events' = events /\ staged' = staged
      /\ targets' = targets /\ facts' = facts
  BY DEF BuildPlan, Go, inputVars
<1>2. Known' = Known
  BY <1>1 DEF Known
<1>3. ASSUME NewPlan.source = "bep"
      PROVE  /\ Known
             /\ NewPlan = BepPlan("bep", facts, targets, cfg.remoteArtifacts,
                                  StagingRequested(cfg))
  <2>1. Source # "execution_log" /\ BepNeeded(cfg, Source) /\ cfg.bep = "readable"
    BY <1>3 DEF NewPlan, LogPlan, EmptyPlan
  <2>2. NewPlan = BepPlan(Source, facts, targets, cfg.remoteArtifacts, StagingRequested(cfg))
    BY <2>1 DEF NewPlan
  <2>3. Source = "bep"
    BY <1>3, <2>2 DEF BepPlan
  <2> QED
    BY <1>1, <2>1, <2>2, <2>3 DEF PlanInv
<1>4. KeptRemotely' = KeptRemotely
  BY <1>1 DEF KeptRemotely
<1>5. NewPlan.remote \subseteq facts.remote
  BY DEF NewPlan, LogPlan, EmptyPlan, BepPlan, Expected
<1> QED
  BY <1>1, <1>2, <1>3, <1>4, <1>5 DEF PlanInv, PlanSteps, BeforeStaging

LEMMA NextKeepsPlanInv == PlanInv /\ [Next]_vars => PlanInv'
<1> SUFFICES ASSUME PlanInv, [Next]_vars PROVE PlanInv'
  OBVIOUS
<1> USE DEF PlanSteps, BeforeStaging
<1>1. CASE \/ AcquireRefused \/ RefuseTargets \/ RefuseResources \/ RefuseSource \/ RefuseBep
           \/ StagingFailed \/ RefuseMerge \/ RefusePlan \/ DiscoverNothing
           \/ RefuseAdmission \/ PrepareFails \/ PoolFails
  BY <1>1, FailureShape, PlanInvKept DEF Fail
<1>2. CASE HandOver \/ Discover \/ Admit \/ Prepare
  BY <1>2, PlanInvKept DEF HandOver, Discover, Admit, Prepare, Go
<1>3. CASE \/ PoolReturns \/ PoolInterrupted \/ Postflight \/ Cleanup \/ CleanupRefused
           \/ Emit \/ Unhandled \/ Release
  BY <1>3, PlanInvKept DEF PoolReturns, PoolInterrupted, Postflight, Cleanup, CleanupRefused,
                            AfterCleanup, Emit, Unhandled, Release
<1>4. CASE MainStep
  BY <1>1, <1>2, <1>3, <1>4, EarlyStepsKeepPlanInv, StagingStepsKeepPlanInv,
     PlanningKeepsPlanInv DEF MainStep
<1>5. CASE WorkerStep
  BY <1>5, PlanInvKept DEF WorkerStep, Own, Finish
<1>6. CASE InterruptPool \/ Interrupt
  BY <1>6, PlanInvKept DEF InterruptPool, Interrupt
<1>7. CASE UNCHANGED vars
  BY <1>7, PlanInvKept DEF vars
<1> QED
  BY <1>4, <1>5, <1>6, <1>7 DEF Next, Done

-----------------------------------------------------------------------------
(* The outputs that were found                                             *)

BeforeDiscovery == PlanSteps \cup {"handover", "discover"}

LEMMA InitOutputsInv == Init => OutputsInv
<1> SUFFICES ASSUME Init PROVE OutputsInv
  OBVIOUS
<1>1. DOMAIN outputs = {}
  BY NothingInside DEF Init
<1> QED
  BY <1>1 DEF OutputsInv

LEMMA OutputsInvKept ==
  ASSUME OutputsInv, UNCHANGED <<events, targets, staged, plan, outputs>>,
         pc' \in BeforeDiscovery => pc \in BeforeDiscovery
  PROVE  OutputsInv'
<1>1. NothingExpected' = NothingExpected
  BY DEF NothingExpected
<1>2. \A k : ExecutedLocally(k)' = ExecutedLocally(k)
  BY DEF ExecutedLocally
<1> QED
  BY <1>1, <1>2 DEF OutputsInv, BeforeDiscovery

\* No step of the main thread before discovery finds outputs.
LEMMA PlanningKeepsOutputsInv ==
  ASSUME OutputsInv,
         \/ Acquire \/ LoadTargets \/ LoadResources \/ ChooseSource \/ ReadBep \/ SkipBep
         \/ StageArtifacts \/ MergeStaged \/ BuildPlan \/ HandOver
  PROVE  OutputsInv'
<1>1. pc \in BeforeDiscovery /\ outputs' = outputs
  BY DEF Acquire, LoadTargets, LoadResources, ChooseSource, ReadBep, SkipBep, StageArtifacts,
         MergeStaged, BuildPlan, HandOver, work, BeforeDiscovery, PlanSteps, BeforeStaging
<1>2. DOMAIN outputs' = {}
  BY <1>1 DEF OutputsInv, BeforeDiscovery
<1> QED
  BY <1>2 DEF OutputsInv

\* discover_file_tasks: a copy of a selected key is a staged one.
LEMMA CopyOrigin ==
  ASSUME NEW local \in LocalRoots, NEW files \in [StagedKeys -> Artifacts], NEW marked,
         NEW k \in DOMAIN UsedCopies(local, files, marked)
  PROVE  /\ k \in Keys
         /\ LET copy == UsedCopies(local, files, marked)[k]
            IN  /\ copy.files \subseteq PayloadFiles
                /\ IF copy.staged
                   THEN \E p \in staged : p[2] = k /\ copy.of = {p[1]}
                   ELSE copy.of = ExecutedLocally(k) /\ \A p \in plan.selected : p[2] # k
<1> DEFINE isLocal == local[k] # NoOutput
           isStaged == k \in StagedKeys
           selected == \E p \in plan.selected : p[2] = k
           q == CHOOSE p \in staged : p[2] = k
<1>1. /\ k \in Keys /\ (isStaged \/ (isLocal /\ ~selected))
      /\ UsedCopies(local, files, marked)[k] =
           IF isStaged /\ (selected \/ ~isLocal)
           THEN StagedCopy(k, files[k], k \in marked) ELSE LocalCopy(local, k)
  BY DEF UsedCopies
<1>2. CASE isStaged /\ (selected \/ ~isLocal)
  <2>1. q \in staged /\ q[2] = k
    BY <1>2 DEF StagedKeys
  <2>2. files[k] \subseteq PayloadFiles
    BY <1>2, InvocationAssumption
  <2>3. /\ StagedCopy(k, files[k], k \in marked).staged = TRUE
        /\ StagedCopy(k, files[k], k \in marked).of = {q[1]}
        /\ StagedCopy(k, files[k], k \in marked).files = files[k]
    BY DEF StagedCopy
  <2> QED
    BY <1>1, <1>2, <2>1, <2>2, <2>3
<1>3. CASE ~(isStaged /\ (selected \/ ~isLocal))
  <2>1. /\ LocalCopy(local, k).staged = FALSE /\ LocalCopy(local, k).of = ExecutedLocally(k)
        /\ LocalCopy(local, k).files = local[k].files
    BY DEF LocalCopy
  <2>2. isLocal /\ ~selected
    BY <1>1, <1>3
  <2>3. local[k].files \subseteq PayloadFiles
    <3>1. local \in LocalTrees
      BY <1>1, <2>2 DEF LocalRoots
    <3> QED
      BY <1>1, <2>2, <3>1, InvocationAssumption
  <2> QED
    BY <1>1, <1>3, <2>1, <2>2, <2>3
<1> QED
  BY <1>2, <1>3

LEMMA DiscoveryKeepsOutputsInv ==
  ASSUME OutputsInv, Discover
  PROVE  OutputsInv'
<1>1. /\ pc' = "admit" /\ events' = events
      /\ targets' = targets /\ staged' = staged /\ plan' = plan
  BY DEF Discover, Go, inputVars, preparation
<1>2. CASE NothingExpected
  <2>1. outputs' = <<>> /\ DOMAIN outputs' = {}
    BY <1>2 DEF Discover
  <2> QED
    BY <2>1 DEF OutputsInv
<1>3. CASE ~NothingExpected
  <2>1. PICK local \in LocalRoots, files \in [StagedKeys -> Artifacts],
             marked \in SUBSET StagedKeys :
          outputs' = UsedCopies(local, files, marked)
    BY <1>3 DEF Discover
  <2>2. NothingExpected' = NothingExpected
    BY <1>1 DEF NothingExpected
  <2>3. \A k : ExecutedLocally(k)' = ExecutedLocally(k)
    BY <1>1 DEF ExecutedLocally
  <2>4. \A k \in DOMAIN outputs' :
          /\ k \in Keys
          /\ outputs'[k].files \subseteq PayloadFiles
          /\ IF outputs'[k].staged
             THEN \E p \in staged : p[2] = k /\ outputs'[k].of = {p[1]}
             ELSE outputs'[k].of = ExecutedLocally(k) /\ \A p \in plan.selected : p[2] # k
    BY <2>1, CopyOrigin
  <2> QED
    BY <1>1, <1>3, <2>2, <2>3, <2>4 DEF OutputsInv, PlanSteps, BeforeStaging
<1> QED
  BY <1>2, <1>3

LEMMA NextKeepsOutputsInv == OutputsInv /\ [Next]_vars => OutputsInv'
<1> SUFFICES ASSUME OutputsInv, [Next]_vars PROVE OutputsInv'
  OBVIOUS
<1> USE DEF BeforeDiscovery, PlanSteps, BeforeStaging, inputVars, preparation, work
<1>1. CASE \/ AcquireRefused \/ RefuseTargets \/ RefuseResources \/ RefuseSource \/ RefuseBep
           \/ StagingFailed \/ RefuseMerge \/ RefusePlan \/ DiscoverNothing
           \/ RefuseAdmission \/ PrepareFails \/ PoolFails
  BY <1>1, FailureShape, OutputsInvKept DEF Fail
<1>2. CASE Admit \/ Prepare
  BY <1>2, OutputsInvKept DEF Admit, Prepare, Go
<1>3. CASE \/ PoolReturns \/ PoolInterrupted \/ Postflight \/ Cleanup \/ CleanupRefused
           \/ Emit \/ Unhandled \/ Release
  BY <1>3, OutputsInvKept DEF PoolReturns, PoolInterrupted, Postflight, Cleanup,
                              CleanupRefused, AfterCleanup, Emit, Unhandled, Release
<1>4. CASE MainStep
  BY <1>1, <1>2, <1>3, <1>4, PlanningKeepsOutputsInv, DiscoveryKeepsOutputsInv DEF MainStep
<1>5. CASE WorkerStep
  BY <1>5, OutputsInvKept DEF WorkerStep, Own, Finish
<1>6. CASE InterruptPool \/ Interrupt
  BY <1>6, OutputsInvKept DEF InterruptPool, Interrupt
<1>7. CASE UNCHANGED vars
  BY <1>7, OutputsInvKept DEF vars
<1> QED
  BY <1>4, <1>5, <1>6, <1>7 DEF Next, Done

-----------------------------------------------------------------------------
(* The tasks and their files                                               *)

LEMMA InitFilesInv == Init => FilesInv
<1> SUFFICES ASSUME Init PROVE FilesInv
  OBVIOUS
<1>1. DOMAIN file = {} /\ DOMAIN tasks = {}
  BY NothingInside DEF Init
<1> QED
  BY <1>1 DEF Init, FilesInv, FilteredSteps

\* What the filter did depends on nothing that later steps change.
LEMMA FilteredKept ==
  ASSUME UNCHANGED <<cfg, targets, plan, outputs, tasks>>, DOMAIN file' = DOMAIN file
  PROVE  Filtered' = Filtered
<1>1. Selection' = Selection
  BY DEF Selection
<1>2. \A k : LabelOf(k)' = LabelOf(k)
  BY <1>1 DEF LabelOf
<1>3. \A k : Verdict(k)' = Verdict(k) /\ Candidate(k)' = Candidate(k)
  BY <1>1, <1>2 DEF Verdict, Candidate
<1>4. \A v : OutputsWith(v)' = OutputsWith(v)
  BY <1>3 DEF OutputsWith
<1>5. FilterFails' = FilterFails /\ Admitted' = Admitted
  BY <1>4 DEF FilterFails, Admitted
<1>6. FilesIn(Admitted)' = FilesIn(Admitted)
  BY <1>5 DEF FilesIn
<1> QED
  BY <1>2, <1>5, <1>6 DEF Filtered

\* The steps of the main thread that touch neither tasks nor files, and lead
\* to no point that promises more of them.
LEMMA FilesInvKept ==
  ASSUME FilesInv, UNCHANGED <<cfg, targets, plan, outputs, tasks, file>>,
         pc' \in PreflightSteps => pc' = pc,
         pc' \in FilteredSteps \/ completed' => pc \in FilteredSteps \/ completed
  PROVE  FilesInv'
<1>1. Filtered' = Filtered
  BY FilteredKept
<1> QED
  BY <1>1 DEF FilesInv

\* Before the filter there are no tasks.
LEMMA PreflightKeepsFilesInv ==
  ASSUME FilesInv, ExitInv,
         \/ Acquire \/ LoadTargets \/ LoadResources \/ ChooseSource \/ ReadBep \/ SkipBep
         \/ StageArtifacts \/ MergeStaged \/ BuildPlan \/ HandOver \/ Discover
  PROVE  FilesInv'
<1>1. /\ pc \in PreflightSteps \ {"prepare"}
      /\ pc' \notin FilteredSteps
      /\ file' = file /\ tasks' = tasks /\ completed' = completed
  BY DEF Acquire, LoadTargets, LoadResources, ChooseSource, ReadBep, SkipBep, StageArtifacts,
         MergeStaged, BuildPlan, HandOver, Discover, Go, work, outcome, result, PreflightSteps,
         FilteredSteps
<1>2. DOMAIN file = {} /\ DOMAIN tasks = {} /\ ~completed
  BY <1>1 DEF FilesInv, ExitInv, Undecided
<1> QED
  BY <1>1, <1>2 DEF FilesInv

LEMMA AdmitKeepsFilesInv ==
  ASSUME FilesInv, Admit
  PROVE  FilesInv'
<1>1. /\ ~FilterFails /\ pc' = "prepare"
      /\ UNCHANGED <<cfg, targets, plan, outputs>>
      /\ tasks' = [t \in FilesIn(Admitted) |-> LabelOf(t[1])]
      /\ file' = [t \in FilesIn(Admitted) |-> "untouched"]
  BY DEF Admit, AdmitFails, Go, inputVars, preparation
<1>2. Selection' = Selection
  BY <1>1 DEF Selection
<1>3. \A k : LabelOf(k)' = LabelOf(k)
  BY <1>1, <1>2 DEF LabelOf
<1>4. \A k : Verdict(k)' = Verdict(k) /\ Candidate(k)' = Candidate(k)
  BY <1>1, <1>2, <1>3 DEF Verdict, Candidate
<1>5. \A v : OutputsWith(v)' = OutputsWith(v)
  BY <1>1, <1>4 DEF OutputsWith
<1>6. FilterFails' = FilterFails /\ Admitted' = Admitted
  BY <1>1, <1>5 DEF FilterFails, Admitted
<1>7. FilesIn(Admitted)' = FilesIn(Admitted)
  BY <1>1, <1>6 DEF FilesIn
<1>8. Filtered'
  BY <1>1, <1>3, <1>6, <1>7 DEF Filtered
<1> QED
  BY <1>1, <1>8 DEF FilesInv

LEMMA WorkersKeepFilesInv ==
  ASSUME FilesInv, WorkerStep
  PROVE  FilesInv'
<1>1. PICK k \in DOMAIN file : Own(k) \/ Finish(k)
  BY DEF WorkerStep
<1>2. UNCHANGED <<cfg, targets, plan, outputs, tasks, pc, completed>>
  BY <1>1 DEF Own, Finish, inputVars, preparation, outcome, result
<1>3. PICK v \in {"owned"} \cup FileResults : file' = [file EXCEPT ![k] = v]
  BY <1>1 DEF Own, Finish
<1>4. DOMAIN file' = DOMAIN file
  BY <1>3
<1>5. Filtered' = Filtered
  BY <1>2, <1>4, FilteredKept
<1>6. \A j \in DOMAIN file' : file'[j] \in {"untouched", "owned"} \cup FileResults
  BY <1>3, <1>4 DEF FilesInv
<1> QED
  BY <1>2, <1>4, <1>5, <1>6 DEF FilesInv

LEMMA NextKeepsFilesInv == FilesInv /\ ExitInv /\ [Next]_vars => FilesInv'
<1> SUFFICES ASSUME FilesInv, ExitInv, [Next]_vars PROVE FilesInv'
  OBVIOUS
<1> USE DEF PreflightSteps, FilteredSteps, inputVars, preparation, work, outcome, result
<1>1. CASE \/ AcquireRefused \/ RefuseTargets \/ RefuseResources \/ RefuseSource \/ RefuseBep
           \/ StagingFailed \/ RefuseMerge \/ RefusePlan \/ DiscoverNothing
           \/ RefuseAdmission \/ PrepareFails \/ PoolFails
  BY <1>1, FailureShape, FilesInvKept DEF Fail
<1>2. CASE Prepare
  BY <1>2, FilesInvKept DEF Prepare, Go
<1>3. CASE \/ PoolReturns \/ PoolInterrupted \/ Postflight \/ Cleanup \/ CleanupRefused
           \/ Emit \/ Unhandled \/ Release
  <2>1. UNCHANGED <<cfg, targets, plan, outputs, tasks, file>>
    BY <1>3 DEF PoolReturns, PoolInterrupted, Postflight, Cleanup, CleanupRefused, Emit,
                Unhandled, Release
  <2>2. CASE PoolReturns \/ PoolInterrupted \/ Postflight
    <3>1. pc \in FilteredSteps /\ pc' \notin PreflightSteps
      BY <2>2 DEF PoolReturns, PoolInterrupted, Postflight
    <3> QED
      BY <2>1, <3>1, FilesInvKept
  <2>3. CASE Cleanup \/ CleanupRefused \/ Emit \/ Unhandled \/ Release
    <3>1. pc' \in {"cleanup", "emit", "release", "done"} /\ completed' = completed
      BY <2>3 DEF Cleanup, CleanupRefused, AfterCleanup, Emit, Unhandled, Release
    <3> QED
      BY <2>1, <3>1, FilesInvKept
  <2> QED
    BY <1>3, <2>2, <2>3
<1>4. CASE MainStep
  BY <1>1, <1>2, <1>3, <1>4, PreflightKeepsFilesInv, AdmitKeepsFilesInv DEF MainStep
<1>5. CASE InterruptPool \/ Interrupt
  <2>1. UNCHANGED <<cfg, targets, plan, outputs, tasks, file>>
    BY <1>5 DEF InterruptPool, Interrupt
  <2>2. /\ pc' \notin PreflightSteps /\ completed' = completed
        /\ pc' \in FilteredSteps => pc \in FilteredSteps
    BY <1>5 DEF InterruptPool, Interrupt
  <2> QED
    BY <2>1, <2>2, FilesInvKept
<1>6. CASE UNCHANGED vars
  BY <1>6, FilesInvKept DEF vars
<1> QED
  BY <1>4, <1>5, <1>6, WorkersKeepFilesInv DEF Next, Done

-----------------------------------------------------------------------------
(* The exit code                                                           *)

LEMMA InitExitInv == Init => ExitInv
<1> SUFFICES ASSUME Init PROVE ExitInv
  OBVIOUS
<1>1. /\ pc = "start" /\ exit = 1000 /\ completed = FALSE /\ interrupts = 0
      /\ escaped = 0
  BY DEF Init, NoExit
<1> QED
  BY <1>1 DEF ExitInv, NoExit, Undecided, PreflightSteps

\* What the checks after the workers look at does not change any more.
LEMMA AccountingKept ==
  ASSUME UNCHANGED <<cfg, targets, plan, tasks, file>>
  PROVE  Settled' = Settled /\ AccountedFor' = AccountedFor
<1>1. \A states : InFile(states)' = InFile(states)
  BY DEF InFile
<1>2. Handled' = Handled
  BY <1>1 DEF Handled
<1> QED
  BY <1>1, <1>2 DEF Settled, AccountedFor

LEMMA AccountingCodes ==
  ASSUME NEW P, NEW T, NEW F, NEW H
  PROVE  AccountingError(P, T, F, H) \in {0, 1, 2}
BY DEF AccountingError

\* A file is one of an output that was admitted.
LEMMA FilesHavePayloads ==
  ASSUME FilesInv, NEW t \in DOMAIN file
  PROVE  /\ Filtered /\ t[1] \in DOMAIN outputs /\ t[1] \in DOMAIN Selection
         /\ t \in FilesIn(DOMAIN outputs)
         /\ Verdict(t[1]) = "take" /\ tasks[t] = LabelOf(t[1])
<1>1. Filtered
  BY DEF FilesInv
<1>2. PICK k \in Admitted : \E f \in outputs[k].files : t = <<k, f>>
  BY <1>1 DEF Filtered, FilesIn
<1>3. /\ k \in DOMAIN outputs /\ k \in DOMAIN Selection
      /\ Verdict(k) = "take" /\ t[1] = k
  BY <1>2 DEF Admitted, OutputsWith, Candidate
<1>4. t \in FilesIn(DOMAIN outputs)
  BY <1>2, <1>3 DEF FilesIn
<1> QED
  BY <1>1, <1>3, <1>4 DEF Filtered

\* The checks after the workers keep 130, and never turn a failure into 0.
LEMMA VerifiedExit ==
  ASSUME ExitInv, FilesInv, pc = "postflight", NEW testsRan \in BOOLEAN
  PROVE  /\ exit = 130 => Verified(testsRan).exit = 130
         /\ exit # 130 => Verified(testsRan).exit \in {0, 1, 2}
         /\ Verified(testsRan).exit = 0 => exit = 0 /\ AccountedFor
<1> DEFINE error == AccountingError(plan, targets, cfg.failOnError, Handled)
<1>1. error \in {0, 1, 2}
  BY AccountingCodes
<1>2. Accounted.exit = IF exit = 130 \/ error = 0 THEN exit ELSE error
  BY DEF Accounted
<1>3. /\ exit = 0 \/ exit = 1 \/ exit = 130
      /\ exit = 130 => DOMAIN file # {}
  BY DEF ExitInv
<1>4. AccountedFor <=> error = 0
  BY DEF AccountedFor
<1> HIDE DEF error
<1>5. \/ Verified(testsRan).exit = Accounted.exit
      \/ Verified(testsRan).exit = 1 /\ NoTasks
  <2>1. [Accounted EXCEPT !.reason = "ok"].exit = Accounted.exit
    BY DEF Accounted
  <2> QED
    BY <2>1 DEF Verified
<1>6. exit = 130 => ~NoTasks
  BY <1>3, FilesHavePayloads DEF NoTasks
<1> QED
  BY <1>1, <1>2, <1>3, <1>4, <1>5, <1>6

LEMMA PreflightKeepsExitInv ==
  ASSUME ExitInv, pc \in PreflightSteps, pc' \in PreflightSteps \cup {"work"},
         UNCHANGED <<outcome, interrupts>>
  PROVE  ExitInv'
BY DEF ExitInv, NoExit, outcome, result, Undecided, PreflightSteps

LEMMA FailKeepsExitInv ==
  ASSUME ExitInv, NEW remoteOnly \in BOOLEAN, Fail(remoteOnly),
         pc \in PreflightSteps \cup {"work"}
  PROVE  ExitInv'
BY DEF ExitInv, Fail, NoExit, Undecided, PreflightSteps

LEMMA PoolKeepsExitInv ==
  ASSUME ExitInv, WorkInv, PoolReturns \/ InterruptPool \/ PoolInterrupted
  PROVE  ExitInv'
<1> USE DEF ExitInv, Undecided, PreflightSteps, NoExit
<1>1. file' = file /\ \A states : InFile(states)' = InFile(states)
  BY DEF PoolReturns, InterruptPool, PoolInterrupted, work, InFile
<1>2. CASE PoolReturns
  <2>1. /\ pc = "work" /\ pc' = "postflight" /\ completed' = TRUE
        /\ interrupts' = interrupts /\ escaped' = escaped
        /\ InFile({"untouched", "owned"}) = {}
        /\ exit' = IF InFile(FailedStatuses) # {} THEN 1 ELSE 0
    BY <1>2 DEF PoolReturns
  <2>2. exit' = 0 => Settled'
    BY <1>1, <2>1 DEF Settled, InFile
  <2> QED
    BY <1>1, <2>1, <2>2
<1>3. CASE InterruptPool
  <2>1. /\ pc = "work" /\ pc' = "draining" /\ DOMAIN file # {}
        /\ exit' = exit /\ completed' = completed /\ escaped' = escaped
    BY <1>3 DEF InterruptPool, outcome, result
  <2> QED
    BY <1>1, <2>1
<1>4. CASE PoolInterrupted
  <2>1. /\ pc = "draining" /\ pc' = "postflight" /\ completed' = TRUE
        /\ exit' = 130 /\ interrupts' = interrupts /\ escaped' = escaped
    BY <1>4 DEF PoolInterrupted
  <2>2. interrupts > 0
    BY <2>1 DEF WorkInv
  <2> QED
    BY <1>1, <2>1, <2>2
<1> QED
  BY <1>2, <1>3, <1>4

LEMMA PostflightKeepsExitInv ==
  ASSUME ExitInv, FilesInv, Postflight
  PROVE  ExitInv'
<1>1. PICK testsRan \in BOOLEAN : exit' = Verified(testsRan).exit
  BY DEF Postflight
<1>2. /\ pc = "postflight" /\ pc' = "cleanup" /\ completed' = completed
      /\ interrupts' = interrupts /\ escaped' = escaped
      /\ UNCHANGED <<cfg, targets, plan, tasks, file>>
  BY DEF Postflight, inputVars, preparation, work
<1>3. Settled' = Settled /\ AccountedFor' = AccountedFor
  BY <1>2, AccountingKept
<1>4. /\ exit = 130 => exit' = 130
      /\ exit # 130 => exit' \in {0, 1, 2}
      /\ exit' = 0 => exit = 0 /\ AccountedFor
  BY <1>1, <1>2, VerifiedExit
<1> QED
  BY <1>2, <1>3, <1>4 DEF ExitInv, Undecided, PreflightSteps, NoExit

\* An error in flight comes without a report, one after the report with it.
LEMMA LastStepsKeepExitInv ==
  ASSUME ExitInv, ReportInv, Cleanup \/ CleanupRefused \/ Emit \/ Release
  PROVE  ExitInv'
<1>1. /\ pc \in {"cleanup", "emit", "release"}
      /\ pc' \in {"emit", "release", "done"} /\ completed' = completed
      /\ interrupts' = interrupts /\ escaped' = escaped
      /\ exit' = exit \/ (exit \in {0, NoExit} /\ exit' = 2)
      /\ reported' = reported \/ (pc = "emit" /\ reported')
  BY DEF Cleanup, CleanupRefused, AfterCleanup, Emit, WriteReport, Release, outcome, result
<1>2. UNCHANGED <<cfg, targets, plan, tasks, file>>
  BY DEF Cleanup, CleanupRefused, Emit, Release, inputVars, preparation, work
<1>3. Settled' = Settled /\ AccountedFor' = AccountedFor
  BY <1>2, AccountingKept
<1>4. pc = "emit" => escaped = 0
  BY DEF ReportInv
<1> QED
  BY <1>1, <1>3, <1>4 DEF ExitInv, Undecided, PreflightSteps, NoExit

\* A worker still at work contradicts exit code 0, and never unmakes a failure.
LEMMA WorkersKeepExitInv ==
  ASSUME ExitInv, FilesInv, WorkerStep
  PROVE  ExitInv'
<1>1. PICK k \in DOMAIN file : Own(k) \/ Finish(k)
  BY DEF WorkerStep
<1>2. UNCHANGED <<pc, exit, escaped, completed, interrupts>>
  BY <1>1 DEF Own, Finish, outcome, result
<1>3. /\ file[k] \in {"untouched", "owned"}
      /\ \E v \in {"owned"} \cup FileResults : file' = [file EXCEPT ![k] = v]
  BY <1>1 DEF Own, Finish
<1>4. exit # 0
  <2>1. ~Settled
    BY <1>3 DEF Settled, InFile
  <2> QED
    BY <2>1 DEF ExitInv
<1>5. DOMAIN file' = DOMAIN file
  BY <1>3
<1>6. \A j \in DOMAIN file : file[j] \in FailedStatuses => file'[j] = file[j]
  BY <1>3 DEF FailedStatuses
<1>7. InFile(FailedStatuses) # {} => InFile(FailedStatuses)' # {}
  BY <1>5, <1>6 DEF InFile
<1> QED
  BY <1>2, <1>4, <1>5, <1>7 DEF ExitInv

\* Errors that leave the invocation change no exit code of a report.
LEMMA EscapesKeepExitInv ==
  ASSUME ExitInv, ReportInv, WorkInv, Interrupt \/ Unhandled
  PROVE  ExitInv'
<1>1. /\ UNCHANGED <<exit, completed, reported, cfg, targets, plan, tasks, file>>
      /\ pc' \in {"cleanup", "release", "done"}
      /\ \/ escaped' = 1 /\ interrupts' = interrupts
         \/ escaped' \in {1, 130} /\ interrupts' = interrupts + 1
  BY InterruptShape, UnhandledShape DEF inputVars, preparation, work, result
<1>2. escaped' # 0 /\ (escaped' = 130 => interrupts' > 0) /\ (interrupts > 0 => interrupts' > 0)
  BY <1>1 DEF WorkInv
<1>3. Settled' = Settled /\ AccountedFor' = AccountedFor
  BY <1>1, AccountingKept
<1>4. reported => pc # "postflight"
  BY DEF ReportInv
<1> QED
  BY <1>1, <1>2, <1>3, <1>4 DEF ExitInv, Undecided, PreflightSteps, NoExit

LEMMA NextKeepsExitInv ==
  WorkInv /\ FilesInv /\ ExitInv /\ ReportInv /\ [Next]_vars => ExitInv'
<1> SUFFICES ASSUME WorkInv, FilesInv, ExitInv, ReportInv, [Next]_vars PROVE ExitInv'
  OBVIOUS
<1>1. CASE \/ AcquireRefused \/ RefuseTargets \/ RefuseResources \/ RefuseSource \/ RefuseBep
           \/ StagingFailed \/ RefuseMerge \/ RefusePlan \/ DiscoverNothing
           \/ RefuseAdmission \/ PrepareFails \/ PoolFails
  BY <1>1, FailureShape, FailKeepsExitInv
<1>2. CASE \/ Acquire \/ LoadTargets \/ LoadResources \/ ChooseSource \/ ReadBep \/ SkipBep
           \/ StageArtifacts \/ MergeStaged \/ BuildPlan \/ HandOver
           \/ Discover \/ Admit \/ Prepare
  BY <1>2, PreflightShape, PreflightKeepsExitInv
<1>3. CASE MainStep
  BY <1>1, <1>2, <1>3, PoolKeepsExitInv, PostflightKeepsExitInv, LastStepsKeepExitInv,
     EscapesKeepExitInv DEF MainStep
<1>4. CASE UNCHANGED vars
  <2>1. UNCHANGED <<pc, exit, escaped, completed, reported, interrupts, cfg, targets, plan,
                    tasks, file>>
    BY <1>4 DEF vars, inputVars, preparation, work, outcome, result
  <2>2. Settled' = Settled /\ AccountedFor' = AccountedFor
    BY <2>1, AccountingKept
  <2>3. InFile(FailedStatuses)' = InFile(FailedStatuses)
    BY <2>1 DEF InFile
  <2> QED
    BY <2>1, <2>2, <2>3 DEF ExitInv
<1> QED
  BY <1>3, <1>4, PoolKeepsExitInv, WorkersKeepExitInv, EscapesKeepExitInv DEF Next, Done

-----------------------------------------------------------------------------
(* The report                                                              *)

LEMMA InitReportInv == Init => ReportInv
<1> SUFFICES ASSUME Init PROVE ReportInv
  OBVIOUS
<1>1. pc = "start" /\ exit = NoExit /\ report = EmptyReport /\ ~completed /\ ~reported
  BY DEF Init
<1> QED
  BY <1>1 DEF ReportInv

LEMMA CountedKept ==
  ASSUME UNCHANGED <<file, report>>
  PROVE  Counted' = Counted
BY DEF Counted, InFile, Owned

\* Steps that change nothing of the outcome, before it is decided.
LEMMA DecidingKeepsReportInv ==
  ASSUME ReportInv, ExitInv, UNCHANGED outcome, pc \in Undecided, pc' \in Undecided
  PROVE  ReportInv'
<1>1. exit = NoExit /\ ~completed
  BY DEF ExitInv
<1>2. UNCHANGED <<exit, report, completed, reported>>
  BY DEF outcome, result
<1>3. ~reported
  BY DEF ReportInv, Undecided, PreflightSteps
<1> QED
  BY <1>1, <1>2, <1>3 DEF ReportInv, Undecided, PreflightSteps

LEMMA FailKeepsReportInv ==
  ASSUME ReportInv, ExitInv, NEW remoteOnly \in BOOLEAN, Fail(remoteOnly),
         pc \in PreflightSteps \cup {"work"}
  PROVE  ReportInv'
<1>1. ~completed /\ report = EmptyReport /\ ~reported
  BY DEF ExitInv, ReportInv, Undecided, PreflightSteps
<1>2. /\ pc' = "cleanup" /\ exit' = 2 /\ report' = report
      /\ completed' = completed /\ reported' = reported
  BY DEF Fail
<1> QED
  BY <1>1, <1>2 DEF ReportInv

LEMMA FilesAreFinite ==
  ASSUME OutputsInv
  PROVE  /\ IsFiniteSet(DOMAIN outputs)
         /\ \A keys : keys \subseteq DOMAIN outputs => IsFiniteSet(FilesIn(keys))
         /\ FilesInv => IsFiniteSet(DOMAIN file)
<1>1. IsFiniteSet(DOMAIN outputs)
  BY FS_Subset, InvocationAssumption DEF OutputsInv
<1>2. IsFiniteSet(Keys \X PayloadFiles)
  BY FS_Product, InvocationAssumption
<1>3. FilesIn(DOMAIN outputs) \subseteq Keys \X PayloadFiles
  BY DEF OutputsInv, FilesIn
<1>4. ASSUME NEW keys, keys \subseteq DOMAIN outputs PROVE IsFiniteSet(FilesIn(keys))
  <2>1. FilesIn(keys) \subseteq FilesIn(DOMAIN outputs)
    BY <1>4 DEF FilesIn
  <2>2. FilesIn(keys) \subseteq Keys \X PayloadFiles
    BY <1>3, <2>1
  <2> QED
    BY <1>2, <2>2, FS_Subset
<1>5. FilesInv => IsFiniteSet(DOMAIN file)
  <2>1. FilesInv => DOMAIN file \subseteq FilesIn(DOMAIN outputs)
    BY FilesHavePayloads
  <2> QED
    BY <1>4, <2>1, FS_Subset
<1> QED
  BY <1>1, <1>4, <1>5

\* The pool returns, interrupted or not, when no file is owned any more.
LEMMA ReturnedIsCounted ==
  ASSUME OutputsInv, FilesInv, PoolReturns
  PROVE  Counted'
<1>1. /\ file' = file /\ InFile({"untouched", "owned"}) = {}
      /\ report' = Aggregate(file, 0)
  BY DEF PoolReturns, work
<1>2. InFile(FileResults) = DOMAIN file
  BY <1>1 DEF InFile, FilesInv
<1>3. Owned = {} /\ Owned' = Owned /\ InFile(FileResults)' = InFile(FileResults)
  BY <1>1 DEF InFile, Owned
<1>4. report'.results = file /\ report'.cancelled = 0
  BY <1>1 DEF Aggregate
<1>5. Cardinality(DOMAIN file) - Cardinality(DOMAIN file) = 0
  BY FilesAreFinite, FS_CardinalityType
<1> QED
  BY <1>1, <1>2, <1>3, <1>4, <1>5 DEF Counted

LEMMA InterruptedIsCounted ==
  ASSUME PoolInterrupted
  PROVE  Counted'
<1> DEFINE done == InFile(FileResults)
<1>1. /\ file' = file /\ InFile({"owned"}) = {}
      /\ report' = Aggregate([k \in done |-> file[k]],
                             Cardinality(DOMAIN file) - Cardinality(done))
  BY DEF PoolInterrupted, CollectInterrupted, work
<1>2. /\ report'.results = [k \in done |-> file[k]]
      /\ report'.cancelled = Cardinality(DOMAIN file) - Cardinality(done)
  BY <1>1 DEF Aggregate
<1>3. Owned' = {} /\ done' = done
  BY <1>1 DEF InFile, Owned
<1> HIDE DEF done
<1>4. DOMAIN report'.results = done'
  BY <1>2, <1>3
<1>5. \A k \in DOMAIN report'.results : report'.results[k] = file'[k]
  BY <1>1, <1>2
<1> QED
  BY <1>1, <1>2, <1>3, <1>4, <1>5 DEF Counted, done

LEMMA PoolKeepsReportInv ==
  ASSUME ReportInv, OutputsInv, FilesInv, PoolReturns \/ PoolInterrupted
  PROVE  ReportInv'
<1>1. /\ pc' = "postflight" /\ completed' = TRUE /\ reported' = reported
      /\ pc \in {"work", "draining"}
  BY DEF PoolReturns, PoolInterrupted
<1>2. Counted'
  BY ReturnedIsCounted, InterruptedIsCounted
<1> QED
  BY <1>1, <1>2 DEF ReportInv

LEMMA PostflightKeepsReportInv ==
  ASSUME ReportInv, ExitInv, Postflight
  PROVE  ReportInv'
<1>1. /\ pc = "postflight" /\ pc' = "cleanup"
      /\ completed' = completed /\ reported' = reported
  BY DEF Postflight
<1>2. Counted' = Counted
  BY CountedKept DEF Postflight, work
<1>3. completed /\ ~reported
  BY <1>1 DEF ExitInv, ReportInv
<1> QED
  BY <1>1, <1>2, <1>3 DEF ReportInv

LEMMA CleanupKeepsReportInv ==
  ASSUME ReportInv, ExitInv, Cleanup \/ CleanupRefused
  PROVE  ReportInv'
<1>1. /\ pc = "cleanup" /\ pc' = IF escaped # 0 THEN "release" ELSE "emit"
      /\ completed' = completed /\ reported' = reported /\ report' = report
      /\ escaped' = escaped /\ exit' \in {exit, 2}
  BY DEF Cleanup, CleanupRefused, AfterCleanup, outcome, result
<1>2. Counted' = Counted
  BY <1>1, CountedKept DEF Cleanup, CleanupRefused, work
<1>3. ~reported
  BY <1>1 DEF ReportInv
<1> QED
  BY <1>1, <1>2, <1>3 DEF ReportInv, NoExit

LEMMA EndKeepsReportInv ==
  ASSUME ReportInv, ExitInv, Emit \/ Release
  PROVE  ReportInv'
<1>1. UNCHANGED <<completed, report, exit, escaped>>
  BY DEF Emit, Release, outcome, result
<1>2. Counted' = Counted
  BY <1>1, CountedKept DEF Emit, Release, work
<1>3. CASE Emit
  <2>1. pc = "emit" /\ pc' = "release" /\ reported' = TRUE
    BY <1>3 DEF Emit, WriteReport
  <2>2. escaped = 0 /\ exit # NoExit
    BY <2>1 DEF ExitInv, ReportInv, Undecided, PreflightSteps
  <2> QED
    BY <1>1, <1>2, <2>1, <2>2 DEF ReportInv
<1>4. CASE Release
  <2>1. pc = "release" /\ pc' = "done" /\ reported' = reported
    BY <1>4 DEF Release, outcome, result
  <2> QED
    BY <1>1, <1>2, <2>1 DEF ReportInv
<1> QED
  BY <1>3, <1>4

\* Once the results are in the report no worker is left.
LEMMA WorkersKeepReportInv ==
  ASSUME ReportInv, ExitInv, WorkerStep
  PROVE  ReportInv'
<1>1. PICK k \in DOMAIN file : Own(k) \/ Finish(k)
  BY DEF WorkerStep
<1>2. UNCHANGED <<pc, exit, escaped, report, completed, reported>>
  BY <1>1 DEF Own, Finish, outcome, result
<1>3. pc = "work" \/ Owned # {}
  BY <1>1 DEF Own, Finish, Owned, InFile
<1>4. ~completed
  BY <1>3 DEF ReportInv, ExitInv, Undecided, Counted
<1> QED
  BY <1>2, <1>4 DEF ReportInv

\* An error that is not controlled comes before the report, or is Ctrl-C.
LEMMA EscapesKeepReportInv ==
  ASSUME ReportInv, ExitInv, Interrupt \/ Unhandled
  PROVE  ReportInv'
<1>1. UNCHANGED <<exit, report, completed, reported, file>>
  BY InterruptShape, UnhandledShape DEF work, result
<1>2. Counted' = Counted
  BY <1>1, CountedKept
<1>3. /\ pc' \in {"cleanup", "release", "done"} /\ escaped' \in {1, 130}
      /\ pc \in {"release", "done"} => pc' = "done" /\ pc = "release"
  BY InterruptShape, UnhandledShape DEF PreflightSteps
<1>4. pc = "release" => escaped' = 130
  BY UnhandledShape DEF Interrupt
<1> QED
  BY <1>1, <1>2, <1>3, <1>4 DEF ReportInv

LEMMA NextKeepsReportInv ==
  OutputsInv /\ FilesInv /\ ExitInv /\ ReportInv /\ [Next]_vars => ReportInv'
<1> SUFFICES ASSUME OutputsInv, FilesInv, ExitInv, ReportInv, [Next]_vars PROVE ReportInv'
  OBVIOUS
<1>1. CASE \/ AcquireRefused \/ RefuseTargets \/ RefuseResources \/ RefuseSource \/ RefuseBep
           \/ StagingFailed \/ RefuseMerge \/ RefusePlan \/ DiscoverNothing
           \/ RefuseAdmission \/ PrepareFails \/ PoolFails
  BY <1>1, FailureShape, FailKeepsReportInv
<1>2. CASE \/ Acquire \/ LoadTargets \/ LoadResources \/ ChooseSource \/ ReadBep \/ SkipBep
           \/ StageArtifacts \/ MergeStaged \/ BuildPlan \/ HandOver
           \/ Discover \/ Admit \/ Prepare
  BY <1>2, PreflightShape, DecidingKeepsReportInv DEF Undecided
<1>3. CASE MainStep
  BY <1>1, <1>2, <1>3, PoolKeepsReportInv, PostflightKeepsReportInv, CleanupKeepsReportInv,
     EndKeepsReportInv, EscapesKeepReportInv DEF MainStep
<1>4. CASE InterruptPool
  <2>1. UNCHANGED outcome /\ pc = "work" /\ pc' = "draining"
    BY <1>4 DEF InterruptPool
  <2> QED
    BY <2>1, DecidingKeepsReportInv DEF Undecided
<1>5. CASE UNCHANGED vars
  <2>1. UNCHANGED <<pc, exit, escaped, report, completed, reported, file>>
    BY <1>5 DEF vars, work, outcome, result
  <2>2. Counted' = Counted
    BY <2>1, CountedKept
  <2> QED
    BY <2>1, <2>2 DEF ReportInv
<1> QED
  BY <1>3, <1>4, <1>5, WorkersKeepReportInv, EscapesKeepReportInv DEF Next, Done

-----------------------------------------------------------------------------
(* The reason                                                              *)

LEMMA InitReasonInv == Init => ReasonInv
<1> SUFFICES ASSUME Init PROVE ReasonInv
  OBVIOUS
<1>1. pc = "start" /\ reason = "none" /\ ~reported
  BY DEF Init
<1>2. exit # 0 /\ exit # 130
  BY DEF Init, NoExit
<1> QED
  BY <1>1, <1>2 DEF ReasonInv, Claims, LateReasons, GoodReasons, NothingFound, Undecided,
              PreflightSteps

\* Claims stay true as long as nothing they speak of changes.
LEMMA ClaimsKept ==
  ASSUME Claims, UNCHANGED <<reason, exit, completed, events, targets, plan, outputs, tasks, file>>,
         undeleted => undeleted'
  PROVE  Claims'
<1>1. \A states : InFile(states)' = InFile(states)
  BY DEF InFile
<1>2. Handled' = Handled
  BY <1>1 DEF Handled
<1>3. Unaccounted' = Unaccounted /\ Settled' = Settled
  BY <1>1, <1>2 DEF Unaccounted, Settled
<1>4. NoTasks' = NoTasks
  BY DEF NoTasks, FilesIn
<1>5. KeptRemotely' = KeptRemotely
  BY DEF KeptRemotely
<1> QED
  BY <1>1, <1>3, <1>4, <1>5 DEF Claims

PreflightReasons ==
  {"missing_bep_json", "bep_output_remote_only_without_downloader",
   "target_cached_by_bazel", "upload_failed_unknown"}

\* A reason is guessed from what the plan or the message says.
LEMMA FailureReasons ==
  ASSUME NEW remoteOnly \in BOOLEAN
  PROVE  /\ PreflightReason(remoteOnly) \in PreflightReasons
         /\ PreflightReason(remoteOnly) = "bep_output_remote_only_without_downloader" =>
              plan.remote # {} \/ remoteOnly
         /\ PreflightReason(remoteOnly) = "target_cached_by_bazel" =>
              plan.cached # {} /\ ~remoteOnly
BY DEF PreflightReason, PreflightReasons

\* A failure whose message may speak of remote-only outputs knows of one.
LEMMA RemoteFailures ==
  ASSUME PlanInv,
         \/ AcquireRefused \/ RefuseTargets \/ RefuseResources \/ RefuseSource \/ RefuseBep
         \/ StagingFailed \/ RefuseMerge \/ RefusePlan \/ DiscoverNothing
         \/ RefuseAdmission \/ PrepareFails \/ PoolFails
  PROVE  \E remoteOnly \in BOOLEAN : Fail(remoteOnly) /\ (remoteOnly => KeptRemotely)
<1>1. CASE StagingFailed
  <2>1. PICK remoteOnly \in BOOLEAN :
          /\ remoteOnly => \E r \in facts.refs : r.remote /\ ~r.cached
          /\ Fail(remoteOnly)
    BY <1>1 DEF StagingFailed, FailKeeping
  <2>2. facts.refs = References(events)
    BY <1>1 DEF StagingFailed, PlanInv, ParseBep
  <2>3. (\E r \in References(events) : r.remote /\ ~r.cached) => KeptRemotely
    BY DEF References, KeptRemotely
  <2> QED
    BY <2>1, <2>2, <2>3
<1>2. CASE RefusePlan
  <2>1. PlanFails /\ Fail(Source # "execution_log")
    BY <1>2 DEF RefusePlan
  <2>2. NewPlan.remote \subseteq facts.remote
    BY DEF NewPlan, LogPlan, EmptyPlan, BepPlan, Expected
  <2>3. Source # "execution_log" => KeptRemotely
    BY <2>1, <2>2 DEF PlanFails, PlanRefused, PlanInv
  <2> QED
    BY <2>1, <2>3
<1>3. CASE \/ AcquireRefused \/ RefuseTargets \/ RefuseResources \/ RefuseSource
           \/ RefuseBep \/ RefuseMerge \/ DiscoverNothing \/ RefuseAdmission \/ PrepareFails
           \/ PoolFails
  <2>1. Fail(FALSE)
    BY <1>3 DEF AcquireRefused, RefuseTargets, RefuseResources, RefuseSource, RefuseBep,
                RefuseMerge, DiscoverNothing, RefuseAdmission, PrepareFails, PoolFails,
                FailKeeping
  <2> QED
    BY <2>1
<1> QED
  BY <1>1, <1>2, <1>3

\* A target of which nothing is expected needs no file.
LEMMA NothingToAccountFor ==
  ASSUME NEW P, NEW T, NEW F, NEW H, NoExpectedPayloads(P, T)
  PROVE  AccountingError(P, T, F, H) = 0
<1>1. /\ T # {} /\ {p[1] : p \in P.cached} \cup P.skipped = T
      /\ P.eligible = {} /\ P.remote = {}
  BY DEF NoExpectedPayloads
<1>2. T \subseteq Represented(P)
  BY <1>1 DEF Represented
<1>3. T \ Represented(P) = {}
  BY <1>2
<1>4. {p[1] : p \in P.eligible} \ {p[1] : p \in H} = {}
  BY <1>1
<1> QED
  BY <1>1, <1>3, <1>4 DEF AccountingError

\* What an accounting error says.
LEMMA AccountingErrors ==
  /\ AccountingError(plan, targets, cfg.failOnError, Handled) = 1 => Unaccounted # {}
  /\ AccountingError(plan, targets, cfg.failOnError, Handled) = 2 => plan.remote # {}
<1>1. ASSUME AccountingError(plan, targets, cfg.failOnError, Handled) = 1
      PROVE  Unaccounted # {}
  <2>1. \/ targets \ Represented(plan) # {}
        \/ plan.eligible # {} /\ Handled = {}
        \/ {p[1] : p \in plan.eligible} \ {p[1] : p \in Handled} # {}
    BY <1>1 DEF AccountingError
  <2> QED
    BY <2>1 DEF Unaccounted
<1>2. AccountingError(plan, targets, cfg.failOnError, Handled) = 2 => plan.remote # {}
  BY DEF AccountingError
<1> QED
  BY <1>1, <1>2

\* The checks after the workers call only a good run good, and name what is so.
LEMMA VerifiedReason ==
  ASSUME PlanInv, ExitInv, ReasonInv, OutputsInv, FilesInv, pc = "postflight",
         NEW testsRan \in BOOLEAN
  PROVE  LET verdict == Verified(testsRan)
         IN  /\ verdict.reason \in {"none", "ok", "interrupted", "missing_bep_json",
                                    "bep_output_remote_only_without_downloader",
                                    "fresh_output_without_payloads",
                                    "tests_ran_without_payloads"}
             /\ verdict.reason = "ok" => verdict.exit = 0
             /\ verdict.exit = 0 => verdict.reason \in {"none", "ok"}
             /\ verdict.reason = "none" =>
                  verdict.exit = 0 \/ (verdict.exit = 1 /\ InFile(FailedStatuses) # {})
             /\ verdict.exit = 130 <=> verdict.reason = "interrupted"
             /\ verdict.reason = "tests_ran_without_payloads" => NoTasks
             /\ verdict.reason = "fresh_output_without_payloads" => Unaccounted # {}
             /\ verdict.reason = "bep_output_remote_only_without_downloader" => KeptRemotely
<1> DEFINE error == AccountingError(plan, targets, cfg.failOnError, Handled)
           inferred == PreflightReason(TRUE)
           sound(verdict) ==
             /\ verdict.reason \in {"none", "ok", "interrupted", "missing_bep_json",
                                    "bep_output_remote_only_without_downloader",
                                    "fresh_output_without_payloads",
                                    "tests_ran_without_payloads"}
             /\ verdict.reason = "ok" => verdict.exit = 0
             /\ verdict.exit = 0 => verdict.reason \in {"none", "ok"}
             /\ verdict.reason = "none" =>
                  verdict.exit = 0 \/ (verdict.exit = 1 /\ InFile(FailedStatuses) # {})
             /\ verdict.exit = 130 <=> verdict.reason = "interrupted"
             /\ verdict.reason = "tests_ran_without_payloads" => NoTasks
             /\ verdict.reason = "fresh_output_without_payloads" => Unaccounted # {}
             /\ verdict.reason = "bep_output_remote_only_without_downloader" => KeptRemotely
<1>1. /\ reason = IF exit = 130 THEN "interrupted" ELSE "none"
      /\ exit = 0 \/ (exit = 1 /\ InFile(FailedStatuses) # {})
           \/ (exit = 130 /\ DOMAIN file # {})
  BY DEF ReasonInv, ExitInv
<1>2. /\ Accounted.exit = IF exit = 130 \/ error = 0 THEN exit ELSE error
      /\ Accounted.reason = IF exit = 130 \/ error = 0 THEN reason
                            ELSE IF error = 2 THEN inferred
                            ELSE "fresh_output_without_payloads"
      /\ [Accounted EXCEPT !.reason = "ok"].exit = Accounted.exit
      /\ [Accounted EXCEPT !.reason = "ok"].reason = "ok"
  BY DEF Accounted
<1>3. /\ error \in {0, 1, 2}
      /\ error = 1 => Unaccounted # {}
      /\ error = 2 => KeptRemotely
  BY AccountingCodes, AccountingErrors DEF PlanInv
<1>4. NothingExpected => exit = 0 /\ error = 0
  <2>1. NothingExpected => DOMAIN file = {}
    BY FilesHavePayloads DEF OutputsInv
  <2>2. DOMAIN file = {} => exit = 0
    BY <1>1 DEF InFile
  <2>3. NothingExpected => error = 0
    BY NothingToAccountFor DEF NothingExpected
  <2> QED
    BY <2>1, <2>2, <2>3
<1>5. exit = 130 => ~NoTasks
  BY <1>1, FilesHavePayloads DEF NoTasks
<1>6. inferred \in {"missing_bep_json", "bep_output_remote_only_without_downloader"}
  BY FailureReasons DEF PreflightReason
<1> HIDE DEF error, inferred
<1>7. ASSUME NEW verdict, verdict = Accounted PROVE sound(verdict)
  <2>1. CASE exit = 130 \/ error = 0
    <3>1. verdict.exit = exit /\ verdict.reason = reason
      BY <1>2, <1>7, <2>1
    <3>2. CASE exit = 130
      BY <1>1, <3>1, <3>2
    <3>3. CASE exit # 130
      BY <1>1, <3>1, <3>3
    <3> QED
      BY <3>2, <3>3
  <2>2. CASE exit # 130 /\ error = 1
    <3>1. verdict.exit = 1 /\ verdict.reason = "fresh_output_without_payloads"
      BY <1>2, <1>7, <2>2
    <3>2. Unaccounted # {}
      BY <1>3, <2>2
    <3> QED
      BY <3>1, <3>2
  <2>3. CASE exit # 130 /\ error = 2
    <3>1. verdict.exit = 2 /\ verdict.reason = inferred
      BY <1>2, <1>7, <2>3
    <3>2. KeptRemotely
      BY <1>3, <2>3
    <3>3. verdict.reason \in
            {"missing_bep_json", "bep_output_remote_only_without_downloader"}
      BY <1>6, <3>1
    <3> QED
      BY <3>1, <3>2, <3>3
  <2> QED
    BY <1>3, <2>1, <2>2, <2>3
<1>8. CASE NoTasks /\ NothingExpected
  <2>1. Verified(testsRan).exit = 0 /\ Verified(testsRan).reason = "ok"
    BY <1>2, <1>4, <1>8 DEF Verified
  <2>2. sound(Verified(testsRan))
    BY <2>1
  <2> QED
    BY <2>2
<1>9. CASE ~(NoTasks /\ NothingExpected)
  <2>1. \/ Verified(testsRan) = Accounted
        \/ /\ NoTasks
           /\ Verified(testsRan) = [exit |-> 1, reason |-> "tests_ran_without_payloads"]
    BY <1>9 DEF Verified
  <2>2. CASE Verified(testsRan) = Accounted
    <3>1. sound(Verified(testsRan))
      BY <1>7, <2>2
    <3> QED
      BY <3>1
  <2>3. CASE /\ NoTasks
             /\ Verified(testsRan) = [exit |-> 1, reason |-> "tests_ran_without_payloads"]
    <3>1. /\ Verified(testsRan).exit = 1
          /\ Verified(testsRan).reason = "tests_ran_without_payloads"
      BY <2>3
    <3>2. sound(Verified(testsRan))
      BY <2>3, <3>1
    <3> QED
      BY <3>2
  <2> QED
    BY <2>1, <2>2, <2>3
<1> QED
  BY <1>8, <1>9

LEMMA FailKeepsReasonInv ==
  ASSUME PlanInv, ExitInv, ReportInv,
         NEW remoteOnly \in BOOLEAN, Fail(remoteOnly), remoteOnly => KeptRemotely,
         pc \in PreflightSteps \cup {"work"}
  PROVE  ReasonInv'
<1>1. /\ pc' = "cleanup" /\ exit' = 2 /\ reported' = reported /\ completed' = completed
      /\ plan' = plan /\ events' = events /\ reason' = PreflightReason(remoteOnly)
  BY DEF Fail, inputVars, preparation
<1>2. ~reported /\ ~completed
  BY DEF ReportInv, ExitInv, Undecided, PreflightSteps
<1>3. KeptRemotely' = KeptRemotely /\ (plan.remote # {} => KeptRemotely)
  BY <1>1 DEF KeptRemotely, PlanInv
<1>4. /\ reason' \in PreflightReasons
      /\ reason' = "bep_output_remote_only_without_downloader" => KeptRemotely'
      /\ reason' = "target_cached_by_bazel" => plan'.cached # {}
  BY <1>1, <1>3, FailureReasons
<1>5. Claims'
  <2>1. exit' # 130 /\ ~completed'
    BY <1>1, <1>2
  <2> QED
    BY <1>4, <2>1 DEF Claims, PreflightReasons, NothingFound
<1>6. pc' = "cleanup" /\ exit' # 0 /\ exit' # 130 /\ ~reported'
  BY <1>1, <1>2
<1>7. reason' \notin GoodReasons \cup {"none", "interrupted"}
  BY <1>4 DEF PreflightReasons, GoodReasons, NothingFound
<1> QED
  BY <1>5, <1>6, <1>7 DEF ReasonInv, LateReasons, GoodReasons, NothingFound, Undecided,
                          PreflightSteps

\* As long as nothing is decided there is no reason.
LEMMA UndecidedKeepsReasonInv ==
  ASSUME ReasonInv, ReportInv, ExitInv, UNCHANGED outcome, pc \in Undecided, pc' \in Undecided
  PROVE  ReasonInv'
<1>1. reason' = "none" /\ ~reported'
  BY DEF ReasonInv, ReportInv, outcome, result, Undecided, PreflightSteps
<1>2. exit' # 0 /\ exit' # 130
  BY DEF ExitInv, NoExit, outcome, result
<1> QED
  BY <1>1, <1>2 DEF ReasonInv, Claims, LateReasons, GoodReasons, NothingFound, Undecided,
              PreflightSteps

LEMMA PoolKeepsReasonInv ==
  ASSUME ReasonInv, ReportInv, PoolReturns \/ PoolInterrupted
  PROVE  ReasonInv'
<1>1. pc \in {"work", "draining"} /\ pc' = "postflight" /\ reported' = reported
      /\ file' = file /\ completed'
  BY DEF PoolReturns, PoolInterrupted, work
<1>2. ~reported /\ reason = "none"
  BY <1>1 DEF ReportInv, ReasonInv, Undecided
<1>3. CASE PoolReturns
  <2>1. reason' = "none" /\ exit' = IF InFile(FailedStatuses) # {} THEN 1 ELSE 0
    BY <1>2, <1>3 DEF PoolReturns
  <2>2. InFile(FailedStatuses)' = InFile(FailedStatuses)
    BY <1>1 DEF InFile
  <2>3. exit' # 130 /\ ~reported'
    BY <1>1, <1>2, <2>1
  <2>4. exit' = 0 \/ (exit' = 1 /\ InFile(FailedStatuses)' # {})
    BY <2>1, <2>2
  <2>5. Claims'
    BY <2>1, <2>3 DEF Claims, NothingFound
  <2> QED
    BY <1>1, <2>1, <2>3, <2>4, <2>5 DEF ReasonInv, LateReasons, GoodReasons, NothingFound,
                                        Undecided, PreflightSteps
<1>4. CASE PoolInterrupted
  <2>1. reason' = "interrupted" /\ exit' = 130
    BY <1>4 DEF PoolInterrupted
  <2>2. exit' # 0 /\ ~reported'
    BY <1>1, <1>2, <2>1
  <2>3. Claims'
    BY <2>1 DEF Claims, NothingFound
  <2> QED
    BY <1>1, <2>1, <2>2, <2>3 DEF ReasonInv, LateReasons, GoodReasons, NothingFound,
                                  Undecided, PreflightSteps
<1> QED
  BY <1>3, <1>4

LEMMA PostflightKeepsReasonInv ==
  ASSUME PlanInv, ReasonInv, ReportInv, ExitInv, OutputsInv, FilesInv, Postflight
  PROVE  ReasonInv'
<1>1. PICK testsRan \in BOOLEAN :
        exit' = Verified(testsRan).exit /\ reason' = Verified(testsRan).reason
  BY DEF Postflight
<1>2. /\ pc = "postflight" /\ pc' = "cleanup" /\ reported' = reported
      /\ completed' = completed
      /\ UNCHANGED <<events, targets, plan, outputs, tasks, file>>
  BY DEF Postflight, inputVars, preparation, work
<1>3. ~reported /\ completed
  BY <1>2 DEF ReportInv, ExitInv
<1>4. \A states : InFile(states)' = InFile(states)
  BY <1>2 DEF InFile
<1>5. Handled' = Handled
  BY <1>2, <1>4 DEF Handled
<1>6. /\ Unaccounted' = Unaccounted /\ NoTasks' = NoTasks
      /\ KeptRemotely' = KeptRemotely
  BY <1>2, <1>5 DEF Unaccounted, NoTasks, FilesIn, KeptRemotely
<1>7. /\ reason' \in {"none", "ok", "interrupted", "missing_bep_json",
                      "bep_output_remote_only_without_downloader",
                      "fresh_output_without_payloads", "tests_ran_without_payloads"}
      /\ reason' = "ok" => exit' = 0
      /\ exit' = 0 => reason' \in {"none", "ok"}
      /\ reason' = "none" => exit' = 0 \/ (exit' = 1 /\ InFile(FailedStatuses) # {})
      /\ exit' = 130 <=> reason' = "interrupted"
      /\ reason' = "tests_ran_without_payloads" => NoTasks
      /\ reason' = "fresh_output_without_payloads" => Unaccounted # {}
      /\ reason' = "bep_output_remote_only_without_downloader" => KeptRemotely
  BY <1>1, <1>2, VerifiedReason
<1>8. Claims'
  BY <1>2, <1>3, <1>6, <1>7 DEF Claims, NothingFound
<1> QED
  BY <1>2, <1>3, <1>4, <1>7, <1>8 DEF ReasonInv, LateReasons, GoodReasons, NothingFound,
                                      Undecided, PreflightSteps

\* What cannot be removed makes a good run a failed one, under a name of its
\* own: the reason of the good run does not stay, and no other one is lost.
LEMMA CleanupRefusedKeepsReasonInv ==
  ASSUME ReasonInv, ReportInv, ExitInv, CleanupRefused
  PROVE  ReasonInv'
<1>1. /\ pc = "cleanup" /\ pc' \in {"release", "emit"} /\ undeleted' = TRUE
      /\ UNCHANGED <<reported, escaped, completed, events, targets, plan, outputs, tasks, file>>
      /\ exit' = IF exit \in {0, NoExit} THEN 2 ELSE exit
      /\ reason' = IF exit' = 2 /\ reason \in {"none", "ok"}
                   THEN "staging_cleanup_failed" ELSE reason
  BY DEF CleanupRefused, AfterCleanup, inputVars, preparation, work
<1>2. ~reported
  BY <1>1 DEF ReportInv
<1>3. CASE escaped # 0
  BY <1>1, <1>2, <1>3 DEF ReasonInv, Undecided, PreflightSteps
<1>4. CASE escaped = 0
  <2>1. exit # NoExit
    BY <1>1, <1>4 DEF ExitInv, Undecided, PreflightSteps
  <2>2. /\ Claims /\ reason \notin LateReasons
        /\ reason = "ok" => exit = 0
        /\ exit = 0 => reason \in {"none", "ok"}
        /\ reason = "none" => exit = 0 \/ (exit = 1 /\ completed /\ InFile(FailedStatuses) # {})
    BY <1>1, <1>2, <1>4 DEF ReasonInv, Undecided, PreflightSteps
  <2>3. \A states : InFile(states)' = InFile(states)
    BY <1>1 DEF InFile
  <2>4. CASE exit = 0
    <3>1. exit' = 2 /\ reason' = "staging_cleanup_failed"
      BY <1>1, <2>2, <2>4
    <3>2. completed' /\ Settled'
      BY <1>1, <2>3, <2>4 DEF ExitInv, Settled
    <3>3. Claims'
      BY <1>1, <3>1, <3>2 DEF Claims, NothingFound
    <3> QED
      BY <1>1, <1>2, <3>1, <3>3 DEF ReasonInv, LateReasons, GoodReasons, NothingFound,
                                    Undecided, PreflightSteps
  <2>5. CASE exit # 0
    <3>1. exit' = exit /\ reason # "ok"
      BY <1>1, <2>1, <2>2, <2>5
    <3>2. reason' = reason
      BY <1>1, <2>2, <3>1
    <3>3. Claims'
      BY <1>1, <2>2, <3>1, <3>2, ClaimsKept
    <3> QED
      BY <1>1, <1>2, <2>2, <2>3, <2>5, <3>1, <3>2, <3>3
         DEF ReasonInv, Undecided, PreflightSteps
  <2> QED
    BY <2>4, <2>5
<1> QED
  BY <1>3, <1>4

\* The steps that leave the outcome as it is.
LEMMA OutcomeKeepsReasonInv ==
  ASSUME ReasonInv, UNCHANGED <<outcome, events, targets, plan, outputs, tasks, file>>,
         undeleted => undeleted', pc \notin Undecided,
         pc' \notin Undecided \cup {"postflight"}
  PROVE  ReasonInv'
<1>1. UNCHANGED <<exit, reason, completed, reported, escaped>>
  BY DEF outcome, result
<1>2. InFile(FailedStatuses)' = InFile(FailedStatuses)
  BY DEF InFile
<1>3. Claims => Claims'
  BY <1>1, ClaimsKept
<1> QED
  BY <1>1, <1>2, <1>3 DEF ReasonInv

\* The reason that is found with the document.
LEMMA FoundReason ==
  ASSUME ReportInv, ExitInv, ReasonInv, OutputsInv, FilesInv, pc = "emit", reason = "none",
         NEW attempted,
         NEW found, found = ResultReason(exit, cfg.dryRun, attempted, LegacyContext)
  PROVE  /\ exit = 0 <=> found \in GoodReasons
         /\ found \in NothingFound => NoTasks
         /\ found \in GoodReasons \cup {"upload_failed_http", "payload_enrichment_failed"}
         /\ exit # 0 => completed /\ InFile(FailedStatuses) # {}
         /\ exit # 130
<1>1. exit = 0 \/ (exit = 1 /\ completed /\ InFile(FailedStatuses) # {})
  BY DEF ReasonInv, ReportInv, Undecided, PreflightSteps
<1>2. /\ LegacyContext.outputs = Cardinality(DOMAIN outputs)
      /\ LegacyContext.discovered = Cardinality(FilesIn(DOMAIN outputs))
  BY DEF LegacyContext
<1>3. IsFiniteSet(DOMAIN outputs) /\ IsFiniteSet(FilesIn(DOMAIN outputs))
  BY FilesAreFinite
<1>4. /\ LegacyContext.outputs = 0 => DOMAIN outputs = {}
      /\ LegacyContext.discovered = 0 => FilesIn(DOMAIN outputs) = {}
  BY <1>2, <1>3, FS_EmptySet
<1>5. DOMAIN outputs = {} => FilesIn(DOMAIN outputs) = {}
  BY DEF FilesIn
<1>6. LegacyContext.outputs = 0 \/ LegacyContext.discovered = 0 => NoTasks
  BY <1>4, <1>5 DEF NoTasks
<1>7. NoTasks => exit = 0
  <2>1. NoTasks => DOMAIN file = {}
    BY FilesHavePayloads DEF NoTasks
  <2>2. DOMAIN file = {} => InFile(FailedStatuses) = {}
    BY DEF InFile
  <2> QED
    BY <1>1, <2>1, <2>2
<1>8. CASE LegacyContext.outputs = 0 \/ LegacyContext.discovered = 0
  <2>1. found \in NothingFound
    BY <1>8 DEF ResultReason, NothingFound
  <2> QED
    BY <1>6, <1>7, <1>8, <2>1 DEF GoodReasons
<1>9. CASE ~(LegacyContext.outputs = 0 \/ LegacyContext.discovered = 0)
  <2>1. IF exit = 0 THEN found \in {"ok", "upload_skipped_dry_run"}
        ELSE found \in {"upload_failed_http", "payload_enrichment_failed"}
    BY <1>9 DEF ResultReason
  <2> QED
    BY <1>1, <2>1 DEF GoodReasons, NothingFound
<1> QED
  BY <1>8, <1>9

LEMMA EmitKeepsReasonInv ==
  ASSUME ReasonInv, ReportInv, ExitInv, OutputsInv, FilesInv, Emit
  PROVE  ReasonInv'
<1>1. /\ pc = "emit" /\ pc' = "release" /\ reported' = TRUE
      /\ UNCHANGED <<exit, completed, escaped, undeleted>>
      /\ UNCHANGED <<events, targets, plan, outputs, tasks, file>>
      /\ \/ reason # "none" /\ reason' = reason
         \/ reason = "none" /\ \E attempted :
              reason' = ResultReason(exit, cfg.dryRun, attempted, LegacyContext)
  BY DEF Emit, WriteReport, inputVars, preparation, staging, work
<1>2. ~reported /\ escaped = 0
  BY <1>1 DEF ReportInv
<1>3. CASE reason # "none" /\ reason' = reason
  <2>1. exit = 0 <=> reason \in GoodReasons
    BY <1>2, <1>3 DEF ReasonInv, LateReasons, GoodReasons
  <2>2. Claims'
    BY <1>1, <1>2, <1>3, ClaimsKept DEF ReasonInv
  <2> QED
    BY <1>1, <1>3, <2>1, <2>2 DEF ReasonInv, Undecided, PreflightSteps
<1>4. CASE reason = "none"
  <2>1. PICK attempted : reason' = ResultReason(exit, cfg.dryRun, attempted, LegacyContext)
    BY <1>1, <1>4
  <2>2. /\ exit = 0 <=> reason' \in GoodReasons
        /\ reason' \in NothingFound => NoTasks
        /\ reason' \in GoodReasons \cup {"upload_failed_http", "payload_enrichment_failed"}
        /\ exit # 0 => completed /\ InFile(FailedStatuses) # {}
        /\ exit # 130
    BY <1>1, <1>4, <2>1, FoundReason
  <2>3. InFile(FailedStatuses)' = InFile(FailedStatuses) /\ NoTasks' = NoTasks
    BY <1>1 DEF InFile, NoTasks, FilesIn
  <2>4. reason' \in {"upload_failed_http", "payload_enrichment_failed"} => exit # 0
    BY <2>2 DEF GoodReasons, NothingFound
  <2>5. Claims'
    BY <1>1, <2>2, <2>3, <2>4 DEF Claims, GoodReasons, NothingFound
  <2> QED
    BY <1>1, <2>2, <2>5 DEF ReasonInv, Undecided, PreflightSteps
<1> QED
  BY <1>1, <1>3, <1>4

\* An error that is not controlled comes before the report, or is Ctrl-C and
\* changes nothing of it.
LEMMA EscapesKeepReasonInv ==
  ASSUME ReasonInv, ReportInv, ExitInv, Interrupt \/ Unhandled
  PROVE  ReasonInv'
<1>1. /\ UNCHANGED <<exit, reason, completed, reported>>
      /\ UNCHANGED <<events, targets, plan, outputs, tasks, file>>
      /\ pc' \in {"cleanup", "release", "done"} /\ escaped' \in {1, 130}
  BY InterruptShape, UnhandledShape DEF inputVars, preparation, work, result
<1>2. undeleted => undeleted'
  BY UnhandledShape DEF Interrupt, RemoveStaging, RefuseRemoval
<1>3. Claims => Claims'
  BY <1>1, <1>2, ClaimsKept
<1> QED
  BY <1>1, <1>3 DEF ReasonInv, Undecided, PreflightSteps

\* While a worker is at work the results are not in the report, and nothing is
\* claimed that depends on them.
LEMMA WorkersKeepReasonInv ==
  ASSUME ReasonInv, ReportInv, ExitInv, WorkerStep
  PROVE  ReasonInv'
<1>1. PICK k \in DOMAIN file : Own(k) \/ Finish(k)
  BY DEF WorkerStep
<1>2. /\ UNCHANGED <<pc, exit, reason, completed, reported, escaped>>
      /\ UNCHANGED <<events, plan, outputs>>
  BY <1>1 DEF Own, Finish, inputVars, preparation, outcome, result
<1>3. pc = "work" \/ Owned # {}
  BY <1>1 DEF Own, Finish, Owned, InFile
<1>4. ~completed
  BY <1>3 DEF ReportInv, ExitInv, Undecided, Counted
<1>5. NoTasks' = NoTasks /\ KeptRemotely' = KeptRemotely
  BY <1>2 DEF NoTasks, FilesIn, KeptRemotely
<1>6. Claims => Claims'
  BY <1>2, <1>4, <1>5 DEF Claims
<1>7. exit # 0
  BY <1>4 DEF ExitInv
<1> QED
  BY <1>2, <1>4, <1>6, <1>7 DEF ReasonInv

LEMMA NextKeepsReasonInv ==
  PlanInv /\ OutputsInv /\ FilesInv /\ ExitInv /\ ReportInv /\ ReasonInv /\ [Next]_vars
    => ReasonInv'
<1> SUFFICES ASSUME PlanInv, OutputsInv, FilesInv, ExitInv, ReportInv, ReasonInv, [Next]_vars
             PROVE  ReasonInv'
  OBVIOUS
<1>1. CASE \/ AcquireRefused \/ RefuseTargets \/ RefuseResources \/ RefuseSource \/ RefuseBep
           \/ StagingFailed \/ RefuseMerge \/ RefusePlan \/ DiscoverNothing
           \/ RefuseAdmission \/ PrepareFails \/ PoolFails
  BY <1>1, FailureShape, RemoteFailures, FailKeepsReasonInv
<1>2. CASE \/ Acquire \/ LoadTargets \/ LoadResources \/ ChooseSource \/ ReadBep \/ SkipBep
           \/ StageArtifacts \/ MergeStaged \/ BuildPlan \/ HandOver
           \/ Discover \/ Admit \/ Prepare
  BY <1>2, PreflightShape, UndecidedKeepsReasonInv DEF Undecided
<1>3. CASE Cleanup \/ Release
  <2>1. /\ UNCHANGED <<outcome, events, targets, plan, outputs, tasks, file>>
        /\ pc \in {"cleanup", "release"} /\ pc' \in {"emit", "release", "done"}
    BY <1>3 DEF Cleanup, AfterCleanup, Release, inputVars, preparation, work
  <2>2. undeleted => undeleted'
    BY <1>3 DEF Cleanup, RemoveStaging, Release, staging
  <2> QED
    BY <2>1, <2>2, OutcomeKeepsReasonInv DEF Undecided, PreflightSteps
<1>4. CASE MainStep
  BY <1>1, <1>2, <1>3, <1>4, PoolKeepsReasonInv, PostflightKeepsReasonInv,
     CleanupRefusedKeepsReasonInv, EmitKeepsReasonInv, EscapesKeepReasonInv DEF MainStep
<1>5. CASE InterruptPool
  <2>1. UNCHANGED outcome /\ pc = "work" /\ pc' = "draining"
    BY <1>5 DEF InterruptPool
  <2> QED
    BY <2>1, UndecidedKeepsReasonInv DEF Undecided
<1>6. CASE UNCHANGED vars
  <2>1. /\ UNCHANGED <<pc, exit, reason, completed, reported, escaped, undeleted>>
        /\ UNCHANGED <<events, targets, plan, outputs, tasks, file>>
    BY <1>6 DEF vars, inputVars, preparation, staging, work, outcome, result
  <2>2. InFile(FailedStatuses)' = InFile(FailedStatuses)
    BY <2>1 DEF InFile
  <2>3. Claims => Claims'
    BY <2>1, ClaimsKept
  <2> QED
    BY <2>1, <2>2, <2>3 DEF ReasonInv
<1> QED
  BY <1>4, <1>5, <1>6, WorkersKeepReasonInv, EscapesKeepReasonInv DEF Next, Done

-----------------------------------------------------------------------------
(* The invariant of an invocation                                          *)

\* The variables nothing else is said of.
ShapeInv ==
  /\ lock \in {"free", "held", "left"} /\ completed \in BOOLEAN
  /\ interrupts \in 0..MaxInterrupts

InvocationInv ==
  /\ ShapeInv /\ WorkInv /\ StagingInv
  /\ PlanInv /\ OutputsInv /\ FilesInv
  /\ ExitInv /\ ReportInv /\ ReasonInv

LEMMA NextKeepsShapeInv == ShapeInv /\ [Next]_vars => ShapeInv'
<1> SUFFICES ASSUME ShapeInv, [Next]_vars PROVE ShapeInv'
  OBVIOUS
<1> USE DEF ShapeInv, outcome, result
<1>1. CASE \/ AcquireRefused \/ RefuseTargets \/ RefuseResources \/ RefuseSource \/ RefuseBep
           \/ StagingFailed \/ RefuseMerge \/ RefusePlan \/ DiscoverNothing
           \/ RefuseAdmission \/ PrepareFails \/ PoolFails
  <2>1. completed' = completed /\ interrupts' = interrupts
    BY <1>1, FailureShape DEF Fail
  <2>2. lock' = lock \/ lock' \in {"free", "left"}
    BY <1>1 DEF AcquireRefused, RefuseTargets, RefuseResources, RefuseSource, RefuseBep,
                StagingFailed, RefuseMerge, RefusePlan, DiscoverNothing, RefuseAdmission,
                PrepareFails, PoolFails, FailKeeping
  <2> QED
    BY <2>1, <2>2
<1>2. CASE \/ Acquire \/ LoadTargets \/ LoadResources \/ ChooseSource \/ ReadBep \/ SkipBep
           \/ StageArtifacts \/ MergeStaged \/ BuildPlan \/ HandOver
           \/ Discover \/ Admit \/ Prepare
  <2>1. UNCHANGED <<outcome, interrupts>>
    BY <1>2, PreflightShape
  <2>2. lock' = "held" \/ lock' = lock
    BY <1>2 DEF Acquire, LoadTargets, LoadResources, ChooseSource, ReadBep, SkipBep,
         StageArtifacts, MergeStaged, BuildPlan, HandOver, Discover, Admit, Prepare, Go
  <2> QED
    BY <2>1, <2>2
<1>3. CASE PoolReturns \/ PoolInterrupted \/ Postflight
  BY <1>3 DEF PoolReturns, PoolInterrupted, Postflight
<1>4. CASE Cleanup \/ CleanupRefused \/ Emit \/ Unhandled \/ Release
  BY <1>4 DEF Cleanup, CleanupRefused, Emit, Unhandled, Release
<1>5. CASE MainStep
  BY <1>1, <1>2, <1>3, <1>4, <1>5 DEF MainStep
<1>6. CASE WorkerStep \/ UNCHANGED vars
  BY <1>6 DEF WorkerStep, Own, Finish, vars
<1>7. CASE InterruptPool \/ Interrupt
  <2>1. /\ interrupts < MaxInterrupts /\ interrupts' = interrupts + 1
        /\ lock' = lock \/ lock' \in {"free", "left"}
        /\ completed' = completed
    BY <1>7 DEF InterruptPool, Interrupt
  <2> QED
    BY <2>1, InvocationAssumption
<1> QED
  BY <1>5, <1>6, <1>7 DEF Next, Done

LEMMA InitInvocationInv == Init => InvocationInv
<1>1. ASSUME Init PROVE ShapeInv
  <2>1. lock = "free" /\ completed = FALSE /\ interrupts = 0
    BY <1>1 DEF Init
  <2>2. interrupts \in 0..MaxInterrupts
    BY <2>1, InvocationAssumption
  <2> QED
    BY <2>1, <2>2 DEF ShapeInv
<1> QED
  BY <1>1, InitWorkInv, InitStagingInv, InitPlanInv, InitOutputsInv, InitFilesInv,
     InitExitInv, InitReportInv, InitReasonInv DEF InvocationInv

LEMMA NextKeepsInvocationInv == InvocationInv /\ [Next]_vars => InvocationInv'
BY NextKeepsShapeInv, NextKeepsWorkInv, NextKeepsStagingInv, NextKeepsPlanInv,
   NextKeepsOutputsInv, NextKeepsFilesInv, NextKeepsExitInv, NextKeepsReportInv,
   NextKeepsReasonInv DEF InvocationInv

\* The inductive invariant of an invocation: where the main thread is, what it
\* decided, what the workers did with the files, and the outcome so far agree.
THEOREM InvocationInvariant == Spec => []InvocationInv
BY InitInvocationInv, NextKeepsInvocationInv, PTL DEF Spec

\* Type correctness of the invocation, with tasks and files for discovered
\* outputs only.
THEOREM InvocationTypeCorrect == Spec => []TypeOK
<1>1. InvocationInv => TypeOK
  <2> SUFFICES ASSUME InvocationInv PROVE TypeOK
    OBVIOUS
  <2>1. DOMAIN tasks \subseteq FilesIn(DOMAIN outputs)
    BY FilesHavePayloads DEF InvocationInv, FilesInv
  <2> QED
    BY <2>1 DEF InvocationInv, ShapeInv, WorkInv, StagingInv, PlanInv, OutputsInv, FilesInv,
                ExitInv, ReportInv, TypeOK
<1> QED
  BY <1>1, InvocationInvariant, PTL

-----------------------------------------------------------------------------
(* Only what the BEP authorises                                            *)

\* A reference that was staged is an output some execution names.
LEMMA StagedReference ==
  ASSUME NEW E, NEW mode, NEW p \in Stageable(ParseBep(E).refs, mode)
  PROVE  /\ p \in PairsOf(Candidates(ParseBep(E).refs, mode))
         /\ \E e \in Results(E) : ~e.cached /\ p \in MappedPairs(e)
<1>1. p \in PairsOf(Candidates(ParseBep(E).refs, mode))
  BY DEF Stageable
<1>2. PICK r \in Candidates(ParseBep(E).refs, mode) : p = <<r.label, r.key>>
  BY <1>1 DEF PairsOf
<1>3. r \in ParseBep(E).refs /\ ~r.cached /\ r.key # NoKey
  BY <1>2 DEF Candidates
<1>4. r \in References(E)
  BY <1>3 DEF ParseBep
<1>5. PICK e \in Results(E) : \E o \in e.outputs :
        r = [label |-> e.label, cached |-> e.cached, key |-> o.key,
             remote |-> o.remote, hint |-> o.hint, fetch |-> o.fetch,
             stageable |-> o.carrier /\ (o.remote => o.key # NoKey)]
  BY <1>4 DEF References
<1>6. PICK o \in e.outputs : r.label = e.label /\ r.cached = e.cached /\ r.key = o.key
  BY <1>5
<1>7. p \in MappedPairs(e)
  BY <1>2, <1>3, <1>6 DEF MappedPairs
<1> QED
  BY <1>1, <1>3, <1>6, <1>7

LEMMA ExecutedReference ==
  ASSUME NEW E, NEW p \in ParseBep(E).eligible
  PROVE  \E e \in Results(E) : ~e.cached /\ RemotePairs(e) = {} /\ p \in MappedPairs(e)
BY DEF ParseBep

\* With BEP freshness the pair of every file is one the plan made eligible.
LEMMA FileIsEligible ==
  ASSUME InvocationInv, plan.source = "bep", NEW t \in DOMAIN file
  PROVE  /\ Known /\ <<tasks[t], t[1]>> \in ParseBep(events).eligible \cup staged
         /\ plan.selected = IF StagingRequested(cfg)
                            THEN PairsOf(Candidates(ParseBep(events).refs, cfg.remoteArtifacts))
                            ELSE {}
<1>1. /\ Known
      /\ plan = BepPlan("bep", facts, targets, cfg.remoteArtifacts, StagingRequested(cfg))
  BY DEF InvocationInv, PlanInv
<1>2. /\ plan.enabled = TRUE /\ plan.eligible = Expected(facts.eligible, targets)
      /\ plan.selected = IF StagingRequested(cfg)
                         THEN PairsOf(Candidates(facts.refs, cfg.remoteArtifacts)) ELSE {}
  BY <1>1 DEF BepPlan
<1>3. Verdict(t[1]) = "take" /\ tasks[t] = LabelOf(t[1])
  BY FilesHavePayloads DEF InvocationInv
<1>4. <<tasks[t], t[1]>> \in plan.eligible
  BY <1>2, <1>3 DEF Verdict, Admission
<1>5. <<tasks[t], t[1]>> \in facts.eligible
  BY <1>2, <1>4 DEF Expected
<1> QED
  BY <1>1, <1>2, <1>5 DEF Known

\* ... and belongs to an execution, not to a cached result.
LEMMA FileWasExecuted ==
  ASSUME InvocationInv, plan.source = "bep", NEW t \in DOMAIN file
  PROVE  /\ \E e \in Results(events) : ~e.cached /\ <<tasks[t], t[1]>> \in MappedPairs(e)
         /\ <<tasks[t], t[1]>> \notin ParseBep(events).cached
<1> DEFINE pair == <<tasks[t], t[1]>>
<1>1. Known /\ pair \in ParseBep(events).eligible \cup staged
  BY FileIsEligible
<1> HIDE DEF pair
<1>2. pair \notin ParseBep(events).cached
  BY <1>1 DEF Known, BepAmbiguous
<1>3. \E e \in Results(events) : ~e.cached /\ pair \in MappedPairs(e)
  <2>1. CASE pair \in ParseBep(events).eligible
    BY <2>1, ExecutedReference
  <2>2. CASE pair \in staged
    <3>1. pair \in Stageable(ParseBep(events).refs, cfg.remoteArtifacts)
      BY <1>1, <2>2 DEF Known
    <3> QED
      BY <3>1, StagedReference
  <2> QED
    BY <1>1, <2>1, <2>2
<1> QED
  BY <1>2, <1>3 DEF pair

\* Results agree on the target of an output.
LEMMA OneTarget ==
  ASSUME InvocationInv, NEW d \in Results(events), NEW e \in Results(events),
         NEW p \in MappedPairs(d), NEW q \in MappedPairs(e), p[2] = q[2]
  PROVE  p[1] = q[1]
<1>1. OneTargetPerKey(events)
  <2>1. CASE events \in Beps
    BY <2>1, InvocationAssumption
  <2>2. CASE events = {}
    BY <2>2 DEF OneTargetPerKey, Results
  <2> QED
    BY <2>1, <2>2 DEF InvocationInv, PlanInv
<1>2. PICK o \in d.outputs : o.key # NoKey /\ p = <<d.label, o.key>>
  BY DEF MappedPairs
<1>3. PICK u \in e.outputs : u.key # NoKey /\ q = <<e.label, u.key>>
  BY DEF MappedPairs
<1>4. o.key = u.key
  BY <1>2, <1>3
<1>5. d.label = e.label
  BY <1>1, <1>2, <1>3, <1>4 DEF OneTargetPerKey
<1> QED
  BY <1>2, <1>3, <1>5

\* The copy that is read is the one this execution left, if the BEP can tell.
LEMMA FileIsTheExecutions ==
  ASSUME InvocationInv, plan.source = "bep", NEW t \in DOMAIN file, NEW k, k = t[1]
  PROVE  tasks[t] \in outputs[k].of \/ OnlyLogKnown(tasks[t], k)
<1> DEFINE pair == <<tasks[t], k>>
<1>1. /\ Known /\ pair \in ParseBep(events).eligible \cup staged
      /\ plan.selected = IF StagingRequested(cfg)
                         THEN PairsOf(Candidates(ParseBep(events).refs, cfg.remoteArtifacts))
                         ELSE {}
  BY FileIsEligible
<1>2. PICK d \in Results(events) : ~d.cached /\ pair \in MappedPairs(d)
  BY FileWasExecuted
<1>3. k \in DOMAIN outputs
  BY FilesHavePayloads DEF InvocationInv
<1>4. CASE outputs[k].staged
  <2>1. PICK q \in staged : q[2] = k /\ outputs[k].of = {q[1]}
    BY <1>3, <1>4 DEF InvocationInv, OutputsInv
  <2>2. q \in Stageable(ParseBep(events).refs, cfg.remoteArtifacts)
    BY <1>1, <2>1 DEF Known
  <2>3. PICK e \in Results(events) : q \in MappedPairs(e)
    BY <2>2, StagedReference
  <2>4. pair[1] = q[1]
    BY <1>2, <2>1, <2>3, OneTarget
  <2> QED
    BY <2>1, <2>4
<1>5. CASE ~outputs[k].staged
  <2>1. outputs[k].of = ExecutedLocally(k) /\ \A p \in plan.selected : p[2] # k
    BY <1>3, <1>5 DEF InvocationInv, OutputsInv
  <2>2. pair \notin staged
    <3>1. ASSUME pair \in staged PROVE FALSE
      <4>1. /\ pair \in Stageable(ParseBep(events).refs, cfg.remoteArtifacts)
            /\ StagingRequested(cfg)
        BY <1>1, <3>1 DEF Known
      <4>2. pair \in plan.selected
        BY <1>1, <4>1, StagedReference
      <4> QED
        BY <2>1, <4>2
    <3> QED
      BY <3>1
  <2>3. PICK e \in Results(events) : /\ ~e.cached /\ RemotePairs(e) = {}
                                     /\ pair \in MappedPairs(e)
    BY <1>1, <2>2, ExecutedReference
  <2>4. e.label = tasks[t] /\ MappedPairs(e) # {}
    BY <2>3 DEF MappedPairs
  <2>5. CASE \E o \in e.outputs : o.key = k /\ ~o.remote
    BY <2>1, <2>3, <2>4, <2>5 DEF ExecutedLocally
  <2>6. CASE \A o \in e.outputs : o.key = k => o.remote
    <3>1. \A o \in e.outputs : o.key = k => ~o.hint
      BY <2>3, <2>4, <2>6 DEF RemotePairs
    <3> QED
      BY <2>3, <2>4, <2>6, <3>1 DEF OnlyLogKnown
  <2> QED
    BY <2>5, <2>6
<1> QED
  BY <1>4, <1>5

\* The label a file is stamped with is an expected target, if there are any.
LEMMA FileIsExpected ==
  ASSUME InvocationInv, targets # {}, NEW t \in DOMAIN file, NEW k, k = t[1]
  PROVE  tasks[t] \in targets
<1>1. tasks[t] = LabelOf(k) /\ k \in DOMAIN Selection
  BY FilesHavePayloads DEF InvocationInv
<1>2. Owners(k, targets) # {} /\ Selection[k] = Owner(k, targets)
  BY <1>1 DEF Selection, SelectExpectedOutputs
<1>3. Owner(k, targets) \in Owners(k, targets)
  BY <1>2 DEF Owner
<1>4. Selection[k] \in targets
  BY <1>2, <1>3 DEF Owners
<1>5. Selection[k] # NoLabel
  BY <1>4 DEF InvocationInv, PlanInv
<1> QED
  BY <1>1, <1>4, <1>5 DEF LabelOf

\* With BEP freshness only outputs of this build are uploaded: executed, never
\* cached, of an expected target, and from the copy the execution left.
THEOREM UploadsAreAuthorised == Spec => []OnlyAuthorised
<1>1. InvocationInv => OnlyAuthorised
  BY FileIsExpected, FileWasExecuted, FileIsTheExecutions DEF OnlyAuthorised, Entered, InFile
<1> QED
  BY <1>1, InvocationInvariant, PTL

\* What the reason of the document claims is so, whatever the later stages
\* overwrote, and only Ctrl-C can still change the exit code.
THEOREM ReasonsAreHonest == Spec => []ReasonHonest
<1>1. InvocationInv => ReasonHonest
  <2> SUFFICES ASSUME InvocationInv, reported PROVE ReasonHonest
    BY DEF ReasonHonest
  <2>1. ExitCode # exit => ExitCode = 130 /\ interrupts > 0
    BY DEF InvocationInv, ReportInv, ExitInv, ExitCode
  <2>2. Claims /\ (exit = 0 <=> reason \in GoodReasons)
    BY DEF InvocationInv, ReasonInv
  <2> QED
    BY <2>1, <2>2 DEF ReasonHonest, Claims, Settled, KeptRemotely
<1> QED
  BY <1>1, InvocationInvariant, PTL

-----------------------------------------------------------------------------
(* What the exit code says                                                 *)

\* Pairs and labels the BEP names are those of its events.
LEMMA BepLabels ==
  ASSUME NEW E
  PROVE  LET bep == ParseBep(E)
             labels == {e.label : e \in E}
         IN  /\ \A p \in bep.eligible \cup bep.cached \cup bep.remote : p[1] \in labels
             /\ bep.skipped \subseteq labels
<1> DEFINE labels == {e.label : e \in E}
<1>1. \A e \in Results(E) : e \in E
  BY DEF Results
<1>2. \A e \in E : \A p \in MappedPairs(e) \cup RemotePairs(e) : p[1] = e.label
  <2>1. \A e \in E : \A p \in MappedPairs(e) : p[1] = e.label
    BY DEF MappedPairs
  <2>2. \A e \in E : \A p \in RemotePairs(e) : p[1] = e.label
    BY DEF RemotePairs
  <2> QED
    BY <2>1, <2>2
<1>3. \A p \in ParseBep(E).eligible : \E e \in E : p \in MappedPairs(e)
  BY <1>1 DEF ParseBep
<1>4. \A p \in ParseBep(E).cached : \E e \in E : p \in MappedPairs(e)
  BY <1>1 DEF ParseBep
<1>5. \A p \in ParseBep(E).remote : \E e \in E : p \in RemotePairs(e)
  BY <1>1 DEF ParseBep
<1>6. \A p \in ParseBep(E).eligible \cup ParseBep(E).cached \cup ParseBep(E).remote :
        p[1] \in labels
  BY <1>2, <1>3, <1>4, <1>5
<1>7. ParseBep(E).skipped \subseteq labels
  BY DEF ParseBep
<1> QED
  BY <1>6, <1>7

\* The plan from the BEP, in terms of the events.
LEMMA BepPlanFields ==
  ASSUME InvocationInv, plan.source = "bep"
  PROVE  LET bep == ParseBep(events)
         IN  /\ plan.eligible = Expected(bep.eligible \cup staged, targets)
             /\ plan.cached = Expected(bep.cached, targets)
             /\ plan.remote = Expected(bep.remote \ staged, targets)
             /\ plan.skipped = ExpectedLabels(bep.skipped, targets)
             /\ staged \subseteq Stageable(bep.refs, cfg.remoteArtifacts)
<1>1. Known /\ plan = BepPlan("bep", facts, targets, cfg.remoteArtifacts, StagingRequested(cfg))
  BY DEF InvocationInv, PlanInv
<1>2. /\ plan.eligible = Expected(facts.eligible, targets)
      /\ plan.cached = Expected(facts.cached, targets)
      /\ plan.remote = Expected(facts.remote, targets)
      /\ plan.skipped = ExpectedLabels(facts.skipped, targets)
  BY <1>1 DEF BepPlan
<1> QED
  BY <1>1, <1>2 DEF Known

LEMMA RepresentedByEvents ==
  ASSUME InvocationInv, plan.source = "bep"
  PROVE  Represented(plan) \subseteq {e.label : e \in events}
<1> DEFINE labels == {e.label : e \in events}
<1>1. \A p \in staged : p[1] \in labels
  <2>1. ASSUME NEW p \in staged PROVE p[1] \in labels
    <3>1. p \in Stageable(ParseBep(events).refs, cfg.remoteArtifacts)
      BY BepPlanFields
    <3>2. PICK e \in Results(events) : p \in MappedPairs(e)
      BY <3>1, StagedReference
    <3>3. e \in events /\ p[1] = e.label
      BY <3>2 DEF MappedPairs, Results
    <3> QED
      BY <3>3
  <2> QED
    BY <2>1
<1>2. /\ \A p \in ParseBep(events).eligible \cup ParseBep(events).cached
                    \cup ParseBep(events).remote : p[1] \in labels
      /\ ParseBep(events).skipped \subseteq labels
  BY BepLabels
<1> HIDE DEF labels
<1>3. \A p \in plan.eligible \cup plan.cached \cup plan.remote : p[1] \in labels
  BY <1>1, <1>2, BepPlanFields DEF Expected
<1>4. plan.skipped \subseteq labels
  BY <1>2, BepPlanFields DEF ExpectedLabels
<1>5. Represented(plan) \subseteq labels
  BY <1>3, <1>4 DEF Represented
<1> QED
  BY <1>5 DEF labels

\* What an exit code 0 leaves of the accounting.
LEMMA Accounting ==
  ASSUME AccountedFor, plan.source = "bep"
  PROVE  /\ targets \subseteq Represented(plan)
         /\ cfg.failOnError /\ targets # {} =>
              /\ plan.remote = {}
              /\ {p[1] : p \in plan.eligible} \subseteq {p[1] : p \in Handled}
<1>1. AccountingError(plan, targets, cfg.failOnError, Handled) = 0
  BY DEF AccountedFor
<1>2. targets \ Represented(plan) = {}
  BY <1>1 DEF AccountingError
<1>3. cfg.failOnError /\ targets # {} =>
        {p[1] : p \in plan.eligible} \ {p[1] : p \in Handled} = {}
  BY <1>1, <1>2 DEF AccountingError
<1>4. cfg.failOnError /\ targets # {} => plan.remote = {}
  BY <1>1, <1>2, <1>3 DEF AccountingError
<1> QED
  BY <1>2, <1>3, <1>4

\* Exit code 0 with fail-on-error: every execution of an expected target that
\* names an output had a file that succeeded.
LEMMA TraceableIsProcessed ==
  ASSUME InvocationInv, Settled, AccountedFor, plan.source = "bep", cfg.failOnError,
         NEW e \in events, Traceable(e)
  PROVE  \E t \in InFile({"succeeded"}) : tasks[t] = e.label
<1>1. /\ e \in Results(events) /\ ~e.cached /\ e.label \in targets /\ targets # {}
      /\ MappedPairs(e) \cup RemotePairs(e) # {}
  BY DEF Traceable, Results
<1>2. /\ plan.remote = {}
      /\ {p[1] : p \in plan.eligible} \subseteq {p[1] : p \in Handled}
  BY <1>1, Accounting
<1>3. /\ plan.eligible = Expected(ParseBep(events).eligible \cup staged, targets)
      /\ plan.remote = Expected(ParseBep(events).remote \ staged, targets)
  BY BepPlanFields
<1>4. \E p \in plan.eligible : p[1] = e.label
  <2>1. CASE RemotePairs(e) # {}
    <3>1. PICK p \in RemotePairs(e) : TRUE
      BY <2>1
    <3>2. p[1] = e.label
      BY <3>1 DEF RemotePairs
    <3>3. p \in ParseBep(events).remote
      BY <1>1, <3>1 DEF ParseBep
    <3>4. p \in staged
      BY <1>1, <1>2, <1>3, <3>2, <3>3 DEF Expected
    <3>5. p \in plan.eligible
      BY <1>1, <1>3, <3>2, <3>4 DEF Expected
    <3> QED
      BY <3>2, <3>5
  <2>2. CASE RemotePairs(e) = {}
    <3>1. PICK p \in MappedPairs(e) : TRUE
      BY <1>1, <2>2
    <3>2. p[1] = e.label
      BY <3>1 DEF MappedPairs
    <3>3. p \in ParseBep(events).eligible
      BY <1>1, <2>2, <3>1 DEF ParseBep
    <3>4. p \in plan.eligible
      BY <1>1, <1>3, <3>2, <3>3 DEF Expected
    <3> QED
      BY <3>2, <3>4
  <2> QED
    BY <2>1, <2>2
<1>5. e.label \in {p[1] : p \in Handled}
  BY <1>2, <1>4
<1>6. PICK q \in Handled : q[1] = e.label
  BY <1>5
<1>7. PICK t \in InFile({"succeeded"} \cup FailedStatuses) : q = <<tasks[t], t[1]>>
  BY <1>6 DEF Handled
<1>8. t \in InFile({"succeeded"})
  BY <1>7 DEF Settled, InFile
<1> QED
  BY <1>6, <1>7, <1>8

\* Exit code 0 means what CI takes it for, and 130 is the code of an interrupted
\* run unless an error that nobody handles ends it, for every BEP, configuration
\* and course of the run.
THEOREM ExitCodesAreHonest == Spec => []ExitHonest
<1>1. InvocationInv => ExitHonest
  <2> SUFFICES ASSUME InvocationInv, pc = "done"
               PROVE  /\ ExitCode = 130 <=> interrupts > 0 /\ escaped # 1
                      /\ ExitCode = 0 =>
                           /\ reported
                           /\ InFile({"untouched", "owned"} \cup FailedStatuses) = {}
                           /\ plan.source = "bep" => targets \subseteq {e.label : e \in events}
                           /\ plan.source = "bep" /\ cfg.failOnError =>
                                \A e \in events : Traceable(e) =>
                                  \E t \in InFile({"succeeded"}) : tasks[t] = e.label
    BY DEF ExitHonest
  <2>1. ExitCode = 130 <=> interrupts > 0 /\ escaped # 1
    <3>1. /\ escaped \in {0, 1, 130}
          /\ exit = 130 \/ escaped = 130 => interrupts > 0
          /\ interrupts > 0 => exit = 130 \/ escaped # 0
      BY DEF InvocationInv, ExitInv, Undecided, PreflightSteps
    <3> QED
      BY <3>1 DEF ExitCode
  <2>2. ASSUME ExitCode = 0 PROVE reported /\ Settled /\ AccountedFor
    <3>1. exit = 0 /\ escaped = 0
      BY <2>2 DEF ExitCode
    <3>2. reported
      BY <3>1 DEF InvocationInv, ReportInv
    <3>3. Settled /\ AccountedFor
      BY <3>1, <3>2 DEF InvocationInv, ExitInv
    <3> QED
      BY <3>2, <3>3
  <2>3. ASSUME ExitCode = 0, plan.source = "bep"
        PROVE  targets \subseteq {e.label : e \in events}
    BY <2>2, <2>3, Accounting, RepresentedByEvents
  <2>4. ASSUME ExitCode = 0, plan.source = "bep", cfg.failOnError, NEW e \in events,
               Traceable(e)
        PROVE  \E t \in InFile({"succeeded"}) : tasks[t] = e.label
    BY <2>2, <2>4, TraceableIsProcessed
  <2> QED
    BY <2>1, <2>2, <2>3, <2>4 DEF Settled
<1> QED
  BY <1>1, InvocationInvariant, PTL

-----------------------------------------------------------------------------
(* What the report counts                                                  *)

LEMMA DisjointUnion ==
  ASSUME NEW S, IsFiniteSet(S), NEW T, IsFiniteSet(T), S \cap T = {}
  PROVE  /\ IsFiniteSet(S \cup T)
         /\ Cardinality(S \cup T) = Cardinality(S) + Cardinality(T)
         /\ Cardinality(S) \in Nat /\ Cardinality(T) \in Nat
<1>1. /\ IsFiniteSet(S \cup T)
      /\ Cardinality(S \cup T) = Cardinality(S) + Cardinality(T) - Cardinality({})
  BY FS_Union
<1>2. Cardinality(S) \in Nat /\ Cardinality(T) \in Nat /\ Cardinality({}) = 0
  BY FS_CardinalityType, FS_EmptySet
<1> QED
  BY <1>1, <1>2

\* Counting statuses in the report is counting files.
LEMMA CountIsFiles ==
  ASSUME FilesInv, Counted, NEW states \in SUBSET FileResults
  PROVE  StatusCount(report, states) = Cardinality(InFile(states))
<1>1. {k \in DOMAIN report.results : report.results[k] \in states} = InFile(states)
  BY DEF Counted, InFile
<1> QED
  BY <1>1 DEF StatusCount

LEMMA EmptyReportCounts ==
  ASSUME NEW states
  PROVE  StatusCount(EmptyReport, states) = 0
<1>1. EmptyReport.results = <<>>
  BY DEF EmptyReport, Aggregate
<1>2. {k \in DOMAIN EmptyReport.results : EmptyReport.results[k] \in states} = {}
  BY <1>1, NothingInside
<1> QED
  BY <1>2, FS_EmptySet DEF StatusCount

\* The fields of the document, in terms of the report.
LEMMA DocumentFields ==
  /\ FinalDocument.result = ResultName(report, exit)
  /\ FinalDocument.context = LegacyContext
  /\ FinalDocument.failures = StatusCount(report, FailedStatuses)
  /\ FinalDocument.uploaded = IF ~cfg.dryRun THEN StatusCount(report, {"succeeded"}) ELSE 0
  /\ FinalDocument.files.discovered = LegacyContext.discovered
  /\ FinalDocument.files.eligible = Cardinality(DOMAIN report.results) + report.cancelled
  /\ FinalDocument.files.succeeded = StatusCount(report, {"succeeded"})
  /\ FinalDocument.files.skipped = StatusCount(report, {"skipped"})
BY DEF FinalDocument, Document, Statistics, LegacyCounts

\* The files that were processed and those that were not are all there are.
LEMMA EligibleIsAll ==
  ASSUME OutputsInv, FilesInv, Counted
  PROVE  Cardinality(DOMAIN report.results) + report.cancelled = Cardinality(DOMAIN file)
<1>1. InFile(FileResults) \subseteq DOMAIN file
  BY DEF InFile
<1>2. IsFiniteSet(DOMAIN file) /\ IsFiniteSet(InFile(FileResults))
  BY <1>1, FilesAreFinite, FS_Subset
<1>3. Cardinality(DOMAIN file) \in Nat /\ Cardinality(InFile(FileResults)) \in Nat
  BY <1>2, FS_CardinalityType
<1>4. /\ Cardinality(DOMAIN report.results) = Cardinality(InFile(FileResults))
      /\ report.cancelled = Cardinality(DOMAIN file) - Cardinality(InFile(FileResults))
  BY DEF Counted
<1> QED
  BY <1>3, <1>4

\* The files of disjoint sets of outputs are disjoint.
LEMMA FilesOfUnion ==
  ASSUME OutputsInv, NEW S, NEW T, S \subseteq DOMAIN outputs, T \subseteq DOMAIN outputs,
         S \cap T = {}
  PROVE  /\ FilesIn(S \cup T) = FilesIn(S) \cup FilesIn(T)
         /\ Cardinality(FilesIn(S \cup T)) =
              Cardinality(FilesIn(S)) + Cardinality(FilesIn(T))
         /\ Cardinality(FilesIn(S)) \in Nat /\ Cardinality(FilesIn(T)) \in Nat
<1>1. FilesIn(S \cup T) = FilesIn(S) \cup FilesIn(T)
  BY DEF FilesIn
<1>2. /\ \A t \in FilesIn(S) : t[1] \in S
      /\ \A t \in FilesIn(T) : t[1] \in T
  BY DEF FilesIn
<1>3. FilesIn(S) \cap FilesIn(T) = {}
  BY <1>2
<1>4. IsFiniteSet(FilesIn(S)) /\ IsFiniteSet(FilesIn(T))
  BY FilesAreFinite
<1> QED
  BY <1>1, <1>3, <1>4, DisjointUnion

\* Every payload file is admitted, skipped with its output by freshness, or of
\* no expected target.
LEMMA PayloadsAreAccounted ==
  ASSUME OutputsInv, FilesInv, Filtered
  PROVE  /\ LegacyContext.discovered =
              Cardinality(DOMAIN file) + Cardinality(FilesIn(OutputsWith("skip")))
                + Cardinality(FilesIn(DOMAIN outputs \ DOMAIN Selection))
         /\ LegacyContext.skipped = Cardinality({t[1] : t \in FilesIn(OutputsWith("skip"))})
<1> DEFINE skips == OutputsWith("skip")
           foreign == DOMAIN outputs \ DOMAIN Selection
<1>1. /\ LegacyContext.discovered = Cardinality(FilesIn(DOMAIN outputs))
      /\ LegacyContext.skipped = Cardinality(skips)
  BY DEF LegacyContext, Filtered
<1>2. \A k : Verdict(k) \in {"take", "refuse", "skip"}
  BY DEF Verdict, Admission
<1>3. OutputsWith("refuse") = {} /\ DOMAIN file = FilesIn(Admitted)
  BY DEF Filtered, FilterFails
<1>4. /\ Admitted \subseteq DOMAIN outputs /\ skips \subseteq DOMAIN outputs
      /\ foreign \subseteq DOMAIN outputs
      /\ Admitted \cap skips = {} /\ (Admitted \cup skips) \cap foreign = {}
  BY DEF Admitted, OutputsWith, Candidate
<1>5. FilesIn(DOMAIN outputs) = FilesIn((Admitted \cup skips) \cup foreign)
  <2>1. ASSUME NEW k \in DOMAIN outputs, NEW f \in outputs[k].files
        PROVE  k \in (Admitted \cup skips) \cup foreign
    BY <1>2, <1>3, <2>1 DEF Admitted, OutputsWith, Candidate
  <2>2. \A t \in FilesIn(DOMAIN outputs) : t \in FilesIn((Admitted \cup skips) \cup foreign)
    <3> HIDE DEF skips, foreign
    <3> QED
      BY <2>1 DEF FilesIn
  <2>3. \A t \in FilesIn((Admitted \cup skips) \cup foreign) : t \in FilesIn(DOMAIN outputs)
    <3> HIDE DEF skips, foreign
    <3> QED
      BY <1>4 DEF FilesIn
  <2> QED
    BY <2>2, <2>3
<1>6. {t[1] : t \in FilesIn(skips)} = skips
  <2>1. \A k \in skips : \E f \in outputs[k].files : <<k, f>> \in FilesIn(skips)
    BY DEF OutputsWith, Candidate, FilesIn
  <2>2. \A t \in FilesIn(skips) : t[1] \in skips
    <3> HIDE DEF skips
    <3> QED
      BY DEF FilesIn
  <2> HIDE DEF skips
  <2>3. ASSUME NEW k \in skips PROVE \E t \in FilesIn(skips) : t[1] = k
    <3>1. PICK f \in outputs[k].files : <<k, f>> \in FilesIn(skips)
      BY <2>1
    <3> QED
      BY <3>1
  <2> QED
    BY <2>2, <2>3
<1> HIDE DEF skips, foreign
<1>7. /\ Cardinality(FilesIn(Admitted \cup skips)) =
           Cardinality(FilesIn(Admitted)) + Cardinality(FilesIn(skips))
      /\ Cardinality(FilesIn(Admitted)) \in Nat /\ Cardinality(FilesIn(skips)) \in Nat
  BY <1>4, FilesOfUnion
<1>8. /\ Cardinality(FilesIn((Admitted \cup skips) \cup foreign)) =
           Cardinality(FilesIn(Admitted \cup skips)) + Cardinality(FilesIn(foreign))
      /\ Cardinality(FilesIn(foreign)) \in Nat
  <2>1. Admitted \cup skips \subseteq DOMAIN outputs
    BY <1>4
  <2> QED
    BY <1>4, <2>1, FilesOfUnion
<1>9. Cardinality(FilesIn(DOMAIN outputs)) =
        Cardinality(DOMAIN file) + Cardinality(FilesIn(skips)) + Cardinality(FilesIn(foreign))
  BY <1>3, <1>5, <1>7, <1>8
<1> QED
  BY <1>1, <1>6, <1>9 DEF skips, foreign

\* A successful run has nothing but successes and skips.
LEMMA SuccessIsComplete ==
  ASSUME OutputsInv, FilesInv, Counted, Settled
  PROVE  /\ StatusCount(report, {"succeeded"}) + StatusCount(report, {"skipped"})
              = Cardinality(DOMAIN file)
         /\ StatusCount(report, FailedStatuses) = 0
<1> DEFINE good == InFile({"succeeded"})
           skips == InFile({"skipped"})
<1>1. good \cup skips = DOMAIN file
  BY DEF FilesInv, Settled, InFile, FileResults
<1>2. good \cap skips = {}
  BY DEF InFile
<1>3. InFile(FailedStatuses) = {}
  BY DEF Settled, InFile
<1>4. IsFiniteSet(good) /\ IsFiniteSet(skips)
  BY <1>1, FilesAreFinite, FS_Subset
<1>5. /\ StatusCount(report, {"succeeded"}) = Cardinality(good)
      /\ StatusCount(report, {"skipped"}) = Cardinality(skips)
      /\ StatusCount(report, FailedStatuses) = Cardinality({})
  BY <1>3, CountIsFiles DEF FileResults
<1> HIDE DEF good, skips
<1>6. Cardinality(DOMAIN file) = Cardinality(good) + Cardinality(skips)
  BY <1>1, <1>2, <1>4, DisjointUnion
<1> QED
  BY <1>5, <1>6, FS_EmptySet

\* A run called a failure sent no file.
LEMMA FailureSentNothing ==
  ASSUME OutputsInv, FilesInv, Counted, ResultName(report, exit) = "failure"
  PROVE  InFile({"succeeded", "partial"}) = {}
<1> DEFINE sent == InFile({"succeeded", "partial"})
<1>1. ~(StatusCount(report, {"succeeded", "partial"}) > 0)
  BY DEF ResultName
<1>2. StatusCount(report, {"succeeded", "partial"}) = Cardinality(sent)
  BY CountIsFiles DEF FileResults, FailedStatuses
<1>3. IsFiniteSet(sent)
  <2>1. sent \subseteq DOMAIN file
    BY DEF InFile
  <2> QED
    BY <2>1, FilesAreFinite, FS_Subset
<1> HIDE DEF sent
<1>4. Cardinality(sent) = 0
  BY <1>1, <1>2, <1>3, FS_CardinalityType
<1> QED
  BY <1>3, <1>4, FS_EmptySet DEF sent

\* The document accounts for every payload file of every output, whatever the
\* workers, the user and the checks after the workers did.
THEOREM ReportAccountsForFiles == Spec => []ReportAccounts
<1> DEFINE document == FinalDocument
           files == document.files
           skipped == FilesIn(OutputsWith("skip"))
<1>1. ASSUME InvocationInv, reported PROVE ReportAccounts
  <2> USE <1>1
  <2> USE DEF InvocationInv
  <2>1. completed => Counted /\ Filtered
    BY DEF ReportInv, FilesInv
  <2>2. completed =>
          /\ \A t \in DOMAIN file :
               IF t \in DOMAIN report.results THEN report.results[t] = file[t]
               ELSE file[t] = "untouched"
          /\ files.eligible = Cardinality(DOMAIN file)
          /\ files.discovered = files.eligible + Cardinality(skipped)
               + Cardinality(FilesIn(DOMAIN outputs \ DOMAIN Selection))
          /\ document.context.skipped = Cardinality({t[1] : t \in skipped})
    <3> SUFFICES ASSUME completed
                 PROVE  /\ \A t \in DOMAIN file :
                             IF t \in DOMAIN report.results THEN report.results[t] = file[t]
                             ELSE file[t] = "untouched"
                        /\ files.eligible = Cardinality(DOMAIN file)
                        /\ files.discovered = files.eligible + Cardinality(skipped)
                             + Cardinality(FilesIn(DOMAIN outputs \ DOMAIN Selection))
                        /\ document.context.skipped = Cardinality({t[1] : t \in skipped})
      OBVIOUS
    <3>1. \A t \in DOMAIN file :
            IF t \in DOMAIN report.results THEN report.results[t] = file[t]
            ELSE file[t] = "untouched"
      BY <2>1 DEF FilesInv, Counted, Owned, InFile
    <3>2. files.eligible = Cardinality(DOMAIN file)
      BY <2>1, DocumentFields, EligibleIsAll
    <3>3. /\ files.discovered = LegacyContext.discovered
          /\ document.context.skipped = LegacyContext.skipped
      BY DocumentFields
    <3> HIDE DEF document, files
    <3> QED
      BY <2>1, <3>1, <3>2, <3>3, PayloadsAreAccounted
  <2>3. document.result = "success" =>
          files.succeeded + files.skipped = files.eligible /\ document.failures = 0
    <3> SUFFICES ASSUME document.result = "success"
                 PROVE  /\ files.succeeded + files.skipped = files.eligible
                        /\ document.failures = 0
      OBVIOUS
    <3>1. exit = 0
      BY DocumentFields DEF ResultName
    <3>2. completed /\ Settled
      BY <3>1 DEF ExitInv
    <3> QED
      BY <2>1, <2>2, <3>2, SuccessIsComplete, DocumentFields
  <2>4. document.result = "failure" /\ completed => InFile({"succeeded", "partial"}) = {}
    BY <2>1, DocumentFields, FailureSentNothing
  <2>5. ~completed => exit = 2 /\ document.uploaded = 0
    BY DocumentFields, EmptyReportCounts DEF ReportInv
  <2> QED
    BY <2>2, <2>3, <2>4, <2>5 DEF ReportAccounts
<1>2. InvocationInv => ReportAccounts
  BY <1>1 DEF ReportAccounts
<1> QED
  BY <1>2, InvocationInvariant, PTL

-----------------------------------------------------------------------------
(* Why every invocation ends                                               *)

Position(point) ==
  CASE point = "start" -> 1 [] point = "targets" -> 2 [] point = "resources" -> 3
    [] point = "source" -> 4 [] point = "parse" -> 5 [] point = "stage" -> 6
    [] point = "merge" -> 7 [] point = "plan" -> 8 [] point = "handover" -> 9
    [] point = "discover" -> 10 [] point = "admit" -> 11 [] point = "prepare" -> 12
    [] point = "work" -> 13 [] point = "draining" -> 14 [] point = "postflight" -> 15
    [] point = "cleanup" -> 16 [] point = "emit" -> 17 [] point = "release" -> 18
    [] point = "done" -> 19 [] OTHER -> 20

\* The main thread comes nearer to the end, and decides about files only when
\* it admits them.
MainAdvances == Position(pc) < Position(pc') /\ (pc = "admit" \/ file' = file)

\* One file comes nearer to its result, which is final.
FileAdvances ==
  /\ pc' = pc
  /\ \E k \in DOMAIN file :
       /\ file' = [file EXCEPT ![k] = file'[k]]
       /\ \/ file[k] = "untouched" /\ file'[k] = "owned"
          \/ file[k] = "owned" /\ file'[k] \in FileResults

EachStepAdvances == [][MainAdvances \/ FileAdvances]_vars

LEMMA PreflightAdvances ==
  ASSUME \/ Acquire \/ LoadTargets \/ LoadResources \/ ChooseSource \/ ReadBep \/ SkipBep
         \/ StageArtifacts \/ MergeStaged \/ BuildPlan \/ HandOver
         \/ Discover \/ Admit \/ Prepare
  PROVE  MainAdvances
<1>1. CASE Acquire \/ LoadTargets \/ LoadResources \/ HandOver \/ Discover \/ Prepare
  BY <1>1 DEF Acquire, LoadTargets, LoadResources, HandOver, Discover, Prepare, Go, work,
              MainAdvances, Position
<1>2. CASE ChooseSource \/ ReadBep \/ SkipBep
  BY <1>2 DEF ChooseSource, ReadBep, SkipBep, Go, work, MainAdvances, Position
<1>3. CASE StageArtifacts \/ MergeStaged \/ BuildPlan
  BY <1>3 DEF StageArtifacts, MergeStaged, BuildPlan, Go, work, MainAdvances, Position
<1>4. CASE Admit
  BY <1>4 DEF Admit, Go, MainAdvances, Position
<1> QED
  BY <1>1, <1>2, <1>3, <1>4

LEMMA LateStepsAdvance ==
  ASSUME \/ PoolReturns \/ PoolInterrupted
         \/ Postflight \/ Cleanup \/ CleanupRefused \/ Emit \/ Unhandled \/ Release
  PROVE  MainAdvances
<1>1. file' = file
  BY DEF PoolReturns, PoolInterrupted, Postflight, Cleanup, CleanupRefused, Emit, Unhandled,
         Release, work
<1>2. \/ pc \in {"parse", "stage", "plan"} /\ pc' = "cleanup"
      \/ pc \in {"work", "draining"} /\ pc' = "postflight"
      \/ pc = "postflight" /\ pc' = "cleanup"
      \/ pc = "cleanup" /\ pc' \in {"emit", "release"}
      \/ pc = "emit" /\ pc' = "release"
      \/ pc = "release" /\ pc' = "done"
  BY UnhandledShape DEF PoolReturns, PoolInterrupted, Postflight, Cleanup, CleanupRefused,
                        AfterCleanup, Emit, Release
<1> QED
  BY <1>1, <1>2 DEF MainAdvances, Position

LEMMA WorkersAdvance ==
  ASSUME WorkerStep
  PROVE  FileAdvances
<1>1. PICK k \in DOMAIN file : Own(k) \/ Finish(k)
  BY DEF WorkerStep
<1>2. CASE Own(k)
  BY <1>2 DEF Own, FileAdvances
<1>3. CASE Finish(k)
  BY <1>3 DEF Finish, FileAdvances
<1> QED
  BY <1>1, <1>2, <1>3

\* Every step brings the main thread nearer to the end or one file nearer to
\* its result, and none takes anything back: no Ctrl-C, failure or later stage
\* runs a stage again, or touches a file that has its result.  So there are at
\* most as many steps as points of the main thread and two for each file.
THEOREM InvocationsAdvance == Spec => EachStepAdvances
<1>1. ASSUME Next PROVE MainAdvances \/ FileAdvances \/ UNCHANGED vars
  <2>1. CASE MainStep
    <3>1. CASE \/ AcquireRefused \/ RefuseTargets \/ RefuseResources \/ RefuseSource \/ RefuseBep
               \/ StagingFailed \/ RefuseMerge \/ RefusePlan \/ DiscoverNothing
               \/ RefuseAdmission \/ PrepareFails \/ PoolFails
      <4>1. pc \in PreflightSteps \cup {"work"} /\ \E remoteOnly \in BOOLEAN : Fail(remoteOnly)
        BY <3>1, FailureShape
      <4>2. pc' = "cleanup" /\ file' = file
        BY <4>1 DEF Fail, work
      <4> QED
        BY <4>1, <4>2 DEF MainAdvances, Position, PreflightSteps
    <3> QED
      BY <2>1, <3>1, PreflightAdvances, LateStepsAdvance DEF MainStep
  <2>2. CASE WorkerStep
    BY <2>2, WorkersAdvance
  <2>3. CASE InterruptPool
    BY <2>3 DEF InterruptPool, work, MainAdvances, Position
  <2>4. CASE Interrupt
    <3>1. file' = file
      BY <2>4 DEF Interrupt, work
    <3>2. \/ pc \in PreflightSteps \cup {"work", "draining", "postflight"} /\ pc' = "cleanup"
          \/ pc \in {"cleanup", "emit"} /\ pc' = "release"
          \/ pc = "release" /\ pc' = "done"
      BY <2>4, InterruptShape
    <3> QED
      BY <3>1, <3>2 DEF MainAdvances, Position, PreflightSteps
  <2> QED
    BY <1>1, <2>1, <2>2, <2>3, <2>4 DEF Next, Done
<1>2. [Next]_vars => [MainAdvances \/ FileAdvances]_vars
  BY <1>1
<1> QED
  BY <1>2, PTL DEF Spec, EachStepAdvances
=============================================================================
