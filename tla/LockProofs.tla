------------------------------ MODULE LockProofs ------------------------------
(***************************************************************************)
(* Proofs about WorkspaceLock and PlatformLock.  When only Python          *)
(* uploaders run, the guard makes reclaiming safe for any number of        *)
(* invocations, attempts, crashes and reused pids.  With Bash uploaders    *)
(* among them the exclusion holds while no owner dies; without that        *)
(* condition run lock_rollout refutes it.  On Windows the lock excludes    *)
(* although the file is unlocked and closed before it is unlinked.         *)
(***************************************************************************)
EXTENDS PlatformLock, TLAPS

\* Only the holder of the guard is between mkdir and the written pid, or
\* inspects, or removes.
GuardExact ==
  \A p \in Procs : pc[p] \in GuardedSteps => guard = p

\* A critical process owns the directory on disk, and nobody is removing it;
\* a process that sets up finds its own fresh directory.
OwnerOnDisk ==
  \A p \in Procs :
    /\ pc[p] = "critical" => lockDir /\ pidFile = p
    /\ pc[p] = "created" => lockDir /\ pidFile = "missing"
    /\ pc[p] = "writing" => lockDir /\ pidFile = "empty" /\ p \in handles
    /\ pc[p] = "unlink" => \A q \in Procs : pc[q] # "critical"
    /\ pc[p] = "rmdir" => pidFile = "missing"

\* A process that inspects or reclaims has an attempt left, and a removal
\* knows where to return to.
AttemptLeft ==
  \A p \in Procs :
    /\ pc[p] = "inspect" => attempt[p] < Attempts
    /\ pc[p] = "checkOwner" => why[p] = "release"
    /\ pc[p] \in Removing =>
         why[p] # "none" /\ (why[p] = "stale" => attempt[p] < Attempts)

Reclaimed ==
  \A p \in Procs :
    /\ pc[p] = "start" => detail[p] = "unavailable"
    /\ pc[p] = "attempt" /\ detail[p] = "stale" =>
         /\ \A q \in Procs : pc[q] # "critical"
         /\ why[p] = "stale" => ~lockDir

\* A pid on disk is that of an invocation that got the lock.
PidFileOwner ==
  /\ ~lockDir => pidFile = "missing"
  /\ \A p \in Procs :
       pidFile = p => \/ pc[p] \in {"critical", "checkOwner"} \cup Ended
                      \/ pc[p] = "unlink" /\ why[p] = "release"

LockInv ==
  /\ TypeOK /\ GuardExact /\ OwnerOnDisk
  /\ AttemptLeft /\ Reclaimed /\ PidFileOwner

LEMMA LockInvInit == Init => LockInv
<1> SUFFICES ASSUME Init PROVE LockInv
  OBVIOUS
<1>1. pc \in [Procs -> Steps]
  BY DEF Init, Steps
<1>2. TypeOK
  <2>1. attempt \in [Procs -> 0..Attempts]
    BY LockAssumption DEF Init
  <2>2. detail \in [Procs -> {"unavailable", "stale", "fresh", "running"}]
    BY DEF Init
  <2>3. why \in [Procs -> {"none", "stale", "undo", "release"}]
    BY DEF Init
  <2>4. /\ lockDir = FALSE /\ pidFile = "missing" /\ handles = {} /\ aged = FALSE
        /\ guard = NoProc /\ reused = {}
    BY DEF Init
  <2> QED
    BY <1>1, <2>1, <2>2, <2>3, <2>4 DEF TypeOK
<1>3. GuardExact /\ OwnerOnDisk /\ AttemptLeft /\ Reclaimed /\ PidFileOwner
  BY LockAssumption DEF Init, GuardExact, OwnerOnDisk, AttemptLeft, Reclaimed, PidFileOwner,
     Procs, GuardedSteps, Removing
<1> QED
  BY <1>2, <1>3 DEF LockInv

-----------------------------------------------------------------------------
(* Type correctness: what one process may write to each variable *)

LEMMA RemovedStep ==
  ASSUME LockInv, NEW p \in Procs, pc[p] \in Removing, Removed(p)
  PROVE  /\ \E s \in {"attempt", "refused", "done"} : pc' = [pc EXCEPT ![p] = s]
         /\ \/ attempt' = attempt /\ LeaveGuard(p) /\ pc'[p] # "attempt"
            \/ /\ attempt[p] < Attempts /\ NextAttempt(p)
               /\ UNCHANGED guard /\ pc'[p] = "attempt"
<1>1. why[p] \in {"stale", "undo", "release"}
  BY DEF LockInv, TypeOK, AttemptLeft
<1>2. why[p] = "stale" => attempt[p] < Attempts
  BY DEF LockInv, AttemptLeft
<1>3. pc \in [Procs -> Steps]
  BY DEF LockInv, TypeOK
<1> QED
  BY <1>1, <1>2, <1>3 DEF Removed

\* What a removal that fails leaves unchanged, and where its process goes.
LEMMA FailedStep ==
  ASSUME LockInv, NEW p \in Procs, RemovalFails(p)
  PROVE  /\ UNCHANGED fileVars /\ pc[p] \in Removing
         /\ why' = [why EXCEPT ![p] = "none"]
         /\ \E s \in {"attempt", "abandoned"} : pc' = [pc EXCEPT ![p] = s]
         /\ \/ attempt' = attempt /\ LeaveGuard(p) /\ pc'[p] = "abandoned"
            \/ /\ attempt[p] < Attempts /\ NextAttempt(p)
               /\ UNCHANGED guard /\ pc'[p] = "attempt"
<1>1. why[p] = "stale" => attempt[p] < Attempts
  BY DEF LockInv, AttemptLeft, RemovalFails
<1>2. pc \in [Procs -> Steps]
  BY DEF LockInv, TypeOK
<1> QED
  BY <1>1, <1>2 DEF RemovalFails

LEMMA LockTypeStep ==
  ASSUME LockInv, [Next]_vars, BashProcs = {}
  PROVE  TypeOK'
<1> USE LockAssumption DEF LockInv, fileVars, procVars, vars, Goto, NextAttempt
<1>1. ASSUME NEW p \in Procs, ProcStep(p) \/ Crash(p)
      PROVE  TypeOK'
  <2> USE DEF ProcStep, Proceeds, Begin, BeginFails, Mkdir, LockExists, MkdirFails,
       Exhausted, CreatePid, CreatePidFails, WritePid, WritePidFails, FoundAlive,
       FoundIncomplete, FoundDead, Unlink, AlreadyGone, Rmdir, RemovalFails, BeginRelease,
       GuardFails, StillOwner, PidUnread, NotOwner, Crash
  <2>1. \E s \in Steps : pc' = [pc EXCEPT ![p] = s]
    BY <1>1, RemovedStep DEF Steps, GuardedSteps, Removing, Ended
  <2>2. \/ attempt' = attempt
        \/ attempt[p] < Attempts /\ attempt' = [attempt EXCEPT ![p] = @ + 1]
    BY <1>1, RemovedStep DEF Removing, AttemptLeft
  <2>3. \/ detail' = detail
        \/ \E d \in {"stale", "fresh", "running"} : detail' = [detail EXCEPT ![p] = d]
    BY <1>1
  <2>4. \/ why' = why
        \/ \E r \in {"none", "stale", "undo", "release"} : why' = [why EXCEPT ![p] = r]
    BY <1>1
  <2>5. pidFile' \in {pidFile, "missing", "empty", p} /\ handles' \subseteq handles \cup {p}
    BY <1>1
  <2>6. lockDir' \in BOOLEAN /\ aged' \in BOOLEAN
    BY <1>1 DEF TypeOK
  <2>7. guard' \in {guard, NoProc, p} /\ reused' = reused
    BY <1>1, RemovedStep DEF Removing, EnterGuard, LeaveGuard
  <2> HIDE DEF ProcStep, Proceeds, Begin, BeginFails, Mkdir, LockExists, MkdirFails,
       Exhausted, CreatePid, CreatePidFails, WritePid, WritePidFails, FoundAlive,
       FoundIncomplete, FoundDead, Unlink, AlreadyGone, Rmdir, RemovalFails, BeginRelease,
       GuardFails, StillOwner, PidUnread, NotOwner, Crash
  <2>8. pc' \in [Procs -> Steps] /\ attempt' \in [Procs -> 0..Attempts]
    BY <2>1, <2>2 DEF TypeOK
  <2>9. /\ detail' \in [Procs -> {"unavailable", "stale", "fresh", "running"}]
        /\ why' \in [Procs -> {"none", "stale", "undo", "release"}]
    BY <2>3, <2>4 DEF TypeOK
  <2> QED
    BY <2>5, <2>6, <2>7, <2>8, <2>9 DEF TypeOK, Procs
<1>2. CASE Age \/ PidReused
  BY <1>2 DEF Age, PidReused, HasOwner, TypeOK
<1>3. CASE Finished \/ UNCHANGED vars
  BY <1>3 DEF Finished, TypeOK
<1> QED
  BY <1>1, <1>2, <1>3 DEF Next

-----------------------------------------------------------------------------
(* One process's step keeps the exclusion on disk *)

LEMMA GuardStep ==
  ASSUME LockInv, BashProcs = {}, NEW p \in Procs, ProcStep(p) \/ Crash(p)
  PROVE  /\ \A q \in Procs : q # p => pc'[q] = pc[q] /\ (guard = q => guard' = q)
         /\ pc'[p] \in GuardedSteps => guard' = p
         /\ \A q \in Procs : q # p /\ pc[p] \in GuardedSteps => pc[q] \notin GuardedSteps
<1> USE DEF LockInv, Goto
<1>1. p \in PyProcs /\ \A q \in Procs : q # NoProc
  BY LockAssumption DEF Procs
<1>2. pc \in [Procs -> Steps]
  BY DEF TypeOK
<1>3. pc[p] \in GuardedSteps => guard = p
  BY DEF GuardExact
<1>4. \A q \in Procs : q # p /\ pc[p] \in GuardedSteps => pc[q] \notin GuardedSteps
  BY <1>3 DEF GuardExact
<1>5. CASE pc[p] \in Removing /\ Removed(p)
  <2>1. PICK s \in {"attempt", "refused", "done"} : pc' = [pc EXCEPT ![p] = s]
    BY <1>5, RemovedStep
  <2>2. (LeaveGuard(p) /\ s # "attempt") \/ UNCHANGED guard
    BY <1>2, <1>5, <2>1, RemovedStep
  <2>3. guard = p
    BY <1>3, <1>5 DEF GuardedSteps
  <2> QED
    BY <1>2, <1>4, <2>1, <2>2, <2>3 DEF LeaveGuard, GuardedSteps, Removing
<1>6. CASE Crash(p)
  BY <1>1, <1>2, <1>4, <1>6 DEF Crash, LeaveGuard, GuardedSteps, Removing
<1>7. CASE ProcStep(p) /\ ~(AlreadyGone(p) \/ Rmdir(p))
  BY <1>1, <1>2, <1>3, <1>4, <1>7 DEF ProcStep, Proceeds, Begin, BeginFails, Mkdir,
     LockExists, MkdirFails, Exhausted, CreatePid, CreatePidFails, WritePid, WritePidFails,
     FoundAlive, FoundIncomplete, FoundDead, Unlink, RemovalFails, BeginRelease,
     GuardFails, StillOwner, PidUnread, NotOwner, EnterGuard, LeaveGuard, Guarded,
     GuardedSteps, Removing
<1> QED
  BY <1>5, <1>6, <1>7 DEF ProcStep, Proceeds, AlreadyGone, Rmdir, Removing

\* What p's step may leave of the directory and of p's place in it.
LEMMA OwnerStep ==
  ASSUME LockInv, BashProcs = {}, NEW p \in Procs, ProcStep(p) \/ Crash(p)
  PROVE  OwnerOnDisk'
<1> USE DEF LockInv, Goto, fileVars
<1>1. p \in PyProcs /\ \A q \in Procs : q \notin {NoProc, "missing", "empty"}
  BY LockAssumption DEF Procs
<1>2. pc \in [Procs -> Steps]
  BY DEF TypeOK
<1>3. \A q \in Procs : q # p => pc'[q] = pc[q]
  BY GuardStep
<1>4. \A q \in Procs : q # p /\ pc[p] \in GuardedSteps => pc[q] \notin GuardedSteps
  BY GuardStep
<1>5. CASE pc[p] \notin GuardedSteps
  <2>1. UNCHANGED <<lockDir, pidFile>> /\ handles \ {p} \subseteq handles'
        /\ pc'[p] \in {"attempt", "refused", "checkOwner", "abandoned", "crashed"}
    BY <1>1, <1>2, <1>5 DEF ProcStep, Proceeds, Begin, BeginFails, Mkdir, LockExists,
       MkdirFails, Exhausted, CreatePid, CreatePidFails, WritePid, WritePidFails,
       FoundAlive, FoundIncomplete, FoundDead, Unlink, AlreadyGone, Rmdir, RemovalFails,
       BeginRelease, GuardFails, StillOwner, PidUnread, NotOwner, Crash, Guarded,
       GuardedSteps, Removing
  <2> QED
    BY <2>1, <1>3 DEF OwnerOnDisk
<1>6. CASE pc[p] \in GuardedSteps
  <2>1. \A q \in Procs : q # p => pc'[q] \notin GuardedSteps
    BY <1>3, <1>4, <1>6
  <2>2. ASSUME NEW q \in Procs, q # p, pc[q] = "critical"
        PROVE  lockDir' /\ pidFile' = q
    <3>1. lockDir /\ pidFile = q
      BY <2>2 DEF OwnerOnDisk
    <3>2. pc[p] \notin {"created", "writing", "unlink", "rmdir"}
      BY <1>1, <2>2, <3>1 DEF OwnerOnDisk
    <3> QED
      BY <3>1, <3>2, <1>6 DEF ProcStep, Proceeds, Begin, BeginFails, Mkdir, LockExists,
         MkdirFails, Exhausted, CreatePid, CreatePidFails, WritePid, WritePidFails,
         FoundAlive, FoundIncomplete, FoundDead, Unlink, AlreadyGone, Rmdir, RemovalFails,
         BeginRelease, GuardFails, StillOwner, PidUnread, NotOwner, Crash, GuardedSteps,
         Removing
  <2>3. /\ pc'[p] = "critical" => lockDir' /\ pidFile' = p
        /\ pc'[p] = "created" => lockDir' /\ pidFile' = "missing"
        /\ pc'[p] = "writing" => lockDir' /\ pidFile' = "empty" /\ p \in handles'
    <3>1. CASE pc[p] \in Removing /\ Removed(p)
      BY <1>2, <3>1, RemovedStep
    <3>2. CASE ~(AlreadyGone(p) \/ Rmdir(p))
      BY <1>2, <1>6, <3>2 DEF ProcStep, Proceeds, Begin, BeginFails, Mkdir, LockExists,
         MkdirFails, Exhausted, CreatePid, CreatePidFails, WritePid, WritePidFails,
         FoundAlive, FoundIncomplete, FoundDead, Unlink, RemovalFails, BeginRelease,
         GuardFails, StillOwner, PidUnread, NotOwner, Crash, GuardedSteps, Removing,
         OwnerOnDisk
    <3> QED
      BY <3>1, <3>2 DEF AlreadyGone, Rmdir, Removing
  <2>4. pc'[p] = "rmdir" => pidFile' = "missing"
    <3>1. CASE pc[p] \in Removing /\ Removed(p)
      BY <1>2, <3>1, RemovedStep
    <3>2. CASE ~(AlreadyGone(p) \/ Rmdir(p))
      BY <1>2, <1>6, <3>2 DEF ProcStep, Proceeds, Begin, BeginFails, Mkdir, LockExists,
         MkdirFails, Exhausted, CreatePid, CreatePidFails, WritePid, WritePidFails,
         FoundAlive, FoundIncomplete, FoundDead, Unlink, RemovalFails, BeginRelease,
         GuardFails, StillOwner, PidUnread, NotOwner, Crash, GuardedSteps, Removing,
         OwnerOnDisk
    <3> QED
      BY <3>1, <3>2 DEF AlreadyGone, Rmdir, Removing
  <2>5. pc'[p] = "unlink" => \A q \in Procs : pc'[q] # "critical"
    <3> SUFFICES ASSUME pc'[p] = "unlink", NEW q \in Procs, pc'[q] = "critical"
                 PROVE  FALSE
      OBVIOUS
    <3>1. q # p /\ pc[q] = "critical" /\ lockDir /\ pidFile = q /\ Alive(q)
      BY <1>3 DEF OwnerOnDisk, Alive, Ended
    <3>2. LockState = "alive"
      BY <3>1 DEF LockState, HasOwner
    <3>3. CASE pc[p] \in Removing /\ Removed(p)
      BY <1>2, <3>3, RemovedStep
    <3>4. CASE ~(AlreadyGone(p) \/ Rmdir(p))
      BY <1>1, <1>2, <1>6, <3>1, <3>2, <3>4 DEF ProcStep, Proceeds, Begin, BeginFails,
         Mkdir, LockExists, MkdirFails, Exhausted, CreatePid, CreatePidFails, WritePid,
         WritePidFails, FoundAlive, FoundIncomplete, FoundDead, Unlink, RemovalFails,
         BeginRelease, GuardFails, StillOwner, PidUnread, NotOwner, Crash, GuardedSteps,
         Removing, OwnerOnDisk
    <3> QED
      BY <3>3, <3>4 DEF AlreadyGone, Rmdir, Removing
  <2> QED
    BY <1>3, <2>1, <2>2, <2>3, <2>4, <2>5 DEF OwnerOnDisk, GuardedSteps, Removing
<1> QED
  BY <1>5, <1>6

LEMMA AttemptStep ==
  ASSUME LockInv, NEW p \in Procs, ProcStep(p) \/ Crash(p)
  PROVE  AttemptLeft'
<1> USE LockAssumption DEF LockInv, Goto, NextAttempt
<1>1. /\ pc \in [Procs -> Steps] /\ attempt \in [Procs -> 0..Attempts]
      /\ why \in [Procs -> {"none", "stale", "undo", "release"}]
  BY DEF TypeOK
<1>2. CASE pc[p] \in Removing /\ Removed(p) /\ UNCHANGED why
  BY <1>1, <1>2, RemovedStep DEF AttemptLeft, Removing
<1>3. CASE ~(AlreadyGone(p) \/ Rmdir(p))
  <2> USE <1>1, <1>3 DEF ProcStep, Proceeds, Begin, BeginFails, Mkdir, LockExists,
       MkdirFails, Exhausted, CreatePid, CreatePidFails, WritePid, WritePidFails,
       FoundAlive, FoundIncomplete, FoundDead, Unlink, RemovalFails, BeginRelease,
       GuardFails, StillOwner, PidUnread, NotOwner, Crash
  <2>1. \A q \in Procs : q # p =>
          pc'[q] = pc[q] /\ attempt'[q] = attempt[q] /\ why'[q] = why[q]
    OBVIOUS
  <2>2. pc'[p] = "inspect" => attempt'[p] < Attempts
    OBVIOUS
  <2>3. pc'[p] = "rmdir" =>
          pc[p] = "unlink" /\ why'[p] = why[p] /\ attempt'[p] = attempt[p]
    BY DEF Removing
  <2>5. pc'[p] = "checkOwner" => why'[p] = "release"
    OBVIOUS
  <2>4. pc'[p] = "unlink" =>
          why'[p] # "none" /\ (why'[p] = "stale" => attempt'[p] < Attempts)
    <3>1. CASE FoundDead(p)
      BY <3>1 DEF AttemptLeft
    <3>2. CASE ~FoundDead(p)
      <4>1. pc'[p] = "unlink" => why'[p] \in {"undo", "release"} \/ pc[p] = "checkOwner"
        BY <3>2
      <4>2. pc[p] = "checkOwner" /\ pc'[p] = "unlink" => why'[p] = "release"
        BY <3>2 DEF AttemptLeft
      <4> QED
        BY <4>1, <4>2
    <3> QED
      BY <3>1, <3>2
  <2> HIDE DEF ProcStep, Proceeds, Begin, BeginFails, Mkdir, LockExists, MkdirFails,
       Exhausted, CreatePid, CreatePidFails, WritePid, WritePidFails, FoundAlive,
       FoundIncomplete, FoundDead, Unlink, RemovalFails, BeginRelease, GuardFails,
       StillOwner, PidUnread, NotOwner, Crash
  <2> QED
    BY <2>1, <2>2, <2>3, <2>4, <2>5 DEF AttemptLeft, Removing
<1> QED
  BY <1>2, <1>3 DEF AlreadyGone, Rmdir, Removing

\* A reclaimer that goes for its next attempt has removed the directory, and
\* nobody else can make one while it holds the guard.
LEMMA ReclaimStep ==
  ASSUME LockInv, BashProcs = {}, NEW p \in Procs, ProcStep(p) \/ Crash(p)
  PROVE  Reclaimed'
<1> USE DEF LockInv, Goto
<1>1. /\ pc \in [Procs -> Steps] /\ attempt \in [Procs -> 0..Attempts]
      /\ detail \in [Procs -> {"unavailable", "stale", "fresh", "running"}]
  BY DEF TypeOK
<1>2. \A q \in Procs : q # p => pc'[q] = pc[q] /\ detail'[q] = detail[q]
                                /\ attempt'[q] = attempt[q]
  <2>1. \A q \in Procs : q # p => pc'[q] = pc[q]
    BY GuardStep
  <2>2. \A q \in Procs : q # p => detail'[q] = detail[q] /\ attempt'[q] = attempt[q]
    BY <1>1, RemovedStep DEF ProcStep, Proceeds, Begin, BeginFails, Mkdir, LockExists,
       MkdirFails, Exhausted, CreatePid, CreatePidFails, WritePid, WritePidFails,
       FoundAlive, FoundIncomplete, FoundDead, Unlink, AlreadyGone, Rmdir, RemovalFails,
       BeginRelease, GuardFails, StillOwner, PidUnread, NotOwner, Crash, NextAttempt,
       Removing
  <2> QED
    BY <2>1, <2>2
<1>3. ~lockDir /\ lockDir' => pc[p] \in GuardedSteps
  BY DEF ProcStep, Proceeds, Begin, BeginFails, Mkdir, LockExists, MkdirFails, Exhausted,
     CreatePid, CreatePidFails, WritePid, WritePidFails, FoundAlive, FoundIncomplete,
     FoundDead, Unlink, AlreadyGone, Rmdir, RemovalFails, BeginRelease, GuardFails,
     StillOwner, PidUnread, NotOwner, Crash, fileVars, GuardedSteps
<1>4. \A q \in Procs : q # p /\ pc[p] \in GuardedSteps => pc[q] # "attempt"
  BY GuardStep DEF GuardedSteps
<1>5. pc'[p] # "start"
  BY <1>1, RemovedStep DEF ProcStep, Proceeds, Begin, BeginFails, Mkdir, LockExists,
     MkdirFails, Exhausted, CreatePid, CreatePidFails, WritePid, WritePidFails, FoundAlive,
     FoundIncomplete, FoundDead, Unlink, AlreadyGone, Rmdir, RemovalFails, BeginRelease,
     GuardFails, StillOwner, PidUnread, NotOwner, Crash, Removing, Guarded
<1>6. pc'[p] = "attempt" /\ detail'[p] = "stale" /\ why'[p] = "stale" => ~lockDir'
  <2>1. CASE Rmdir(p)
    BY <2>1 DEF Rmdir, OwnerOnDisk
  <2>2. CASE AlreadyGone(p)
    BY <2>2 DEF AlreadyGone, fileVars
  <2>4. CASE RemovalFails(p)
    BY <1>1, <2>4 DEF RemovalFails, TypeOK
  <2>3. CASE ~(Rmdir(p) \/ AlreadyGone(p) \/ RemovalFails(p))
    BY <1>1, <2>3 DEF ProcStep, Proceeds, Begin, BeginFails, Mkdir, LockExists, MkdirFails,
       Exhausted, CreatePid, CreatePidFails, WritePid, WritePidFails, FoundAlive,
       FoundIncomplete, FoundDead, Unlink, BeginRelease, GuardFails, StillOwner, PidUnread,
       NotOwner, Crash, Guarded, Reclaimed
  <2> QED
    BY <2>1, <2>2, <2>3, <2>4
<1>7. pc'[p] = "attempt" /\ detail'[p] = "stale" => \A q \in Procs : pc[q] # "critical"
  <2>1. CASE pc[p] = "start"
    BY <1>1, <2>1 DEF ProcStep, Proceeds, Begin, BeginFails, Mkdir, LockExists, MkdirFails,
       Exhausted, CreatePid, CreatePidFails, WritePid, WritePidFails, FoundAlive,
       FoundIncomplete, FoundDead, Unlink, AlreadyGone, Rmdir, RemovalFails, BeginRelease,
       GuardFails, StillOwner, PidUnread, NotOwner, Crash, Removing, Reclaimed
  <2>2. CASE pc[p] = "unlink"
    BY <2>2 DEF OwnerOnDisk
  <2>3. CASE pc[p] = "rmdir"
    <3>1. pidFile = "missing" /\ \A q \in Procs : q # "missing"
      BY <2>3, LockAssumption DEF OwnerOnDisk, Procs
    <3> QED
      BY <3>1 DEF OwnerOnDisk
  <2>4. pc'[p] = "attempt" /\ detail'[p] = "stale" => pc[p] \in {"start"} \cup Removing
    BY <1>1 DEF ProcStep, Proceeds, Begin, BeginFails, Mkdir, LockExists, MkdirFails,
       Exhausted, CreatePid, CreatePidFails, WritePid, WritePidFails, FoundAlive,
       FoundIncomplete, FoundDead, Unlink, AlreadyGone, Rmdir, RemovalFails, BeginRelease,
       GuardFails, StillOwner, PidUnread, NotOwner, Crash, Removing, Guarded
  <2> QED
    BY <2>1, <2>2, <2>3, <2>4 DEF Removing
<1>8. pc'[p] = "critical" => pc[p] = "writing"
  <2>1. CASE pc[p] \in Removing /\ Removed(p)
    BY <1>1, <2>1, RemovedStep
  <2>2. CASE RemovalFails(p)
    BY <1>1, <2>2, FailedStep
  <2>3. CASE ~(Rmdir(p) \/ AlreadyGone(p) \/ RemovalFails(p))
    BY <1>1, <2>3 DEF ProcStep, Proceeds, Begin, BeginFails, Mkdir, LockExists, MkdirFails,
       Exhausted, CreatePid, CreatePidFails, WritePid, WritePidFails, FoundAlive,
       FoundIncomplete, FoundDead, Unlink, BeginRelease, GuardFails, StillOwner, PidUnread,
       NotOwner, Crash, Guarded
  <2> QED
    BY <2>1, <2>2, <2>3 DEF Rmdir, AlreadyGone, Removing
<1>9. \A q \in Procs : q # p => why'[q] = why[q]
  BY DEF ProcStep, Proceeds, Begin, BeginFails, Mkdir, LockExists, MkdirFails, Exhausted,
     CreatePid, CreatePidFails, WritePid, WritePidFails, FoundAlive, FoundIncomplete,
     FoundDead, Unlink, AlreadyGone, Rmdir, RemovalFails, BeginRelease, GuardFails,
     StillOwner, PidUnread, NotOwner, Crash, TypeOK
<1>10. \A q \in Procs : pc'[q] = "start" => detail'[q] = "unavailable"
  BY <1>2, <1>5 DEF Reclaimed
<1>11. ASSUME NEW q \in Procs, pc'[q] = "attempt", detail'[q] = "stale"
      PROVE  (\A r \in Procs : pc'[r] # "critical") /\ (why'[q] = "stale" => ~lockDir')
  <2>1. CASE q = p
    BY <1>2, <1>6, <1>7, <1>11, <2>1
  <2>2. CASE q # p
    <3>1. pc[q] = "attempt" /\ detail[q] = "stale" /\ why'[q] = why[q]
      BY <1>2, <1>9, <1>11, <2>2
    <3>2. pc[p] \notin GuardedSteps
      BY <1>4, <2>2, <3>1
    <3> QED
      BY <1>2, <1>3, <1>8, <3>1, <3>2 DEF Reclaimed, GuardedSteps
  <2> QED
    BY <2>1, <2>2
<1> QED
  BY <1>10, <1>11 DEF Reclaimed

LEMMA PidFileStep ==
  ASSUME LockInv, BashProcs = {}, NEW p \in Procs, ProcStep(p) \/ Crash(p)
  PROVE  PidFileOwner'
<1> USE DEF LockInv, Goto, fileVars
<1>1. p \in PyProcs /\ \A q \in Procs : q \notin {NoProc, "missing", "empty"}
  BY LockAssumption DEF Procs
<1>2. pc \in [Procs -> Steps]
  BY DEF TypeOK
<1>3. \A q \in Procs : q # p => pc'[q] = pc[q]
  BY GuardStep
<1>4. ~lockDir' => pidFile' = "missing"
  BY <1>1 DEF ProcStep, Proceeds, Begin, BeginFails, Mkdir, LockExists, MkdirFails,
     Exhausted, CreatePid, CreatePidFails, WritePid, WritePidFails, FoundAlive,
     FoundIncomplete, FoundDead, Unlink, AlreadyGone, Rmdir, RemovalFails, BeginRelease,
     GuardFails, StillOwner, PidUnread, NotOwner, Crash, PidFileOwner, OwnerOnDisk
<1>5. \A q \in Procs : q # p /\ pidFile' = q => pidFile = q
  BY <1>1 DEF ProcStep, Proceeds, Begin, BeginFails, Mkdir, LockExists, MkdirFails,
     Exhausted, CreatePid, CreatePidFails, WritePid, WritePidFails, FoundAlive,
     FoundIncomplete, FoundDead, Unlink, AlreadyGone, Rmdir, RemovalFails, BeginRelease,
     GuardFails, StillOwner, PidUnread, NotOwner, Crash
<1>6. pidFile' = p => \/ pc'[p] \in {"critical", "checkOwner"} \cup Ended
                      \/ pc'[p] = "unlink" /\ why'[p] = "release"
  <2>1. CASE AlreadyGone(p) \/ Rmdir(p)
    BY <1>1, <2>1 DEF AlreadyGone, Rmdir, PidFileOwner, OwnerOnDisk
  <2>3. CASE RemovalFails(p)
    BY <1>1, <1>2, <2>3 DEF RemovalFails, PidFileOwner, OwnerOnDisk, Removing, Ended
  <2>2. CASE ~(AlreadyGone(p) \/ Rmdir(p) \/ RemovalFails(p))
    BY <1>1, <1>2, <2>2 DEF ProcStep, Proceeds, Begin, BeginFails, Mkdir, LockExists,
       MkdirFails, Exhausted, CreatePid, CreatePidFails, WritePid, WritePidFails,
       FoundAlive, FoundIncomplete, FoundDead, Unlink, BeginRelease, GuardFails,
       StillOwner, PidUnread, NotOwner, Crash, PidFileOwner, OwnerOnDisk, AttemptLeft,
       Guarded, Ended, TypeOK
  <2> QED
    BY <2>1, <2>2, <2>3
<1>7. \A q \in Procs : q # p => why'[q] = why[q]
  BY DEF ProcStep, Proceeds, Begin, BeginFails, Mkdir, LockExists, MkdirFails, Exhausted,
     CreatePid, CreatePidFails, WritePid, WritePidFails, FoundAlive, FoundIncomplete,
     FoundDead, Unlink, AlreadyGone, Rmdir, RemovalFails, BeginRelease, GuardFails,
     StillOwner, PidUnread, NotOwner, Crash, TypeOK
<1> QED
  BY <1>3, <1>4, <1>5, <1>6, <1>7 DEF PidFileOwner

-----------------------------------------------------------------------------
(* The invariant and the properties *)

LEMMA LockInvStep ==
  ASSUME LockInv, BashProcs = {}, [Next]_vars
  PROVE  LockInv'
<1>1. TypeOK'
  BY LockTypeStep
<1>2. ASSUME NEW p \in Procs, ProcStep(p) \/ Crash(p)
      PROVE  LockInv'
  <2>1. GuardExact'
    BY <1>2, GuardStep DEF LockInv, GuardExact
  <2> QED
    BY <1>1, <1>2, <2>1, OwnerStep, AttemptStep, ReclaimStep,
       PidFileStep DEF LockInv
<1>3. CASE Age \/ PidReused \/ Finished \/ UNCHANGED vars
  <2>1. UNCHANGED <<lockDir, pidFile, handles, guard, procVars>>
    BY <1>3 DEF Age, PidReused, Finished, vars, fileVars
  <2> QED
    BY <1>1, <2>1 DEF LockInv, GuardExact, OwnerOnDisk, AttemptLeft, Reclaimed,
       PidFileOwner, procVars
<1> QED
  BY <1>2, <1>3 DEF Next

LEMMA LockInvariant ==
  ASSUME BashProcs = {}
  PROVE  Spec => []LockInv
  BY LockInvInit, LockInvStep, PTL DEF Spec

\* Every variable stays in its range.
THEOREM LockTypeCorrect ==
  ASSUME BashProcs = {}
  PROVE  Spec => []TypeOK
<1>1. LockInv => TypeOK
  BY DEF LockInv
<1> QED
  BY <1>1, LockInvariant, PTL

\* No two Python uploaders work on one workspace at the same time, however
\* many are started, crash, and leave stale or half-made locks behind.
THEOREM PythonExclusion ==
  ASSUME BashProcs = {}
  PROVE  Spec => []MutualExclusion
<1>1. LockInv => MutualExclusion
  BY DEF LockInv, OwnerOnDisk, MutualExclusion
<1> QED
  BY <1>1, LockInvariant, PTL

\* A Python uploader that reclaims a dead owner's lock cannot lose the way to
\* a third process before its next mkdir, whether or not the removal failed.
THEOREM PythonReclaimEffective ==
  ASSUME BashProcs = {}
  PROVE  Spec => []ReclaimEffective
<1>1. LockInv => ReclaimEffective
  BY DEF LockInv, Reclaimed, GuardExact, GuardedSteps, SettingUp,
     ReclaimEffective, Procs
<1> QED
  BY <1>1, LockInvariant, PTL

\* What LiveLockKept says of one step.
KeepsLiveLock ==
  /\ \A q \in Procs :
       pidFile = q /\ pidFile' # q /\ pc[q] \notin Ended => pc'[q] # pc[q]
  /\ lockDir /\ ~lockDir' =>
       \A q \in Procs : SettingUp(q) \/ pc[q] = "critical" => pc'[q] # pc[q]

LEMMA LiveLockStep ==
  ASSUME BashProcs = {}, LockInv, [Next]_vars
  PROVE  [KeepsLiveLock]_vars
<1>1. ASSUME LockInv, NEW p \in Procs, ProcStep(p) \/ Crash(p),
             NEW q \in Procs, q # p, pidFile = q, pc[q] \notin Ended
      PROVE  pidFile' = q
  <2>1. q \notin {"missing", "empty"} /\ lockDir
    BY <1>1, LockAssumption DEF LockInv, PidFileOwner, Procs
  <2>2. pc[p] \notin {"created", "writing"}
    BY <1>1, <2>1 DEF LockInv, OwnerOnDisk
  <2>3. pc[p] # "unlink"
    <3>1. pc[q] \in {"critical", "checkOwner", "unlink"}
      BY <1>1 DEF LockInv, PidFileOwner
    <3>2. pc[q] \in GuardedSteps => pc[p] \notin GuardedSteps
      BY <1>1, GuardStep
    <3> QED
      BY <1>1, <3>1, <3>2 DEF LockInv, OwnerOnDisk, GuardedSteps, Removing
  <2> QED
    BY <1>1, <2>1, <2>2, <2>3 DEF ProcStep, Proceeds, Begin, BeginFails, Mkdir, LockExists,
       MkdirFails, Exhausted, CreatePid, CreatePidFails, WritePid, WritePidFails,
       FoundAlive, FoundIncomplete, FoundDead, Unlink, AlreadyGone, Rmdir, RemovalFails,
       BeginRelease, GuardFails, StillOwner, PidUnread, NotOwner, Crash, Goto, fileVars
<1>2. ASSUME LockInv, NEW p \in Procs, ProcStep(p) \/ Crash(p), lockDir, ~lockDir',
             NEW q \in Procs, q # p
      PROVE  ~SettingUp(q) /\ pc[q] # "critical"
  <2>1. pc[p] = "rmdir"
    BY <1>2 DEF ProcStep, Proceeds, Begin, BeginFails, Mkdir, LockExists, MkdirFails,
       Exhausted, CreatePid, CreatePidFails, WritePid, WritePidFails, FoundAlive,
       FoundIncomplete, FoundDead, Unlink, AlreadyGone, Rmdir, RemovalFails, BeginRelease,
       GuardFails, StillOwner, PidUnread, NotOwner, Crash, Goto, fileVars
  <2>2. pidFile = "missing" /\ q # "missing"
    BY <1>2, <2>1, LockAssumption DEF LockInv, OwnerOnDisk, Procs
  <2>3. pc[q] \notin GuardedSteps
    BY <1>2, <2>1, GuardStep DEF GuardedSteps, Removing
  <2> QED
    BY <1>2, <2>2, <2>3 DEF LockInv, OwnerOnDisk, SettingUp, GuardedSteps
<1>3. ASSUME LockInv, NEW p \in Procs, ProcStep(p) \/ Crash(p)
      PROVE  pc'[p] # pc[p]
  <2>1. pc \in [Procs -> Steps]
    BY <1>3 DEF LockInv, TypeOK
  <2>2. CASE pc[p] \in Removing /\ Removed(p)
    BY <1>3, <2>1, <2>2, RemovedStep DEF Removing
  <2> QED
    BY <1>3, <2>1, <2>2 DEF ProcStep, Proceeds, Begin, BeginFails, Mkdir, LockExists,
       MkdirFails, Exhausted, CreatePid, CreatePidFails, WritePid, WritePidFails,
       FoundAlive, FoundIncomplete, FoundDead, Unlink, AlreadyGone, Rmdir, RemovalFails,
       BeginRelease, GuardFails, StillOwner, PidUnread, NotOwner, Crash, Goto, Guarded,
       Removing, Ended
<1>4. CASE \E p \in Procs : ProcStep(p) \/ Crash(p)
  BY <1>4, <1>1, <1>2, <1>3 DEF KeepsLiveLock
<1>5. CASE Age \/ PidReused \/ Finished \/ UNCHANGED vars
  BY <1>5 DEF Age, PidReused, Finished, fileVars, vars, KeepsLiveLock
<1> QED
  BY <1>4, <1>5 DEF Next

\* No step of a Python uploader removes the pid file or the directory of an
\* invocation that still runs.
THEOREM PythonLiveLockKept ==
  ASSUME BashProcs = {}
  PROVE  Spec => LiveLockKept
<1>1. LockInv /\ [Next]_vars => [KeepsLiveLock]_vars
  BY LiveLockStep
<1> QED
  BY <1>1, LockInvariant, PTL DEF Spec, LiveLockKept, KeepsLiveLock

-----------------------------------------------------------------------------
(* What ends cleanly leaves nothing behind *)

\* An invocation answers for the directory it made, from mkdir to its removal,
\* and once it died or could not remove it; never for one it reclaims.
Answers(p) ==
  \/ pc[p] \in {"created", "writing", "critical", "checkOwner", "crashed", "abandoned"}
  \/ pc[p] \in Removing /\ why[p] # "stale"

\* A directory on disk has somebody to answer for it, and a process that
\* releases finds its own pid in it.
Traced ==
  /\ lockDir => \E p \in Procs : Answers(p)
  /\ \A p \in Procs : pc[p] = "checkOwner" => lockDir /\ pidFile = p

LEMMA TracedStep ==
  ASSUME LockInv, Traced, BashProcs = {}, NEW p \in Procs, ProcStep(p) \/ Crash(p)
  PROVE  Traced'
<1> USE DEF LockInv, Goto, fileVars
<1>1. p \in PyProcs /\ \A q \in Procs : q \notin {NoProc, "missing", "empty"}
  BY LockAssumption DEF Procs
<1>2. pc \in [Procs -> Steps]
  BY DEF TypeOK
<1>3. \A q \in Procs : q # p => pc'[q] = pc[q]
  BY GuardStep
<1>4. \A q \in Procs : q # p /\ pc[p] \in GuardedSteps => pc[q] \notin GuardedSteps
  BY GuardStep
<1>5. ASSUME lockDir'
      PROVE  \E q \in Procs : Answers(q)'
  <2>1. CASE lockDir /\ \E q \in Procs : q # p /\ Answers(q)
    <3>1. \A q \in Procs : q # p => why'[q] = why[q]
      BY DEF ProcStep, Proceeds, Begin, BeginFails, Mkdir, LockExists, MkdirFails,
         Exhausted, CreatePid, CreatePidFails, WritePid, WritePidFails, FoundAlive,
         FoundIncomplete, FoundDead, Unlink, AlreadyGone, Rmdir, RemovalFails,
         BeginRelease, GuardFails, StillOwner, PidUnread, NotOwner, Crash, TypeOK
    <3> QED
      BY <1>3, <2>1, <3>1 DEF Answers
  <2>2. ASSUME lockDir => Answers(p)
        PROVE  Answers(p)'
    <3>1. CASE pc[p] = "rmdir" /\ Rmdir(p)
      BY <1>5, <3>1 DEF Rmdir, OwnerOnDisk
    <3>4. CASE RemovalFails(p)
      BY <1>2, <2>2, <3>4 DEF RemovalFails, Answers, Removing
    <3>2. CASE pc[p] = "unlink" /\ AlreadyGone(p)
      BY <1>5, <3>2 DEF AlreadyGone
    <3>3. CASE ~(AlreadyGone(p) \/ Rmdir(p) \/ RemovalFails(p))
      BY <1>1, <1>2, <1>5, <2>2, <3>3 DEF ProcStep, Proceeds, Begin, BeginFails, Mkdir,
         LockExists, MkdirFails, Exhausted, CreatePid, CreatePidFails, WritePid,
         WritePidFails, FoundAlive, FoundIncomplete, FoundDead, Unlink, BeginRelease,
         GuardFails, StillOwner, PidUnread, NotOwner, Crash, Traced, Answers, Removing,
         Guarded, Ended, TypeOK, AttemptLeft
    <3> QED
      BY <3>1, <3>2, <3>3, <3>4 DEF AlreadyGone, Rmdir
  <2> QED
    BY <2>1, <2>2 DEF Traced
<1>6. ASSUME NEW q \in Procs, pc'[q] = "checkOwner"
      PROVE  lockDir' /\ pidFile' = q
  <2>1. CASE q # p
    <3>1. pc[q] = "checkOwner" /\ lockDir /\ pidFile = q /\ pc[p] \notin GuardedSteps
      BY <1>3, <1>4, <1>6, <2>1 DEF Traced, GuardedSteps
    <3> QED
      BY <3>1, <1>1, <1>2 DEF ProcStep, Proceeds, Begin, BeginFails, Mkdir, LockExists,
         MkdirFails, Exhausted, CreatePid, CreatePidFails, WritePid, WritePidFails,
         FoundAlive, FoundIncomplete, FoundDead, Unlink, AlreadyGone, Rmdir, RemovalFails,
         BeginRelease, GuardFails, StillOwner, PidUnread, NotOwner, Crash, Guarded,
         GuardedSteps, Removing
  <2>2. CASE q = p
    <3>1. CASE pc[p] \in Removing /\ Removed(p)
      BY <1>2, <1>6, <2>2, <3>1, RemovedStep
    <3>2. CASE ~(AlreadyGone(p) \/ Rmdir(p))
      BY <1>2, <1>6, <2>2, <3>2 DEF ProcStep, Proceeds, Begin, BeginFails, Mkdir,
         LockExists, MkdirFails, Exhausted, CreatePid, CreatePidFails, WritePid,
         WritePidFails, FoundAlive, FoundIncomplete, FoundDead, Unlink, RemovalFails,
         BeginRelease, GuardFails, StillOwner, PidUnread, NotOwner, Crash, OwnerOnDisk
    <3> QED
      BY <3>1, <3>2 DEF AlreadyGone, Rmdir, Removing
  <2> QED
    BY <2>1, <2>2
<1> QED
  BY <1>5, <1>6 DEF Traced

LEMMA TracedNext ==
  ASSUME BashProcs = {}, LockInv, Traced, [Next]_vars
  PROVE  Traced'
<1>1. CASE \E p \in Procs : ProcStep(p) \/ Crash(p)
  BY <1>1, TracedStep
<1>2. CASE Age \/ PidReused \/ Finished \/ UNCHANGED vars
  BY <1>2 DEF Age, PidReused, Finished, vars, fileVars, procVars, Traced, Answers
<1> QED
  BY <1>1, <1>2 DEF Next

LEMMA TracedLeavesNone == Traced => NoLeakedLock
BY DEF Traced, NoLeakedLock, Answers, Removing

\* A lock directory outlives all invocations only if one of them crashed, lost
\* its release or could not remove what it made; no other failure on the way,
\* of anybody, leaves one, not even a failed removal of someone else's lock.
THEOREM PythonLeavesNoLock ==
  ASSUME BashProcs = {}
  PROVE  Spec => []NoLeakedLock
<1>1. Init => Traced
  BY DEF Init, Traced
<1>2. LockInv /\ Traced /\ [Next]_vars => Traced'
  BY TracedNext
<1> QED
  BY <1>1, <1>2, TracedLeavesNone, LockInvariant, PTL DEF Spec

-----------------------------------------------------------------------------
(* The rollout: Python and Bash uploaders together                         *)

Whys == {"none", "stale", "undo", "release"}
NoDeath == \A p \in Procs : pc[p] \notin {"crashed", "abandoned"}

\* Whether or not there is a guard, a process is at one of its points, and a
\* removal knows where to return to.
Placed ==
  /\ pc \in [Procs -> Steps] /\ why \in [Procs -> Whys]
  /\ \A p \in Procs :
       /\ pc[p] = "checkOwner" => why[p] = "release"
       /\ pc[p] \in Removing => why[p] # "none"

\* A process that has made the directory and not yet removed it.
Holding == {"created", "writing", "critical", "checkOwner"} \cup Removing

\* What it finds on disk: its own lock, which nobody may take for dead.
OnDisk(p) ==
  /\ lockDir
  /\ pc[p] = "created" => pidFile = "missing" /\ ~aged
  /\ pc[p] = "writing" => pidFile = "empty" /\ ~aged /\ p \in handles
  /\ pc[p] \in {"critical", "checkOwner"} => pidFile = p
  /\ pc[p] = "unlink" => pidFile = p \/ (pidFile \in {"missing", "empty"} /\ ~aged)
  /\ pc[p] = "rmdir" => pidFile = "missing" /\ ~aged
  /\ pc[p] \in Removing => why[p] \in {"undo", "release"}

\* While nobody dies, the directory on disk belongs to the only process that
\* holds the lock: no live owner's lock is ever reclaimed.
HolderOwns ==
  /\ \A p, q \in Procs : pc[p] \in Holding /\ pc[q] \in Holding => p = q
  /\ \A p \in Procs : pc[p] \in Holding => OnDisk(p)
  /\ lockDir => \E p \in Procs : pc[p] \in Holding

OneHolder == NoDeath => HolderOwns

\* A step moves one process, which was alive, and nobody else's reason.
LEMMA StepShape ==
  ASSUME Placed, NEW p \in Procs, ProcStep(p) \/ Crash(p)
  PROVE  /\ \E s \in Steps : pc' = [pc EXCEPT ![p] = s]
         /\ \E r \in Whys : why' = [why EXCEPT ![p] = r]
         /\ pc[p] \notin {"crashed", "abandoned"}
         /\ pc'[p] = "checkOwner" => why'[p] = "release"
         /\ pc'[p] \in Removing => why'[p] # "none"
<1> USE DEF Goto, Steps, GuardedSteps, Ended, Removing, Whys
<1>1. CASE AlreadyGone(p) \/ Rmdir(p)
  <2>1. pc[p] \in Removing /\ Removed(p) /\ why' = why
    BY <1>1 DEF AlreadyGone, Rmdir
  <2>2. why[p] \in {"stale", "undo", "release"}
    BY <2>1 DEF Placed
  <2>3. \E s \in {"attempt", "refused", "done"} : pc' = [pc EXCEPT ![p] = s]
    BY <2>1, <2>2 DEF Removed
  <2>4. why' = [why EXCEPT ![p] = why[p]] /\ why[p] \in Whys
    BY <2>1 DEF Placed
  <2> QED
    BY <2>1, <2>3, <2>4 DEF Placed
<1>2. CASE Begin(p) \/ BeginFails(p) \/ Mkdir(p) \/ LockExists(p) \/ MkdirFails(p) \/ Exhausted(p)
           \/ CreatePid(p) \/ WritePid(p) \/ FoundAlive(p) \/ FoundIncomplete(p)
           \/ GuardFails(p) \/ PidUnread(p) \/ NotOwner(p) \/ Crash(p)
  <2>1. why' = [why EXCEPT ![p] = why[p]] /\ why[p] \in Whys
    BY <1>2 DEF Begin, BeginFails, Mkdir, LockExists, MkdirFails, Exhausted, CreatePid,
       WritePid, FoundAlive, FoundIncomplete, GuardFails, PidUnread, NotOwner, Crash,
       Placed
  <2>2. /\ pc[p] \notin {"crashed", "abandoned"}
        /\ \E s \in Steps \ ({"checkOwner"} \cup Removing) : pc' = [pc EXCEPT ![p] = s]
    BY <1>2 DEF Begin, BeginFails, Mkdir, LockExists, MkdirFails, Exhausted, CreatePid,
       WritePid, FoundAlive, FoundIncomplete, GuardFails, PidUnread, NotOwner, Crash
  <2> QED
    BY <2>1, <2>2 DEF Placed
<1>3. CASE CreatePidFails(p) \/ WritePidFails(p) \/ FoundDead(p) \/ BeginRelease(p)
  BY <1>3 DEF CreatePidFails, WritePidFails, FoundDead, BeginRelease, Placed
<1>4. CASE Unlink(p) \/ StillOwner(p)
  <2>1. why' = [why EXCEPT ![p] = why[p]] /\ why[p] \in Whys /\ why[p] # "none"
    BY <1>4 DEF Unlink, StillOwner, Placed
  <2> QED
    BY <1>4, <2>1 DEF Unlink, StillOwner, Placed
<1>5. CASE RemovalFails(p)
  BY <1>5 DEF RemovalFails, NextAttempt, Placed
<1> QED
  BY <1>1, <1>2, <1>3, <1>4, <1>5 DEF ProcStep, Proceeds

LEMMA PlacedStep == Placed /\ [Next]_vars => Placed'
<1> SUFFICES ASSUME Placed, [Next]_vars PROVE Placed'
  OBVIOUS
<1>1. CASE \E p \in Procs : ProcStep(p) \/ Crash(p)
  <2>1. PICK p \in Procs : ProcStep(p) \/ Crash(p)
    BY <1>1
  <2> QED
    BY <2>1, StepShape DEF Placed
<1>2. CASE Age \/ PidReused \/ Finished \/ UNCHANGED vars
  BY <1>2 DEF Age, PidReused, Finished, vars, procVars, Placed
<1> QED
  BY <1>1, <1>2 DEF Next

\* A process that keeps its place keeps its lock, when the files stay.
LEMMA OnDiskKept ==
  ASSUME NEW q, OnDisk(q), pc'[q] = pc[q], why'[q] = why[q], UNCHANGED fileVars
  PROVE  OnDisk(q)'
BY DEF OnDisk, fileVars

\* Nobody finds a dead lock.
LEMMA NothingDead ==
  ASSUME Placed, NoDeath, HolderOwns
  PROVE  LockState # "dead"
<1> SUFFICES ASSUME LockState = "dead" PROVE FALSE
  OBVIOUS
<1>1. lockDir
  BY DEF LockState, HasOwner
<1>2. PICK p \in Procs : pc[p] \in Holding /\ OnDisk(p)
  BY <1>1 DEF HolderOwns
<1>3. p \notin {"missing", "empty"}
  BY LockAssumption DEF Procs
<1>4. pc[p] \notin Ended
  BY <1>2 DEF Holding, Ended, Removing
<1>5. CASE pidFile = p
  BY <1>4, <1>5, <1>1 DEF LockState, HasOwner, Alive
<1>6. CASE pidFile \in {"missing", "empty"} /\ ~aged
  BY <1>6, LockAssumption DEF LockState, HasOwner, Procs
<1> QED
  BY <1>2, <1>5, <1>6 DEF OnDisk, Holding, Removing

\* Steps by which nobody gets or gives up the lock.
LEMMA OthersKeepHolder ==
  ASSUME Placed, NoDeath, HolderOwns, NEW p \in Procs,
         \/ Begin(p) \/ BeginFails(p) \/ LockExists(p) \/ MkdirFails(p) \/ Exhausted(p)
         \/ FoundAlive(p) \/ FoundIncomplete(p)
  PROVE  HolderOwns'
<1>1. /\ UNCHANGED <<fileVars, why>> /\ pc[p] \notin Holding
      /\ \E s \in Steps \ Holding : pc' = [pc EXCEPT ![p] = s]
  BY DEF Begin, BeginFails, LockExists, MkdirFails, Exhausted, FoundAlive, FoundIncomplete,
     Goto, Holding, Removing, Steps, GuardedSteps, Ended, fileVars
<1>2. \A q \in Procs : pc'[q] \in Holding <=> pc[q] \in Holding
  BY <1>1 DEF Placed
<1>3. \A q \in Procs : pc[q] \in Holding => pc'[q] = pc[q]
  BY <1>1 DEF Placed
<1>4. \A q \in Procs : pc'[q] \in Holding => OnDisk(q)'
  BY <1>1, <1>2, <1>3, OnDiskKept DEF HolderOwns
<1> QED
  BY <1>1, <1>2, <1>4 DEF HolderOwns, fileVars

\* The holder's own steps, from mkdir to rmdir.
LEMMA HolderKeeps ==
  ASSUME Placed, NoDeath, HolderOwns, NEW p \in Procs,
         \/ Mkdir(p) \/ CreatePid(p) \/ CreatePidFails(p) \/ WritePid(p) \/ WritePidFails(p)
         \/ BeginRelease(p) \/ StillOwner(p) \/ Unlink(p)
  PROVE  HolderOwns'
<1> USE DEF Goto, Holding, Removing
<1>1. \A q \in Procs : q # p => pc[q] \notin Holding
  BY DEF HolderOwns, Mkdir, CreatePid, CreatePidFails, WritePid, WritePidFails,
     BeginRelease, StillOwner, Unlink, OnDisk
<1>2. \A q \in Procs : q # p => pc'[q] = pc[q]
  BY DEF Mkdir, CreatePid, CreatePidFails, WritePid, WritePidFails, BeginRelease,
     StillOwner, Unlink, Placed
<1>3. pc'[p] \in Holding
  BY DEF Mkdir, CreatePid, CreatePidFails, WritePid, WritePidFails, BeginRelease,
     StillOwner, Unlink, Placed
<1>4. ~Mkdir(p) => pc[p] \in Holding /\ OnDisk(p)
  BY DEF HolderOwns, CreatePid, CreatePidFails, WritePid, WritePidFails, BeginRelease,
     StillOwner, Unlink
<1>5. OnDisk(p)'
  <2> USE DEF OnDisk, Placed
  <2>1. CASE Mkdir(p)
    BY <2>1 DEF Mkdir
  <2>2. CASE CreatePid(p)
    BY <1>4, <2>2 DEF CreatePid, Mkdir
  <2>3. CASE WritePid(p)
    BY <1>4, <2>3 DEF WritePid, Mkdir
  <2>4. CASE WritePidFails(p)
    BY <1>4, <2>4 DEF WritePidFails, Mkdir, Whys
  <2>5. CASE BeginRelease(p)
    BY <1>4, <2>5 DEF BeginRelease, Mkdir, fileVars, Whys
  <2>6. CASE StillOwner(p)
    BY <1>4, <2>6 DEF StillOwner, Mkdir, fileVars
  <2>7. CASE Unlink(p)
    <3>1. p # "missing"
      BY LockAssumption DEF Procs
    <3> QED
      BY <1>4, <2>7, <3>1 DEF Unlink, Mkdir
  <2>8. CASE CreatePidFails(p)
    BY <1>4, <2>8 DEF CreatePidFails, Mkdir, fileVars, Whys
  <2> QED
    BY <2>1, <2>2, <2>3, <2>4, <2>5, <2>6, <2>7, <2>8
<1> QED
  BY <1>1, <1>2, <1>3, <1>5 DEF HolderOwns

LEMMA RolloutStep ==
  ASSUME Prompt, Placed, OneHolder, [Next]_vars, NoDeath'
  PROVE  HolderOwns'
<1>1. NoDeath
  <2>1. CASE \E p \in Procs : ProcStep(p) \/ Crash(p)
    <3>1. PICK p \in Procs : ProcStep(p) \/ Crash(p)
      BY <2>1
    <3>2. pc[p] \notin {"crashed", "abandoned"} /\ \E s \in Steps : pc' = [pc EXCEPT ![p] = s]
      BY <3>1, StepShape
    <3> QED
      BY <3>2 DEF NoDeath, Placed
  <2>2. CASE Age \/ PidReused \/ Finished \/ UNCHANGED vars
    BY <2>2 DEF Age, PidReused, Finished, vars, procVars, NoDeath
  <2> QED
    BY <2>1, <2>2 DEF Next
<1>2. HolderOwns
  BY <1>1 DEF OneHolder
<1>3. ASSUME NEW p \in Procs, ProcStep(p) \/ Crash(p) PROVE HolderOwns'
  <2> USE DEF Goto
  <2>1. ~Crash(p) /\ ~GuardFails(p) /\ ~PidUnread(p)
    BY DEF Crash, GuardFails, PidUnread, NoDeath, Placed
  <2>5. ~RemovalFails(p)
    <3>1. pc[p] \in Removing => why[p] # "stale"
      BY <1>2 DEF HolderOwns, OnDisk, Holding
    <3> QED
      BY <3>1 DEF RemovalFails, NoDeath, Placed
  <2>2. ~FoundDead(p)
    BY <1>1, <1>2, NothingDead DEF FoundDead
  <2>3. ~AlreadyGone(p) /\ ~NotOwner(p)
    BY <1>2 DEF AlreadyGone, NotOwner, HolderOwns, OnDisk, Holding, Removing
  <2>4. CASE Rmdir(p)
    <3>1. pc[p] = "rmdir" /\ OnDisk(p)
      BY <1>2, <2>4 DEF Rmdir, HolderOwns, Holding, Removing
    <3>2. ~lockDir'
      BY <2>4, <3>1 DEF Rmdir, OnDisk
    <3>3. \E s \in {"refused", "done"} : pc' = [pc EXCEPT ![p] = s]
      BY <2>4, <3>1 DEF Rmdir, Removed, OnDisk, Removing
    <3>4. \A q \in Procs : pc'[q] \notin Holding
      BY <1>2, <3>1, <3>3 DEF HolderOwns, Holding, Removing, Placed
    <3> QED
      BY <3>2, <3>4 DEF HolderOwns
  <2> QED
    BY <1>1, <1>2, <1>3, <2>1, <2>2, <2>3, <2>4, <2>5, OthersKeepHolder,
       HolderKeeps DEF ProcStep, Proceeds
<1>4. CASE Age
  <2>1. /\ UNCHANGED <<lockDir, pidFile, pc, why>>
        /\ \A p \in Procs : pc[p] \notin {"created", "writing"} \cup Removing
    BY <1>4 DEF Age, Settled, SettingUp, procVars
  <2>2. \A p \in Procs : pc[p] \in Holding => OnDisk(p)'
    BY <1>2, <2>1 DEF HolderOwns, OnDisk, Holding, Removing
  <2> QED
    BY <1>2, <2>1, <2>2 DEF HolderOwns
<1>5. CASE PidReused \/ Finished \/ UNCHANGED vars
  <2>1. UNCHANGED <<fileVars, pc, why>>
    BY <1>5 DEF PidReused, Finished, vars, procVars
  <2>2. \A p \in Procs : pc[p] \in Holding => OnDisk(p)'
    BY <1>2, <2>1, OnDiskKept DEF HolderOwns
  <2> QED
    BY <1>2, <2>1, <2>2 DEF HolderOwns, fileVars
<1> QED
  BY <1>3, <1>4, <1>5 DEF Next

\* Bash uploaders take no guard, and still no two uploaders of either kind
\* work at once unless an owner died or lost its release: mkdir alone excludes
\* as long as no lock is reclaimed, and no live owner's lock looks dead while
\* nobody stalls 30 seconds between two file operations.
THEOREM RolloutIsExclusive ==
  ASSUME Prompt
  PROVE  Spec => []RolloutExclusion
<1>1. Init => Placed /\ OneHolder
  BY DEF Init, Placed, OneHolder, HolderOwns, Holding, Removing, Steps, Whys
<1>2. Placed /\ OneHolder /\ [Next]_vars => Placed' /\ OneHolder'
  BY PlacedStep, RolloutStep DEF OneHolder
<1>3. OneHolder => RolloutExclusion
  BY DEF OneHolder, HolderOwns, Holding, NoDeath, RolloutExclusion, MutualExclusion
<1> QED
  BY <1>1, <1>2, <1>3, PTL DEF Spec
-----------------------------------------------------------------------------
(* The lock on either platform: on Unix every step is one of WorkspaceLock *)

PlatformInv ==
  /\ platform \in {"posix", "nt"}
  /\ platform = "posix" => LockInv
  /\ WindowsInv

LEMMA PlatformInvInit == PlatformInit => PlatformInv
<1> SUFFICES ASSUME PlatformInit PROVE PlatformInv
  OBVIOUS
<1>1. LockInv
  BY LockInvInit DEF PlatformInit
<1>2. WindowsInv
  BY DEF PlatformInit, Init, WindowsInv, MutualExclusion, Steps
<1> QED
  BY <1>1, <1>2 DEF PlatformInv, PlatformInit

\* One step of one process on Windows.
LEMMA WindowsStepKeeps ==
  ASSUME WindowsInv, platform = "nt", NEW p \in Procs, WindowsStep(p)
  PROVE  WindowsInv'
<1> USE DEF WindowsInv, unixVars, fileVars
<1>1. /\ linked \in Nat /\ made \in Nat /\ linked <= made
      /\ opened \in [Procs -> Nat] /\ pc \in [Procs -> Steps]
  OBVIOUS
<1>2. platform' = platform /\ lockDir' = lockDir
  BY DEF WindowsStep, OpenFile, OpenFails, LockByte, LockFails, UnlockByte, CloseFile,
     UnlinkFile, CrashOnWindows
<1>3. /\ linked' \in Nat /\ made' \in Nat /\ linked' <= made'
      /\ opened' \in [Procs -> Nat] /\ pc' \in [Procs -> Steps]
  BY <1>1 DEF WindowsStep, OpenFile, OpenFails, TryAgain, LockByte, LockFails, UnlockByte,
     CloseFile, UnlinkFile, CrashOnWindows, Steps, GuardedSteps, Removing, Ended
<1>4. \A q \in Procs : q # p =>
        pc'[q] = pc[q] /\ opened'[q] = opened[q] /\ (q \in locking' <=> q \in locking)
  BY <1>1 DEF WindowsStep, OpenFile, OpenFails, TryAgain, LockByte, LockFails, UnlockByte,
     CloseFile, UnlinkFile, CrashOnWindows
<1>5. pc'[p] # "attempt" /\ (p \in locking' <=> pc'[p] = "critical")
  BY <1>1 DEF WindowsStep, OpenFile, OpenFails, TryAgain, LockByte, LockFails, UnlockByte,
     CloseFile, UnlinkFile, CrashOnWindows, Ended
<1>6. pc'[p] \in {"writing", "critical", "checkOwner"} =>
        opened'[p] = linked' /\ linked' # 0
  BY <1>1 DEF WindowsStep, OpenFile, OpenFails, TryAgain, LockByte, LockFails, UnlockByte,
     CloseFile, UnlinkFile, CrashOnWindows
\* The linked file changes only while nobody has it open.
<1>7. ASSUME NEW q \in Procs, q # p, pc[q] \in {"writing", "critical", "checkOwner"}
      PROVE  linked' = linked
  BY <1>1, <1>7 DEF WindowsStep, OpenFile, OpenFails, TryAgain, LockByte, LockFails,
     UnlockByte, CloseFile, UnlinkFile, CrashOnWindows
<1>8. MutualExclusion'
  <2> SUFFICES ASSUME NEW q \in Procs, q # p, pc'[q] = "critical", pc'[p] = "critical"
               PROVE  FALSE
    BY <1>4 DEF MutualExclusion
  <2>1. pc[q] = "critical" /\ q \in locking /\ opened[q] = linked
    BY <1>4
  <2>2. pc[p] # "critical"
    BY <2>1 DEF MutualExclusion
  <2>3. LockByte(p) /\ opened[p] = linked
    BY <1>1, <2>2 DEF WindowsStep, OpenFile, OpenFails, TryAgain, LockByte, LockFails,
       UnlockByte, CloseFile, UnlinkFile, CrashOnWindows
  <2> QED
    BY <2>1, <2>3 DEF LockByte, Contended
<1> QED
  BY <1>2, <1>3, <1>4, <1>5, <1>6, <1>7, <1>8

LEMMA PlatformInvStep ==
  ASSUME PlatformInv, BashProcs = {}, [PlatformNext]_platformVars
  PROVE  PlatformInv'
<1> USE DEF PlatformInv
<1>1. CASE UnixNext
  <2>1. LockInv' /\ platform' = "posix"
    BY <1>1, LockInvStep DEF UnixNext
  <2> QED
    BY <2>1 DEF WindowsInv
<1>2. CASE WindowsNext
  <2>1. platform = "nt" /\ platform' = "nt"
    BY <1>2 DEF WindowsNext, WindowsStep, OpenFile, OpenFails, LockByte, LockFails,
       UnlockByte, CloseFile, UnlinkFile, CrashOnWindows
  <2>2. WindowsInv'
    <3>1. CASE \E p \in PyProcs : WindowsStep(p)
      BY <2>1, <3>1, WindowsStepKeeps DEF Procs
    <3>2. CASE Finished /\ UNCHANGED <<platform, winVars>>
      BY <3>2 DEF Finished, winVars, vars, fileVars, procVars, WindowsInv, MutualExclusion
    <3> QED
      BY <1>2, <3>1, <3>2 DEF WindowsNext
  <2> QED
    BY <2>1, <2>2
<1>3. CASE UNCHANGED platformVars
  <2>1. UNCHANGED <<platform, linked, made, opened, locking, vars>>
    BY <1>3 DEF platformVars, winVars
  <2>2. platform = "posix" => LockInv'
    BY <2>1, LockInvStep
  <2>3. WindowsInv'
    BY <2>1 DEF vars, fileVars, procVars, WindowsInv, MutualExclusion
  <2> QED
    BY <2>1, <2>2, <2>3
<1> QED
  BY <1>1, <1>2, <1>3 DEF PlatformNext

LEMMA PlatformInvariant ==
  ASSUME BashProcs = {}
  PROVE  PlatformSpec => []PlatformInv
  BY PlatformInvInit, PlatformInvStep, PTL DEF PlatformSpec

\* Two Python uploaders never work on one workspace at the same time, on Unix
\* or on Windows, however many are started and crash.
THEOREM PlatformExclusion ==
  ASSUME BashProcs = {}
  PROVE  PlatformSpec => []MutualExclusion
<1>1. PlatformInv => MutualExclusion
  BY DEF PlatformInv, WindowsInv, LockInv, OwnerOnDisk, MutualExclusion
<1> QED
  BY <1>1, PlatformInvariant, PTL

\* ... and nobody comes between a reclaim and the reclaimer's next mkdir.
THEOREM PlatformReclaimEffective ==
  ASSUME BashProcs = {}
  PROVE  PlatformSpec => []ReclaimEffective
<1>1. PlatformInv => ReclaimEffective
  BY DEF PlatformInv, WindowsInv, LockInv, Reclaimed, GuardExact, GuardedSteps, SettingUp,
     ReclaimEffective, Procs
<1> QED
  BY <1>1, PlatformInvariant, PTL

LEMMA WindowsLeavesFiles ==
  ASSUME WindowsNext
  PROVE  UNCHANGED fileVars /\ platform' = platform
BY DEF WindowsNext, WindowsStep, OpenFile, OpenFails, LockByte, LockFails, UnlockByte,
   CloseFile, UnlinkFile, CrashOnWindows, Finished, unixVars, vars, winVars

\* On neither platform does a step remove the pid file or the directory of an
\* invocation that still runs.
THEOREM PlatformLiveLockKept ==
  ASSUME BashProcs = {}
  PROVE  PlatformSpec => LiveLockKept
<1>1. PlatformInv /\ [PlatformNext]_platformVars => [KeepsLiveLock]_vars
  <2> SUFFICES ASSUME PlatformInv, [PlatformNext]_platformVars
               PROVE  [KeepsLiveLock]_vars
    OBVIOUS
  <2>1. CASE UnixNext
    BY <2>1, LiveLockStep DEF UnixNext, PlatformInv
  <2>2. CASE WindowsNext
    BY <2>2, WindowsLeavesFiles DEF fileVars, KeepsLiveLock
  <2>3. CASE UNCHANGED platformVars
    BY <2>3 DEF platformVars
  <2> QED
    BY <2>1, <2>2, <2>3 DEF PlatformNext
<1> QED
  BY <1>1, PlatformInvariant, PTL DEF PlatformSpec, LiveLockKept, KeepsLiveLock

\* Nor is a lock directory left unless its maker crashed or failed to remove it.
THEOREM PlatformLeavesNoLock ==
  ASSUME BashProcs = {}
  PROVE  PlatformSpec => []NoLeakedLock
<1> DEFINE UnixTraced == platform = "posix" => Traced
<1>1. PlatformInit => UnixTraced
  BY DEF PlatformInit, Init, Traced
<1>2. PlatformInv /\ UnixTraced /\ [PlatformNext]_platformVars => UnixTraced'
  <2> SUFFICES ASSUME PlatformInv, UnixTraced, [PlatformNext]_platformVars
               PROVE  UnixTraced'
    OBVIOUS
  <2>1. CASE UnixNext
    BY <2>1, TracedNext DEF UnixNext, PlatformInv
  <2>2. CASE WindowsNext
    BY <2>2, WindowsLeavesFiles DEF WindowsNext
  <2>3. CASE UNCHANGED platformVars
    BY <2>3 DEF platformVars, vars, fileVars, procVars, Traced, Answers
  <2> QED
    BY <2>1, <2>2, <2>3 DEF PlatformNext
<1>3. PlatformInv /\ UnixTraced => NoLeakedLock
  <2> SUFFICES ASSUME PlatformInv, UnixTraced PROVE NoLeakedLock
    OBVIOUS
  <2>1. CASE platform = "posix"
    BY <2>1, TracedLeavesNone
  <2>2. CASE platform = "nt"
    BY <2>2 DEF PlatformInv, WindowsInv, NoLeakedLock
  <2> QED
    BY <2>1, <2>2 DEF PlatformInv
<1> QED
  BY <1>1, <1>2, <1>3, PlatformInvariant, PTL DEF PlatformSpec
=============================================================================
