----------------------------- MODULE WorkspaceLock -----------------------------
(***************************************************************************)
(* The per-workspace lock of the uploaders on Unix: a lock directory that  *)
(* holds a pid file.  The Python uploader (uploader_py/locking.py) makes,  *)
(* inspects and removes it under an advisory flock on a guard file; the    *)
(* Bash uploader takes the same directory without the guard, overwrites    *)
(* the pid file, and releases without comparing the pid.                   *)
(*                                                                         *)
(* Each process is one uploader invocation and may start at any time and   *)
(* crash at any step.  File system calls that several processes can see    *)
(* in between are separate steps: mkdir, creating the pid file, writing    *)
(* it, unlinking it, rmdir.  Failing I/O: the guard, mkdir, the pid file   *)
(* when it is made, written or read back at release, and the removal, at   *)
(* any point of it.  Not among it: a contender's read of the pid file; a   *)
(* lock whose pid cannot be read counts as incomplete, and once it is 30 s *)
(* old as dead, even if its owner works.  Abstracted: the 30 s and 1 s     *)
(* clocks (aged may turn true whenever the directory was left alone), path *)
(* and symlink checks.                                                     *)
(***************************************************************************)
EXTENDS Naturals, FiniteSets

CONSTANTS
  PyProcs,      \* invocations of the Python uploader
  BashProcs,    \* invocations of the legacy Bash uploader
  NoProc,       \* nobody holds the guard
  Attempts,     \* DEFAULT_LOCK_ATTEMPTS, max_attempts
  MaxReuse,     \* bound: dead owners whose pid an unrelated process takes
  Prompt        \* whether no process stalls 30 s between two file steps

ASSUME LockAssumption ==
  /\ PyProcs \cap BashProcs = {}
  /\ (PyProcs \cup BashProcs) \cap {NoProc, "missing", "empty"} = {}
  /\ Attempts \in Nat \ {0}
  /\ MaxReuse \in Nat
  /\ Prompt \in BOOLEAN

Procs == PyProcs \cup BashProcs
Guarded(p) == p \in PyProcs

VARIABLES
  lockDir,   \* the lock directory exists
  pidFile,   \* "missing", "empty", or the process whose pid it holds
  handles,   \* processes whose open file is the linked pid file
  aged,      \* the directory was last changed more than 30 s ago
  guard,     \* the holder of the flock
  pc,        \* where each process is
  attempt,   \* the attempt each process is making
  detail,    \* last_detail: what the refusal will say
  why,       \* what each process last removed the directory for, unless that failed
  reused     \* ended processes whose pid is alive again

fileVars == <<lockDir, pidFile, handles, aged>>
procVars == <<pc, attempt, detail, why>>
vars == <<fileVars, guard, procVars, reused>>

Removing == {"unlink", "rmdir"}
GuardedSteps == {"attempt", "inspect", "created", "writing", "checkOwner"} \cup Removing
\* "abandoned": gone without a crash, but its own directory may be left.
Ended == {"done", "abandoned", "refused", "crashed"}
Steps == {"start", "critical"} \cup GuardedSteps \cup Ended

\* kill(pid, 0): a running process, or an unrelated one with its pid.
Alive(p) == pc[p] \notin Ended \/ p \in reused

Init ==
  /\ lockDir = FALSE /\ pidFile = "missing" /\ handles = {} /\ aged = FALSE
  /\ guard = NoProc
  /\ pc = [p \in Procs |-> "start"]
  /\ attempt = [p \in Procs |-> 0]
  /\ detail = [p \in Procs |-> "unavailable"]
  /\ why = [p \in Procs |-> "none"]
  /\ reused = {}

-----------------------------------------------------------------------------
(* Control *)

Goto(p, from, to) == pc[p] = from /\ pc' = [pc EXCEPT ![p] = to]

NoGuard(p) == UNCHANGED guard   \* mutant of EnterGuard: no flock

EnterGuard(p) ==   \* flock(LOCK_EX) blocks; the Bash uploader takes none
  IF Guarded(p) THEN guard = NoProc /\ guard' = p ELSE UNCHANGED guard

LeaveGuard(p) == guard' = IF guard = p THEN NoProc ELSE guard

NextAttempt(p) == attempt' = [attempt EXCEPT ![p] = @ + 1]

Begin(p) ==
  /\ Goto(p, "start", "attempt")
  /\ EnterGuard(p)
  /\ UNCHANGED <<fileVars, attempt, detail, why, reused>>

BeginFails(p) ==           \* no guard file, no flock or no temporary root
  /\ Guarded(p)
  /\ Goto(p, "start", "refused")
  /\ UNCHANGED <<fileVars, guard, attempt, detail, why, reused>>

-----------------------------------------------------------------------------
(* Acquisition *)

MkdirExistOk(p) ==  \* mutant of Mkdir: exist_ok=True
  /\ attempt[p] < Attempts
  /\ Goto(p, "attempt", "created")
  /\ lockDir' = TRUE /\ pidFile' = "missing" /\ handles' = {} /\ aged' = FALSE
  /\ UNCHANGED <<guard, attempt, detail, why, reused>>

Mkdir(p) ==
  /\ attempt[p] < Attempts /\ ~lockDir
  /\ Goto(p, "attempt", "created")
  /\ lockDir' = TRUE /\ pidFile' = "missing" /\ handles' = {} /\ aged' = FALSE
  /\ UNCHANGED <<guard, attempt, detail, why, reused>>

LockExists(p) ==
  /\ attempt[p] < Attempts /\ lockDir
  /\ Goto(p, "attempt", "inspect")
  /\ UNCHANGED <<fileVars, guard, attempt, detail, why, reused>>

MkdirFails(p) ==   \* any other OSError; Bash cannot tell it from existence
  /\ Guarded(p) /\ attempt[p] < Attempts
  /\ Goto(p, "attempt", "refused")
  /\ LeaveGuard(p)
  /\ UNCHANGED <<fileVars, attempt, detail, why, reused>>

Exhausted(p) ==
  /\ attempt[p] = Attempts
  /\ Goto(p, "attempt", "refused")
  /\ LeaveGuard(p)
  /\ UNCHANGED <<fileVars, attempt, detail, why, reused>>

\* open("x") wants a new file; the shell redirection truncates an old one.
CreatePid(p) ==
  /\ lockDir /\ (Guarded(p) => pidFile = "missing")
  /\ Goto(p, "created", "writing")
  /\ pidFile' = "empty"
  /\ handles' = handles \cup {p}
  /\ aged' = (aged /\ pidFile # "missing")
  /\ UNCHANGED <<lockDir, guard, attempt, detail, why, reused>>

CreatePidFails(p) ==       \* Python: any OSError; Bash: the directory is gone
  /\ ~lockDir \/ Guarded(p)
  /\ Goto(p, "created", "unlink")
  /\ why' = [why EXCEPT ![p] = "undo"]
  /\ UNCHANGED <<fileVars, guard, attempt, detail, reused>>

\* The written pid is lost if the file was unlinked in the meantime.
WritePid(p) ==
  /\ Goto(p, "writing", "critical")
  /\ pidFile' = IF p \in handles THEN p ELSE pidFile
  /\ handles' = handles \ {p}
  /\ LeaveGuard(p)
  /\ UNCHANGED <<lockDir, aged, attempt, detail, why, reused>>

WriteFailsUncleaned(p) ==  \* mutant of WritePidFails: the directory stays
  /\ Goto(p, "writing", "refused")
  /\ handles' = handles \ {p}
  /\ LeaveGuard(p)
  /\ UNCHANGED <<lockDir, pidFile, aged, attempt, detail, why, reused>>

WritePidFails(p) ==
  /\ Goto(p, "writing", "unlink")
  /\ handles' = handles \ {p}
  /\ why' = [why EXCEPT ![p] = "undo"]
  /\ UNCHANGED <<lockDir, pidFile, aged, guard, attempt, detail, reused>>

-----------------------------------------------------------------------------
(* An existing lock: alive, dead or incomplete *)

HasOwner == lockDir /\ pidFile \in Procs
NobodyAlive ==  \* mutant of LockState: the pid is not probed
  IF HasOwner \/ (lockDir /\ aged) THEN "dead" ELSE "incomplete"

LockState ==
  IF HasOwner THEN IF Alive(pidFile) THEN "alive" ELSE "dead"
  ELSE IF lockDir /\ aged THEN "dead" ELSE "incomplete"

FoundAlive(p) ==
  /\ LockState = "alive"
  /\ Goto(p, "inspect", "refused")
  /\ detail' = [detail EXCEPT ![p] = "running"]
  /\ LeaveGuard(p)
  /\ UNCHANGED <<fileVars, attempt, why, reused>>

FoundIncomplete(p) ==      \* sleeps, in the guard, unless it is the last attempt
  /\ LockState = "incomplete"
  /\ Goto(p, "inspect", "attempt")
  /\ detail' = [detail EXCEPT ![p] = "fresh"]
  /\ NextAttempt(p)
  /\ UNCHANGED <<fileVars, guard, why, reused>>

FoundDead(p) ==
  /\ LockState = "dead"
  /\ Goto(p, "inspect", "unlink")
  /\ detail' = [detail EXCEPT ![p] = "stale"]
  /\ why' = [why EXCEPT ![p] = "stale"]
  /\ UNCHANGED <<fileVars, guard, attempt, reused>>

-----------------------------------------------------------------------------
(* Removal: _remove_unix_lock_if_simple, rm -rf *)

Unlink(p) ==
  /\ lockDir
  /\ Goto(p, "unlink", "rmdir")
  /\ pidFile' = "missing" /\ handles' = {}
  /\ aged' = (aged /\ pidFile = "missing")
  /\ UNCHANGED <<lockDir, guard, attempt, detail, why, reused>>

\* Where the removal returns to.
Removed(p) ==
  CASE why[p] = "stale" ->
         /\ pc' = [pc EXCEPT ![p] = "attempt"] /\ NextAttempt(p)
         /\ UNCHANGED guard
    [] why[p] = "undo" ->
         pc' = [pc EXCEPT ![p] = "refused"] /\ LeaveGuard(p) /\ UNCHANGED attempt
    [] why[p] = "release" ->
         pc' = [pc EXCEPT ![p] = "done"] /\ LeaveGuard(p) /\ UNCHANGED attempt

AlreadyGone(p) ==
  /\ pc[p] = "unlink" /\ ~lockDir
  /\ Removed(p)
  /\ UNCHANGED <<fileVars, detail, why, reused>>

UnlinkOnly(p) ==           \* mutant of Rmdir: the directory stays
  /\ pc[p] = "rmdir"
  /\ Removed(p)
  /\ UNCHANGED <<fileVars, detail, why, reused>>

Rmdir(p) ==                \* never a directory that is not empty
  /\ pc[p] = "rmdir" /\ pidFile = "missing"
  /\ lockDir' = FALSE
  /\ Removed(p)
  /\ UNCHANGED <<pidFile, handles, aged, detail, why, reused>>

\* A foreign file in the directory or an OSError of unlink or rmdir.  Every
\* caller ignores it: a reclaimer tries again, the others end and leave it.
RemovalFails(p) ==
  /\ pc[p] \in Removing /\ lockDir
  /\ why' = [why EXCEPT ![p] = "none"]
  /\ \/ /\ why[p] = "stale"
        /\ pc' = [pc EXCEPT ![p] = "attempt"] /\ NextAttempt(p)
        /\ UNCHANGED guard
     \/ /\ why[p] # "stale"
        /\ pc' = [pc EXCEPT ![p] = "abandoned"] /\ LeaveGuard(p)
        /\ UNCHANGED attempt
  /\ UNCHANGED <<fileVars, detail, reused>>

-----------------------------------------------------------------------------
(* Release *)

BeginRelease(p) ==
  /\ Goto(p, "critical", IF Guarded(p) THEN "checkOwner" ELSE "unlink")
  /\ EnterGuard(p)
  /\ why' = [why EXCEPT ![p] = "release"]
  /\ UNCHANGED <<fileVars, attempt, detail, reused>>

GuardFails(p) ==           \* the release gives up; the lock is left behind
  /\ Guarded(p)
  /\ Goto(p, "critical", "abandoned")
  /\ UNCHANGED <<fileVars, guard, attempt, detail, why, reused>>

StillOwner(p) ==
  /\ lockDir /\ pidFile = p
  /\ Goto(p, "checkOwner", "unlink")
  /\ UNCHANGED <<fileVars, guard, attempt, detail, why, reused>>

PidUnread(p) ==            \* the owner cannot read its pid back and leaves it all
  /\ Goto(p, "checkOwner", "abandoned")
  /\ LeaveGuard(p)
  /\ UNCHANGED <<fileVars, attempt, detail, why, reused>>

NotOwner(p) ==
  /\ ~(lockDir /\ pidFile = p)
  /\ Goto(p, "checkOwner", "done")
  /\ LeaveGuard(p)
  /\ UNCHANGED <<fileVars, attempt, detail, why, reused>>

-----------------------------------------------------------------------------
(* The environment *)

CrashInGuard(p) ==         \* mutant of Crash: the guard outlives its holder
  /\ pc[p] \notin Ended \cup {"start"}
  /\ pc' = [pc EXCEPT ![p] = "crashed"]
  /\ handles' = handles \ {p}
  /\ UNCHANGED <<lockDir, pidFile, aged, guard, attempt, detail, why, reused>>

Crash(p) ==                \* the kernel drops the flock and the open file
  /\ pc[p] \notin Ended \cup {"start"}
  /\ pc' = [pc EXCEPT ![p] = "crashed"]
  /\ LeaveGuard(p)
  /\ handles' = handles \ {p}
  /\ UNCHANGED <<lockDir, pidFile, aged, attempt, detail, why, reused>>

SettingUp(p) == pc[p] \in {"created", "writing"}
Settled == \A p \in Procs : ~SettingUp(p) /\ pc[p] \notin Removing

Age ==
  /\ lockDir /\ ~aged
  /\ Prompt => Settled
  /\ aged' = TRUE
  /\ UNCHANGED <<lockDir, pidFile, handles, guard, procVars, reused>>

PidReused ==
  /\ Cardinality(reused) < MaxReuse
  /\ HasOwner /\ ~Alive(pidFile)
  /\ reused' = reused \cup {pidFile}
  /\ UNCHANGED <<fileVars, guard, procVars>>

Proceeds(p) ==
  \/ Begin(p) \/ Mkdir(p) \/ LockExists(p) \/ MkdirFails(p) \/ Exhausted(p)
  \/ CreatePid(p) \/ CreatePidFails(p) \/ WritePid(p) \/ WritePidFails(p)
  \/ FoundAlive(p) \/ FoundIncomplete(p) \/ FoundDead(p)
  \/ Unlink(p) \/ AlreadyGone(p) \/ Rmdir(p) \/ RemovalFails(p)
  \/ BeginRelease(p) \/ GuardFails(p) \/ StillOwner(p) \/ PidUnread(p) \/ NotOwner(p)

ProcStep(p) == BeginFails(p) \/ Proceeds(p)

Finished ==                \* every invocation is over; not a deadlock
  /\ \A p \in Procs : pc[p] \in Ended
  /\ UNCHANGED vars

Next ==
  \/ \E p \in Procs : ProcStep(p) \/ Crash(p)
  \/ Age \/ PidReused
  \/ Finished

Spec == Init /\ [][Next]_vars

(* A process that runs is scheduled; flock is granted once it is free (the *)
(* guard is held for a bounded number of steps, so weak fairness per       *)
(* process would let others overtake for ever only with endless arrivals). *)
(* Nobody can rely on failing to enter the guard.                          *)
FairSpec == Spec /\ \A p \in Procs : WF_vars(Proceeds(p))

-----------------------------------------------------------------------------
(* Properties *)

\* Every variable stays in its range.
TypeOK ==
  /\ lockDir \in BOOLEAN /\ aged \in BOOLEAN
  /\ pidFile \in Procs \cup {"missing", "empty"}
  /\ handles \in SUBSET Procs /\ reused \in SUBSET Procs
  /\ guard \in PyProcs \cup {NoProc}
  /\ pc \in [Procs -> Steps]
  /\ attempt \in [Procs -> 0..Attempts]
  /\ detail \in [Procs -> {"unavailable", "stale", "fresh", "running"}]
  /\ why \in [Procs -> {"none", "stale", "undo", "release"}]

\* "Serializing invocations prevents races over source deletion and staging
\* cleanup": two uploaders never work on one workspace at the same time.
MutualExclusion ==
  \A p, q \in Procs : pc[p] = "critical" /\ pc[q] = "critical" => p = q

\* During the rollout, with Bash uploaders that take no guard, the exclusion
\* holds as long as no invocation died with the lock: only the reclaiming of a
\* dead owner's lock is not safe between the two (run lock_rollout).
RolloutExclusion ==
  (\A p \in Procs : pc[p] \notin {"crashed", "abandoned"}) => MutualExclusion

\* No process takes away the pid file or the directory of a live owner, or of
\* a live process that is still setting its lock up.
LiveLockKept ==
  [][/\ \A q \in Procs :
          pidFile = q /\ pidFile' # q /\ pc[q] \notin Ended => pc'[q] # pc[q]
     /\ lockDir /\ ~lockDir' =>
          \A q \in Procs : SettingUp(q) \/ pc[q] = "critical" => pc'[q] # pc[q]]_vars

\* A reclaimer with an attempt left races with nobody: its removal of the dead
\* owner's lock, if it did not fail, left the way free until its next mkdir,
\* and even where it failed ("stale lock could not be removed") no third
\* process has made the lock its own or is about to.
ReclaimEffective ==
  \A p \in PyProcs :
    pc[p] = "attempt" /\ detail[p] = "stale" /\ attempt[p] < Attempts =>
      /\ why[p] = "stale" => ~lockDir
      /\ \A q \in Procs : ~SettingUp(q) /\ pc[q] # "critical"

\* A lock outlives the invocations only if one of them crashed, lost the guard
\* at release, or could not remove its own directory: every refused or finished
\* one, whatever else failed on its way, has nothing left on disk that the next
\* invocation would have to reclaim.
NoLeakedLock ==
  (\A p \in Procs : pc[p] \in {"start", "done", "refused"}) => ~lockDir

\* Every invocation gets the lock, is refused or crashes: none waits for ever
\* on the guard, a crashed holder, or a stale directory.
EveryContenderDecides ==
  \A p \in Procs : <>(pc[p] \in {"critical"} \cup Ended)
=============================================================================
