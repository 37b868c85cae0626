------------------------------ MODULE PlatformLock ------------------------------
(***************************************************************************)
(* The Python uploader's lock on either platform (WorkspaceLock.acquire    *)
(* and release): the lock directory of module WorkspaceLock on Unix, and   *)
(* on Windows a byte-range lock on a file, held while the process works.   *)
(*                                                                         *)
(* A Windows file keeps its identity while its path is unlinked and made   *)
(* anew; files are numbered in the order they are made.  Of Windows it is  *)
(* used that closing a file, also by a crash, drops its locks, and that a  *)
(* file somebody has open cannot be unlinked (Python opens without         *)
(* FILE_SHARE_DELETE).                                                     *)
(***************************************************************************)
EXTENDS WorkspaceLock

VARIABLES
  platform,  \* os.name, "posix" or "nt"
  linked,    \* the file at the lock path, 0 if there is none
  made,      \* files made so far
  opened,    \* the file each process has open, 0 for none
  locking    \* processes that hold the byte of the file they have open

winVars == <<linked, made, opened, locking>>
unixVars == <<fileVars, guard, detail, why, reused>>
platformVars == <<platform, winVars, vars>>

PlatformInit ==
  /\ Init /\ platform \in {"posix", "nt"}
  /\ linked = 0 /\ made = 0
  /\ opened = [p \in Procs |-> 0] /\ locking = {}

\* _acquire_windows: the file is opened, and made if it is not there.
OpenFile(p) ==
  /\ pc[p] = "start" /\ attempt[p] < Attempts
  /\ pc' = [pc EXCEPT ![p] = "writing"]
  /\ made' = IF linked = 0 THEN made + 1 ELSE made
  /\ linked' = IF linked = 0 THEN made' ELSE linked
  /\ opened' = [opened EXCEPT ![p] = linked']
  /\ UNCHANGED <<platform, locking, unixVars, attempt>>

\* After a failed open, write or lock: another attempt, or the refusal.
TryAgain(p) ==
  /\ NextAttempt(p)
  /\ pc' = [pc EXCEPT ![p] = IF attempt'[p] < Attempts THEN "start" ELSE "refused"]
  /\ opened' = [opened EXCEPT ![p] = 0]

OpenFails(p) ==
  /\ pc[p] = "start" /\ attempt[p] < Attempts
  /\ TryAgain(p)
  /\ UNCHANGED <<platform, linked, made, locking, unixVars>>

Contended(p) == \E q \in locking : opened[q] = opened[p]

LockByte(p) ==
  /\ pc[p] = "writing" /\ ~Contended(p)
  /\ pc' = [pc EXCEPT ![p] = "critical"]
  /\ locking' = locking \cup {p}
  /\ UNCHANGED <<platform, linked, made, opened, unixVars, attempt>>

\* LK_NBLCK does not wait; the write or the lock may also fail by itself.
LockFails(p) ==
  /\ pc[p] = "writing"
  /\ TryAgain(p)
  /\ UNCHANGED <<platform, linked, made, locking, unixVars>>

\* _release_windows: unlock, close, unlink.
UnlockByte(p) ==
  /\ pc[p] = "critical"
  /\ pc' = [pc EXCEPT ![p] = "checkOwner"]
  /\ locking' = locking \ {p}
  /\ UNCHANGED <<platform, linked, made, opened, unixVars, attempt>>

CloseFile(p) ==
  /\ pc[p] = "checkOwner"
  /\ pc' = [pc EXCEPT ![p] = "unlink"]
  /\ opened' = [opened EXCEPT ![p] = 0]
  /\ UNCHANGED <<platform, linked, made, locking, unixVars, attempt>>

\* The file at the path stays if somebody has it open, and may stay anyway.
UnlinkFile(p) ==
  /\ pc[p] = "unlink"
  /\ pc' = [pc EXCEPT ![p] = "done"]
  /\ linked' \in IF \E q \in Procs : opened[q] = linked THEN {linked} ELSE {0, linked}
  /\ UNCHANGED <<platform, made, opened, locking, unixVars, attempt>>

CrashOnWindows(p) ==
  /\ pc[p] \notin Ended \cup {"start"}
  /\ pc' = [pc EXCEPT ![p] = "crashed"]
  /\ locking' = locking \ {p} /\ opened' = [opened EXCEPT ![p] = 0]
  /\ UNCHANGED <<platform, linked, made, unixVars, attempt>>

WindowsStep(p) ==
  \/ OpenFile(p) \/ OpenFails(p) \/ LockByte(p) \/ LockFails(p)
  \/ UnlockByte(p) \/ CloseFile(p) \/ UnlinkFile(p) \/ CrashOnWindows(p)

UnixNext == platform = "posix" /\ Next /\ UNCHANGED <<platform, winVars>>
WindowsNext ==
  /\ platform = "nt"
  /\ (\E p \in PyProcs : WindowsStep(p)) \/ (Finished /\ UNCHANGED <<platform, winVars>>)

PlatformNext == UnixNext \/ WindowsNext

PlatformSpec == PlatformInit /\ [][PlatformNext]_platformVars

-----------------------------------------------------------------------------
(* The inductive invariant behind the exclusion on Windows                 *)

\* A process that has the file open and is about to lock it, works or unlocks
\* it, has the linked one, since nobody can unlink it; exactly the working one
\* holds its byte.  The lock directory is not used.
WindowsInv ==
  platform = "nt" =>
    /\ linked \in Nat /\ made \in Nat /\ linked <= made
    /\ opened \in [Procs -> Nat] /\ pc \in [Procs -> Steps]
    /\ \A p \in Procs :
         /\ pc[p] \in {"writing", "critical", "checkOwner"} =>
              opened[p] = linked /\ linked # 0
         /\ p \in locking <=> pc[p] = "critical"
         /\ pc[p] # "attempt"
    /\ MutualExclusion
    /\ ~lockDir
=============================================================================
