------------------------------- MODULE Discovery -------------------------------
(***************************************************************************)
(* Waiting until payload files settle (discovery.py), then uploading and   *)
(* deleting them (file_worker.py), while tests that still run write,       *)
(* rewrite and remove them.                                                *)
(*                                                                         *)
(* t is real time; the clock that stamps files and that the wait reads is  *)
(* t + skew, and may be set.  A test opens its file, which truncates it,   *)
(* and later completes it.  Enrichment, splitting and answers are in the   *)
(* modules FileUpload and Splitting: here a file is uploaded, or not.      *)
(***************************************************************************)
EXTENDS Integers, FiniteSets, FiniteSetsExt

CONSTANTS
  Files,          \* payload files that a walk of the scan roots can find
  Parsed,         \* those whose body is parsed before it is sent
  NoFile,         \* no file at a path
  Settings,       \* values of <<quiescent_seconds, max_wait_seconds>>
  Poll,           \* poll_seconds
  Epoch,          \* the clock at the start, later than every interval
  MaxWrites,      \* bound: times a test opens a file
  MaxSlow,        \* bound: time that passes outside the sleep of the wait
  MaxSteps,       \* bound: times the clock is set
  MaxRuns         \* bound: invocations

ASSUME DiscoveryAssumption ==
  /\ Parsed \subseteq Files
  /\ Settings \subseteq Nat \X Nat /\ Poll \in Nat \ {0} /\ Epoch \in Nat
  /\ NoFile \notin [version : Nat, whole : BOOLEAN, mtime : Int]
  /\ MaxWrites \in Nat /\ MaxSlow \in Nat /\ MaxSteps \in Nat /\ MaxRuns \in Nat

VARIABLES
  disk,      \* file -> NoFile or [version, whole, mtime]
  current,   \* file -> the version its test wants uploaded, 0 if none
  last,      \* file -> the time its test last touched it, -1 if never
  paused,    \* files whose test paused for quiescent_seconds in this run,
             \*   between two steps of it or in the middle of the file
  writes,    \* times a test opened a file
  t, skew, steps, slow,
  quiet, wait,
  pc, run,
  started,   \* the clock when the wait began, while it lasts
  clock,     \* the clock as last read, while it lasts
  left,      \* what is left of the sleep
  tasks,     \* files of the last scan
  vanished,  \* those that were gone when their time was read
  reason,    \* why the wait ended
  reading,   \* file -> the body its worker has read, for tasks at work
  work,      \* tasks without a worker yet
  uploaded   \* file -> versions that were uploaded whole

tests == <<disk, current, last, paused, writes>>
time == <<t, skew, steps, slow>>
waiting == <<started, clock, left, tasks, vanished, reason>>
workers == <<reading, work, uploaded>>
settings == <<quiet, wait, run>>
vars == <<tests, time, waiting, workers, settings, pc>>

Wall == t + skew

\* Bound: what happens once the last invocation is over is left out.
Ongoing == pc # "idle" \/ run < MaxRuns

Init ==
  /\ disk = [f \in Files |-> NoFile] /\ current = [f \in Files |-> 0]
  /\ last = [f \in Files |-> -1] /\ paused = {} /\ writes = 0
  /\ t = Epoch /\ skew = 0 /\ steps = 0 /\ slow = 0
  /\ \E s \in Settings : quiet = s[1] /\ wait = s[2]
  /\ pc = "idle" /\ run = 0 /\ started = 0 /\ clock = 0 /\ left = 0
  /\ tasks = {} /\ vanished = {} /\ reason = "none"
  /\ reading = [f \in {} |-> 0] /\ work = {} /\ uploaded = [f \in Files |-> {}]

-----------------------------------------------------------------------------
(* The tests and the clock                                                 *)

Touched(f) ==
  /\ Ongoing
  /\ last' = [last EXCEPT ![f] = t]
  /\ paused' = IF last[f] >= 0 /\ t - last[f] >= quiet THEN paused \cup {f} ELSE paused
  /\ UNCHANGED <<time, waiting, workers, settings, pc>>

Open(f) ==
  /\ writes < MaxWrites /\ writes' = writes + 1
  /\ current' = [current EXCEPT ![f] = writes']
  /\ disk' = [disk EXCEPT ![f] = [version |-> writes', whole |-> FALSE, mtime |-> Wall]]
  /\ Touched(f)

Complete(f) ==
  /\ disk[f] # NoFile /\ ~disk[f].whole
  /\ disk' = [disk EXCEPT ![f] = [@ EXCEPT !.whole = TRUE, !.mtime = Wall]]
  /\ Touched(f) /\ UNCHANGED <<current, writes>>

\* Bazel removes the outputs of a test that it runs again.
Remove(f) ==
  /\ disk[f] # NoFile /\ writes < MaxWrites
  /\ disk' = [disk EXCEPT ![f] = NoFile] /\ current' = [current EXCEPT ![f] = 0]
  /\ Touched(f) /\ UNCHANGED writes

TestStep == \E f \in Files : Open(f) \/ Complete(f) \/ Remove(f)

Tick ==
  /\ \/ pc = "sleep" /\ left > 0 /\ left' = left - 1 /\ UNCHANGED slow
     \/ pc # "sleep" /\ Ongoing /\ slow < MaxSlow /\ slow' = slow + 1 /\ UNCHANGED left
  /\ t' = t + 1
  /\ UNCHANGED <<tests, skew, steps, started, clock, tasks, vanished, reason, workers, settings,
                 pc>>

SetClock ==
  /\ run < MaxRuns \/ pc \notin {"idle", "work"}     \* a wait will read it
  /\ steps < MaxSteps /\ steps' = steps + 1
  /\ skew' \in {skew - 2, skew + 2}
  /\ UNCHANGED <<tests, t, slow, waiting, workers, settings, pc>>

-----------------------------------------------------------------------------
(* wait_for_quiescence                                                     *)

Begin ==
  /\ pc = "idle" /\ run < MaxRuns /\ run' = run + 1
  /\ started' = Wall /\ reason' = "none" /\ tasks' = {} /\ vanished' = {} /\ paused' = {}
  /\ pc' = "scan"
  /\ UNCHANGED <<disk, current, last, writes, time, clock, left, workers, quiet, wait>>

Scan ==
  /\ pc = "scan" /\ pc' = "clock"
  /\ tasks' = {f \in Files : disk[f] # NoFile}
  /\ UNCHANGED <<tests, time, started, clock, left, vanished, reason, workers, settings>>

ReadClock ==
  /\ pc = "clock" /\ pc' = "check" /\ clock' = Wall
  /\ UNCHANGED <<tests, time, started, left, tasks, vanished, reason, workers, settings>>

AtLeast0(n) == IF n > 0 THEN n ELSE 0
Elapsed == AtLeast0(clock - started)

\* Mutant: the file that is oldest decides.
OldestMtime == Min({disk[f].mtime : f \in {g \in tasks : disk[g] # NoFile}} \cup {clock})

\* payload_latest_mtime: a file that is gone by now does not count.
LatestMtime == Max({disk[f].mtime : f \in {g \in tasks : disk[g] # NoFile}} \cup {0})

Settled == quiet = 0 \/ AtLeast0(clock - LatestMtime) >= quiet

\* Mutant: the budget must be exceeded: the wait spins at its end.
ReasonsWhenExceeded ==
  IF tasks = {}
  THEN IF wait = 0 THEN {"no_payload_immediate"}
       ELSE IF Elapsed > wait THEN {"max_wait"} ELSE {}
  ELSE IF Settled THEN {"quiescent"}
  ELSE IF wait = 0 \/ Elapsed > wait THEN {"max_wait"} ELSE {}

\* Why the wait ends now, if it does.
Reasons ==
  IF tasks = {}
  THEN IF wait = 0 THEN {"no_payload_immediate"}
       ELSE IF Elapsed >= wait THEN {"max_wait"} ELSE {}
  ELSE IF Settled THEN {"quiescent"}
  ELSE IF wait = 0 \/ Elapsed >= wait THEN {"max_wait"} ELSE {}

Stop ==
  /\ pc = "check" /\ reason' \in Reasons /\ pc' = "work"
  /\ vanished' = {f \in tasks : disk[f] = NoFile}
  /\ work' = tasks
  /\ paused' = paused \cup
       {f \in tasks : disk[f] # NoFile /\ ~disk[f].whole /\ t - last[f] >= quiet}
  /\ started' = 0 /\ clock' = 0
  /\ UNCHANGED <<disk, current, last, writes, time, left, tasks, reading, uploaded, settings>>

\* Mutant: always a whole poll.
WholePoll == Poll
\* What the wait sleeps: a poll, or what remains of the budget.
Pause == IF wait = 0 THEN Poll ELSE Min({Poll, wait - Elapsed})

Sleep ==
  /\ pc = "check" /\ Reasons = {} /\ pc' = "sleep" /\ left' = Pause
  /\ UNCHANGED <<tests, time, started, clock, tasks, vanished, reason, workers, settings>>

Wake ==
  /\ pc = "sleep" /\ left = 0 /\ pc' = "scan"
  /\ UNCHANGED <<tests, time, waiting, workers, settings>>

-----------------------------------------------------------------------------
(* The workers                                                             *)

Stopped(f) == reading' = [g \in DOMAIN reading \ {f} |-> reading[g]]

\* A worker reads its file; one that is gone or does not parse is left.
Read(f) ==
  /\ pc = "work" /\ f \in work /\ work' = work \ {f}
  /\ reading' = IF disk[f] = NoFile \/ (f \in Parsed /\ ~disk[f].whole) THEN reading
                ELSE [g \in DOMAIN reading \cup {f} |-> IF g = f THEN disk[f] ELSE reading[g]]
  /\ UNCHANGED <<tests, time, waiting, uploaded, settings, pc>>

Sent(f) ==
  uploaded' = IF reading[f].whole THEN [uploaded EXCEPT ![f] = @ \cup {reading[f].version}]
              ELSE uploaded

\* Every request was accepted: the path is unlinked, whatever is there now.
Delete(f) ==
  /\ pc = "work" /\ f \in DOMAIN reading /\ Stopped(f) /\ Sent(f)
  /\ disk' = [disk EXCEPT ![f] = NoFile]
  /\ UNCHANGED <<current, last, paused, writes, time, waiting, work, settings, pc>>

\* Some request failed: what is left of the body that was read replaces the
\* file, and the part that was accepted is not seen here.
Retain(f) ==
  /\ pc = "work" /\ f \in DOMAIN reading \cap Parsed /\ Stopped(f)
  /\ disk' = [disk EXCEPT ![f] = [reading[f] EXCEPT !.mtime = Wall]]
  /\ UNCHANGED <<current, last, paused, writes, time, waiting, work, uploaded, settings, pc>>

\* Nothing was accepted.
Leave(f) ==
  /\ pc = "work" /\ f \in DOMAIN reading /\ Stopped(f)
  /\ UNCHANGED <<tests, time, waiting, work, uploaded, settings, pc>>

End ==
  /\ pc = "work" /\ work = {} /\ DOMAIN reading = {} /\ pc' = "idle"
  /\ UNCHANGED <<tests, time, waiting, workers, settings>>

WaitStep == Scan \/ ReadClock \/ Stop \/ Sleep \/ Wake
WorkerStep == \E f \in Files : Read(f) \/ Delete(f) \/ Retain(f) \/ Leave(f)
Over == pc = "idle" /\ run = MaxRuns /\ UNCHANGED vars

Next == TestStep \/ Tick \/ SetClock \/ Begin \/ WaitStep \/ WorkerStep \/ End \/ Over

Spec == Init /\ [][Next]_vars

\* The wait runs when it can, and its sleeps end.
FairSpec == Spec /\ WF_vars(WaitStep) /\ WF_vars(pc = "sleep" /\ Tick)

-----------------------------------------------------------------------------
(* Properties                                                              *)

TypeOK ==
  /\ pc \in {"idle", "scan", "clock", "check", "sleep", "work"} /\ run \in 0..MaxRuns
  /\ reason \in {"none", "no_payload_immediate", "max_wait", "quiescent"}
  /\ left \in 0..Poll /\ (pc = "sleep" => wait > 0)
  /\ tasks \subseteq Files /\ work \subseteq tasks /\ DOMAIN reading \subseteq tasks \ work
  /\ \A f \in Files : disk[f] # NoFile => disk[f].version \in 1..writes

Holds(f) == disk[f] # NoFile /\ disk[f].version = current[f]

\* The wait could not tell that the test was not done: it gave up, was told
\* not to wait, the clock was set, the file was gone when its time was read,
\* or its test paused for as long as the wait takes for the end.
Excused(f) ==
  \/ reason # "quiescent" \/ quiet = 0 \/ steps > 0
  \/ f \in vanished \/ f \in paused

\* What a test wrote last is never deleted or replaced before it has been
\* uploaded whole, although workers do not look again at what they unlink.
NothingOverrun ==
  [][\A f \in Files :
       Holds(f) /\ current'[f] = current[f] /\ ~Holds(f)'
       => current[f] \in uploaded'[f] \/ Excused(f)]_vars

\* The wait never outlasts its budget by more than the time scans take.
BoundedWait ==
  steps = 0 /\ pc \in {"scan", "clock", "check", "sleep"} => Wall - started <= wait + slow

\* Discovery ends, whatever the tests and the clock do.
DiscoveryEnds == pc = "scan" ~> pc = "work"
=============================================================================
