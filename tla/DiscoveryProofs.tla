--------------------------- MODULE DiscoveryProofs ---------------------------
(***************************************************************************)
(* What holds of the wait for quiescence and of the workers after it, for  *)
(* every set of files, setting, poll, course of the tests and of the       *)
(* clock: the wait stays within its budget, and nothing that the wait      *)
(* could know to be unfinished is deleted or replaced unsent.              *)
(***************************************************************************)
EXTENDS Discovery, WellFoundedInduction, TLAPS

Waiting == {"scan", "clock", "check", "sleep"}
Stored == [version : 1..writes, whole : BOOLEAN, mtime : Int]
Present(f) == disk[f] # NoFile

Shapes ==
  /\ t \in Nat /\ skew \in Int /\ steps \in Nat /\ slow \in Nat
  /\ quiet \in Nat /\ wait \in Nat /\ started \in Int /\ clock \in Int
  /\ writes \in Nat
  /\ disk \in [Files -> Stored \cup {NoFile}]
  /\ current \in [Files -> 0..writes] /\ last \in [Files -> Int]
  /\ uploaded \in [Files -> SUBSET Nat]
  /\ \A f \in DOMAIN reading : reading[f] \in Stored /\ last[f] >= 0
  /\ pc # "work" => work = {} /\ DOMAIN reading = {}
  /\ \A f \in Files : Present(f) => last[f] >= 0

\* What is left of the budget, slow scans apart, covers the sleep.
SleepsInBudget ==
  /\ steps = 0 => skew = 0
  /\ steps = 0 /\ pc \in Waiting =>
       Wall - started + (IF pc = "sleep" THEN left ELSE 0) <= wait + slow
  /\ steps = 0 /\ pc = "check" => clock <= Wall /\ Wall - clock <= slow

\* A modification time is not before the last step of the test.
TimesAgree ==
  steps = 0 => \A f \in Files :
    /\ last[f] <= t
    /\ Present(f) => last[f] <= disk[f].mtime /\ disk[f].mtime <= t

\* The test is over: a worker that has not read the file yet will find it
\* whole, and one that has read it has what the test wrote last.
Finished(f) ==
  /\ last[f] >= 0 /\ t - last[f] >= quiet
  /\ f \in work /\ Present(f) => disk[f].whole
  /\ f \in DOMAIN reading /\ Holds(f) =>
       reading[f].whole /\ reading[f].version = current[f]

FinishedAtWork == pc = "work" => \A f \in tasks : Finished(f) \/ Excused(f)

DiscoveryInv == TypeOK /\ Shapes /\ SleepsInBudget /\ TimesAgree /\ FinishedAtWork

-----------------------------------------------------------------------------
(* The extremes of the sets that the wait computes                         *)

\* A set of integers with an upper bound has a greatest element, which is
\* what Max chooses.
LEMMA MaxOfBounded ==
  ASSUME NEW S \in SUBSET Int, S # {}, NEW b \in Int, \A x \in S : x <= b
  PROVE  Max(S) \in S /\ \A y \in S : y <= Max(S)
<1> DEFINE T == {b - x : x \in S}
           R == {p \in Nat \X Nat : p[1] < p[2]}
<1>1. T \subseteq Nat /\ T # {}
  <2>1. \A x \in S : b - x \in Nat
    OBVIOUS
  <2> QED
    BY <2>1
<1>2. \E x \in T : \A y \in T : <<y, x>> \notin R
  <2>1. IsWellFoundedOn(R, Nat)
    BY NatLessThanWellFounded DEF OpToRel
  <2> HIDE DEF T, R
  <2> QED
    BY <1>1, <2>1, WFMin
<1>3. PICK x \in T : \A y \in T : <<y, x>> \notin R
  BY <1>2
<1>4. \A y \in T : x <= y
  <2>1. \A p, q \in Nat : p < q => <<p, q>> \in R
    OBVIOUS
  <2> HIDE DEF T, R
  <2>2. \A y \in T : y \in Nat /\ x \in Nat /\ ~(y < x)
    BY <1>1, <1>3, <2>1
  <2> QED
    BY <2>2
<1>5. PICK m \in S : x = b - m
  OBVIOUS
<1>6. \A y \in S : m >= y
  <2> SUFFICES ASSUME NEW y \in S PROVE m >= y
    OBVIOUS
  <2>1. b - y \in T
    OBVIOUS
  <2>2. x <= b - y
    BY <1>4, <2>1
  <2> QED
    BY <1>5, <2>2
<1>7. \E z \in S : \A y \in S : z >= y
  BY <1>6
<1>8. Max(S) \in S /\ \A y \in S : Max(S) >= y
  BY <1>7 DEF Max
<1> QED
  BY <1>8

LEMMA MinOfTwo ==
  ASSUME NEW a \in Int, NEW b \in Int
  PROVE  Min({a, b}) \in {a, b} /\ Min({a, b}) <= a /\ Min({a, b}) <= b
<1>1. \E x \in {a, b} : \A y \in {a, b} : x =< y
  <2>1. CASE a <= b
    BY <2>1
  <2>2. CASE b <= a
    BY <2>2
  <2> QED
    BY <2>1, <2>2
<1>2. Min({a, b}) \in {a, b} /\ \A y \in {a, b} : Min({a, b}) =< y
  BY <1>1 DEF Min
<1> QED
  BY <1>2

\* Quiescence was observed, not configured away: each file of the scan that
\* was there was left alone for the quiet time.
LEMMA QuietObserved ==
  ASSUME Shapes, SleepsInBudget, TimesAgree, tasks \subseteq Files,
         pc = "check", Settled, quiet # 0, steps = 0,
         NEW f \in tasks, Present(f)
  PROVE  t - last[f] >= quiet
<1> DEFINE S == {disk[g].mtime : g \in {h \in tasks : disk[h] # NoFile}} \cup {0}
<1>1. S \in SUBSET Int /\ S # {} /\ \A x \in S : x <= t
  BY DEF Shapes, Stored, TimesAgree, Present
<1>2. disk[f].mtime \in S
  BY DEF Present
<1>3. t \in Int
  BY DEF Shapes
<1> HIDE DEF S
<1>4. Max(S) \in Int /\ disk[f].mtime <= Max(S)
  BY <1>1, <1>2, <1>3, MaxOfBounded
<1>5. LatestMtime = Max(S)
  BY DEF LatestMtime, S
<1>6. clock - Max(S) >= quiet
  BY <1>4, <1>5 DEF Settled, AtLeast0, Shapes
<1>7. clock <= t
  BY DEF SleepsInBudget, Wall, Shapes
<1>8. last[f] <= disk[f].mtime /\ last[f] \in Int /\ disk[f].mtime \in Int
  BY DEF TimesAgree, Shapes, Stored, Present
<1> QED
  BY <1>4, <1>6, <1>7, <1>8 DEF Shapes

-----------------------------------------------------------------------------
(* The steps of the tests and of the clock                                 *)

LEMMA InitDiscovery == Init => DiscoveryInv
<1> SUFFICES ASSUME Init PROVE DiscoveryInv
  OBVIOUS
<1> USE DiscoveryAssumption DEF Init
<1>1. PICK s \in Settings : quiet = s[1] /\ wait = s[2]
  OBVIOUS
<1>2. quiet \in Nat /\ wait \in Nat
  BY <1>1
<1>3. TypeOK
  BY DEF TypeOK
<1>4. Shapes
  BY <1>2 DEF Shapes, Present
<1>5. SleepsInBudget
  BY DEF SleepsInBudget, Waiting
<1>6. TimesAgree
  BY DEF TimesAgree, Present
<1>7. FinishedAtWork
  BY DEF FinishedAtWork
<1> QED
  BY <1>3, <1>4, <1>5, <1>6, <1>7 DEF DiscoveryInv

\* What excuses the workers for a file is not taken back while they run.
LEMMA ExcusedStays ==
  ASSUME Shapes, NEW f, Excused(f), reason' = reason, quiet' = quiet, vanished' = vanished,
         steps' \in Nat, steps' >= steps, paused \subseteq paused'
  PROVE  Excused(f)'
<1>1. steps > 0 => steps' > 0
  BY DEF Shapes
<1> QED
  BY <1>1 DEF Excused

\* A test step on a file leaves the times in agreement, and excuses the file
\* when the wait had taken its test for finished.
LEMMA TouchedKeeps ==
  ASSUME DiscoveryInv, NEW f \in Files, Touched(f),
         writes' \in Nat, writes' >= writes,
         current' \in [Files -> 0..writes'],
         \A g \in Files \ {f} : current'[g] = current[g],
         NEW content, content = NoFile \/ (content \in Stored' /\ content.mtime = Wall),
         disk' = [disk EXCEPT ![f] = content]
  PROVE  DiscoveryInv'
<1> USE DEF DiscoveryInv, Touched, time, waiting, workers, settings
<1>1. TypeOK'
  BY DEF TypeOK, Shapes, Stored
<1>2. Shapes'
  <2>1. disk' \in [Files -> Stored' \cup {NoFile}]
    BY DEF Shapes, Stored
  <2>2. last' \in [Files -> Int] /\ \A g \in Files : Present(g)' => last'[g] >= 0
    BY DEF Shapes, Present
  <2>3. \A g \in DOMAIN reading' : reading'[g] \in Stored' /\ last'[g] >= 0
    BY DEF Shapes, Stored, TypeOK
  <2> QED
    BY <2>1, <2>2, <2>3 DEF Shapes
<1>3. SleepsInBudget'
  BY DEF SleepsInBudget, Wall
<1>4. TimesAgree'
  <2> SUFFICES ASSUME steps = 0, NEW g \in Files
               PROVE  /\ last'[g] <= t
                      /\ Present(g)' => last'[g] <= disk'[g].mtime /\ disk'[g].mtime <= t
    BY DEF TimesAgree
  <2>1. CASE g = f
    <3>1. last'[g] = t /\ disk'[g] = content /\ Wall = t /\ t \in Nat
      BY <2>1 DEF Shapes, SleepsInBudget, Wall
    <3> QED
      BY <3>1 DEF Present
  <2>2. CASE g # f
    BY <2>2 DEF TimesAgree, Shapes, Present
  <2> QED
    BY <2>1, <2>2
<1>5. FinishedAtWork'
  <2> SUFFICES ASSUME pc = "work", NEW g \in tasks PROVE Finished(g)' \/ Excused(g)'
    BY DEF FinishedAtWork
  <2>1. g \in Files
    BY DEF TypeOK
  <2>2. CASE Excused(g)
    BY <2>2, ExcusedStays DEF Shapes
  <2>3. CASE Finished(g) /\ g = f
    <3>1. g \in paused'
      BY <2>3 DEF Finished
    <3> QED
      BY <3>1 DEF Excused
  <2>4. CASE Finished(g) /\ g # f
    <3>1. last'[g] = last[g] /\ disk'[g] = disk[g]
      BY <2>1, <2>4 DEF Shapes
    <3>2. current'[g] = current[g]
      BY <2>1, <2>4
    <3> QED
      BY <2>4, <3>1, <3>2 DEF Finished, Present, Holds
  <2> QED
    BY <2>2, <2>3, <2>4 DEF FinishedAtWork
<1> QED
  BY <1>1, <1>2, <1>3, <1>4, <1>5

LEMMA TestStepKeepsDiscovery == DiscoveryInv /\ TestStep => DiscoveryInv'
<1> SUFFICES ASSUME DiscoveryInv, TestStep PROVE DiscoveryInv'
  OBVIOUS
<1> USE DEF DiscoveryInv
<1>1. PICK f \in Files : Open(f) \/ Complete(f) \/ Remove(f)
  BY DEF TestStep
<1>2. Wall \in Int /\ disk \in [Files -> Stored \cup {NoFile}] /\ writes \in Nat
  BY DEF Shapes, Wall
<1>3. CASE Open(f)
  <2> DEFINE opened == [version |-> writes', whole |-> FALSE, mtime |-> Wall]
  <2>1. Touched(f) /\ writes' \in Nat /\ writes' >= writes
    BY <1>2, <1>3 DEF Open
  <2>2. /\ current' \in [Files -> 0..writes']
        /\ \A g \in Files \ {f} : current'[g] = current[g]
    BY <1>2, <1>3 DEF Open, Shapes
  <2>3. opened \in Stored' /\ opened.mtime = Wall /\ disk' = [disk EXCEPT ![f] = opened]
    BY <1>2, <1>3 DEF Open, Stored
  <2> HIDE DEF opened, DiscoveryInv
  <2> QED
    BY <2>1, <2>2, <2>3, TouchedKeeps
<1>4. CASE Complete(f)
  <2> DEFINE whole == [disk[f] EXCEPT !.whole = TRUE, !.mtime = Wall]
  <2>1. /\ Touched(f) /\ writes' \in Nat /\ writes' >= writes
        /\ current' \in [Files -> 0..writes']
        /\ \A g \in Files \ {f} : current'[g] = current[g]
    BY <1>2, <1>4 DEF Complete, Shapes
  <2>2. whole \in Stored' /\ whole.mtime = Wall
    BY <1>2, <1>4 DEF Complete, Stored
  <2>3. disk' = [disk EXCEPT ![f] = whole]
    BY <1>2, <1>4 DEF Complete
  <2> HIDE DEF whole, DiscoveryInv
  <2> QED
    BY <2>1, <2>2, <2>3, TouchedKeeps
<1>5. CASE Remove(f)
  <2>1. /\ Touched(f) /\ writes' \in Nat /\ writes' >= writes
        /\ current' \in [Files -> 0..writes']
        /\ \A g \in Files \ {f} : current'[g] = current[g]
    BY <1>2, <1>5 DEF Remove, Shapes
  <2>2. disk' = [disk EXCEPT ![f] = NoFile]
    BY <1>5 DEF Remove
  <2> HIDE DEF DiscoveryInv
  <2> QED
    BY <2>1, <2>2, TouchedKeeps
<1> QED
  BY <1>1, <1>3, <1>4, <1>5

LEMMA TickKeepsDiscovery == DiscoveryInv /\ Tick => DiscoveryInv'
<1> SUFFICES ASSUME DiscoveryInv, Tick PROVE DiscoveryInv'
  OBVIOUS
<1> USE DEF DiscoveryInv, Tick, tests, workers, settings
<1>1. TypeOK'
  BY DiscoveryAssumption DEF TypeOK
<1>2. Shapes'
  BY DEF Shapes, Present, Stored
<1>3. SleepsInBudget'
  <2>1. CASE pc = "sleep"
    BY <2>1, DiscoveryAssumption DEF SleepsInBudget, Wall, Waiting, Shapes, TypeOK
  <2>2. CASE pc # "sleep"
    BY <2>2 DEF SleepsInBudget, Wall, Waiting, Shapes
  <2> QED
    BY <2>1, <2>2
<1>4. TimesAgree'
  BY DEF TimesAgree, Present, Shapes, Stored
<1>5. FinishedAtWork'
  <2> SUFFICES ASSUME pc = "work", NEW g \in tasks PROVE Finished(g)' \/ Excused(g)'
    BY DEF FinishedAtWork
  <2>1. CASE Excused(g)
    BY <2>1, ExcusedStays DEF Shapes
  <2>2. CASE Finished(g)
    <3>1. g \in Files
      BY DEF TypeOK
    <3> QED
      BY <2>2, <3>1 DEF Finished, Present, Holds, Shapes
  <2> QED
    BY <2>1, <2>2 DEF FinishedAtWork
<1> QED
  BY <1>1, <1>2, <1>3, <1>4, <1>5

LEMMA SetClockKeepsDiscovery == DiscoveryInv /\ SetClock => DiscoveryInv'
<1> SUFFICES ASSUME DiscoveryInv, SetClock PROVE DiscoveryInv'
  OBVIOUS
<1> USE DEF DiscoveryInv, SetClock, tests, waiting, workers, settings
<1>1. TypeOK'
  BY DEF TypeOK
<1>2. Shapes'
  BY DEF Shapes, Present, Stored
<1>3. steps' # 0
  BY DEF Shapes
<1>4. SleepsInBudget' /\ TimesAgree'
  BY <1>3 DEF SleepsInBudget, TimesAgree
<1>5. FinishedAtWork'
  BY <1>2, <1>3 DEF FinishedAtWork, Excused, Shapes
<1> QED
  BY <1>1, <1>2, <1>4, <1>5

-----------------------------------------------------------------------------
(* The wait                                                                *)

LEMMA BeginKeepsDiscovery == DiscoveryInv /\ Begin => DiscoveryInv'
<1> SUFFICES ASSUME DiscoveryInv, Begin PROVE DiscoveryInv'
  OBVIOUS
<1> USE DEF DiscoveryInv, Begin, time, workers
<1>1. TypeOK'
  BY DiscoveryAssumption DEF TypeOK, Shapes
<1>2. Shapes'
  BY DEF Shapes, Present, Stored, Wall
<1>3. SleepsInBudget'
  BY DEF SleepsInBudget, Wall, Waiting, Shapes
<1>4. TimesAgree'
  BY DEF TimesAgree, Present
<1>5. FinishedAtWork'
  BY DEF FinishedAtWork
<1> QED
  BY <1>1, <1>2, <1>3, <1>4, <1>5

LEMMA ScanKeepsDiscovery == DiscoveryInv /\ (Scan \/ ReadClock \/ Wake) => DiscoveryInv'
<1> SUFFICES ASSUME DiscoveryInv, Scan \/ ReadClock \/ Wake PROVE DiscoveryInv'
  OBVIOUS
<1> USE DEF DiscoveryInv, Scan, ReadClock, Wake, tests, time, waiting, workers, settings
<1>1. TypeOK'
  BY DEF TypeOK, Shapes
<1>2. Shapes'
  BY DEF Shapes, Present, Stored, Wall
<1>3. SleepsInBudget'
  BY DEF SleepsInBudget, Wall, Waiting, Shapes
<1>4. TimesAgree'
  BY DEF TimesAgree, Present
<1>5. FinishedAtWork'
  BY DEF FinishedAtWork
<1> QED
  BY <1>1, <1>2, <1>3, <1>4, <1>5

\* The wait goes on only within its budget, and sleeps no longer than that.
LEMMA PauseFits ==
  ASSUME Shapes, Reasons = {}
  PROVE  wait > 0 /\ Pause \in 0..Poll /\ Elapsed + Pause <= wait
<1>1. wait # 0 /\ ~(Elapsed >= wait)
  BY DEF Reasons
<1>2. Elapsed \in Nat
  BY DEF Elapsed, AtLeast0, Shapes
<1>3. Poll \in Int /\ wait - Elapsed \in Int /\ Poll > 0 /\ wait \in Nat
  BY <1>2, DiscoveryAssumption DEF Shapes
<1>4. Pause = Min({Poll, wait - Elapsed})
  BY <1>1 DEF Pause
<1>5. Pause \in {Poll, wait - Elapsed} /\ Pause <= Poll /\ Pause <= wait - Elapsed
  BY <1>3, <1>4, MinOfTwo
<1> QED
  BY <1>1, <1>2, <1>3, <1>5

LEMMA SleepKeepsDiscovery == DiscoveryInv /\ Sleep => DiscoveryInv'
<1> SUFFICES ASSUME DiscoveryInv, Sleep PROVE DiscoveryInv'
  OBVIOUS
<1> USE DEF DiscoveryInv, Sleep, tests, time, workers, settings
<1>1. wait > 0 /\ Pause \in 0..Poll /\ Elapsed + Pause <= wait
  BY PauseFits
<1>2. TypeOK'
  BY <1>1 DEF TypeOK
<1>3. Shapes'
  BY DEF Shapes, Present, Stored
<1>4. SleepsInBudget'
  <2>1. Elapsed \in Int /\ clock - started <= Elapsed
    BY DEF Elapsed, AtLeast0, Shapes
  <2>2. Pause \in Int
    BY <1>1
  <2>3. steps = 0 => Wall - started + Pause <= wait + slow
    BY <1>1, <2>1, <2>2 DEF SleepsInBudget, Wall, Shapes
  <2> QED
    BY <2>3 DEF SleepsInBudget, Wall
<1>5. TimesAgree'
  BY DEF TimesAgree, Present
<1>6. FinishedAtWork'
  BY DEF FinishedAtWork
<1> QED
  BY <1>2, <1>3, <1>4, <1>5, <1>6

LEMMA StopKeepsDiscovery == DiscoveryInv /\ Stop => DiscoveryInv'
<1> SUFFICES ASSUME DiscoveryInv, Stop PROVE DiscoveryInv'
  OBVIOUS
<1> USE DEF DiscoveryInv, Stop, time, settings
<1>1. Reasons \subseteq {"no_payload_immediate", "max_wait", "quiescent"}
  BY DEF Reasons
<1>2. TypeOK'
  BY <1>1 DEF TypeOK, Shapes
<1>3. Shapes'
  BY DEF Shapes, Present, Stored
<1>4. SleepsInBudget'
  BY DEF SleepsInBudget, Wall, Waiting
<1>5. TimesAgree'
  BY DEF TimesAgree, Present
<1>6. FinishedAtWork'
  <2> SUFFICES ASSUME NEW f \in tasks, ~Excused(f)' PROVE Finished(f)'
    BY DEF FinishedAtWork
  <2>1. reason' = "quiescent" /\ quiet # 0 /\ steps = 0 /\ f \notin vanished' /\ f \notin paused'
    BY DEF Excused, Shapes
  <2>2. Settled
    BY <2>1 DEF Reasons
  <2>3. f \in Files /\ tasks \subseteq Files /\ Present(f)
    BY <2>1 DEF TypeOK, Present
  <2>4. t - last[f] >= quiet
    BY <2>1, <2>2, <2>3, QuietObserved
  <2>5. disk[f].whole
    BY <2>1, <2>3, <2>4 DEF Present
  <2>6. last[f] >= 0 /\ DOMAIN reading = {}
    BY <2>3 DEF Shapes
  <2> QED
    BY <2>4, <2>5, <2>6 DEF Finished
<1> QED
  BY <1>2, <1>3, <1>4, <1>5, <1>6

-----------------------------------------------------------------------------
(* The workers                                                             *)

LEMMA ReadKeepsDiscovery ==
  ASSUME DiscoveryInv, NEW f \in Files, Read(f) PROVE DiscoveryInv'
<1> USE DEF DiscoveryInv, Read, tests, time, waiting, settings
<1> DEFINE Skipped == disk[f] = NoFile \/ (f \in Parsed /\ ~disk[f].whole)
<1>1. CASE Skipped
  <2>1. reading' = reading /\ work' = work \ {f}
    BY <1>1
  <2> HIDE DEF Skipped
  <2>2. TypeOK' /\ Shapes'
    BY <2>1 DEF TypeOK, Shapes, Present, Stored
  <2>3. SleepsInBudget' /\ TimesAgree'
    BY DEF SleepsInBudget, TimesAgree, Wall, Present
  <2>4. FinishedAtWork'
    BY <2>1 DEF FinishedAtWork, Finished, Excused, Holds, Present
  <2> QED
    BY <2>2, <2>3, <2>4
<1>2. CASE ~Skipped
  <2>1. /\ DOMAIN reading' = DOMAIN reading \cup {f} /\ work' = work \ {f}
        /\ reading'[f] = disk[f] /\ \A g \in DOMAIN reading \ {f} : reading'[g] = reading[g]
    BY <1>2
  <2>2. Present(f) /\ disk[f] \in Stored
    BY <1>2 DEF Shapes, Present
  <2> HIDE DEF Skipped
  <2>3. TypeOK'
    BY <2>1 DEF TypeOK
  <2>4. Shapes'
    <3>1. \A g \in DOMAIN reading' : reading'[g] \in Stored' /\ last'[g] >= 0
      BY <2>1, <2>2 DEF Shapes, Stored
    <3> QED
      BY <3>1 DEF Shapes, Stored, Present
  <2>5. SleepsInBudget' /\ TimesAgree'
    BY DEF SleepsInBudget, TimesAgree, Wall, Present
  <2>6. FinishedAtWork'
    <3> SUFFICES ASSUME NEW g \in tasks PROVE Finished(g)' \/ Excused(g)'
      BY DEF FinishedAtWork
    <3>1. CASE Excused(g)
      BY <3>1 DEF Excused
    <3>2. CASE Finished(g) /\ g = f
      BY <2>1, <2>2, <3>2 DEF Finished, Holds, Present
    <3>3. CASE Finished(g) /\ g # f
      BY <2>1, <3>3 DEF Finished, Holds, Present
    <3> QED
      BY <3>1, <3>2, <3>3 DEF FinishedAtWork
  <2> QED
    BY <2>3, <2>4, <2>5, <2>6
<1> QED
  BY <1>1, <1>2

\* A worker that is done with its file leaves it, removes it or puts the body
\* that it had read in its place.
LEMMA WorkerDoneKeeps ==
  ASSUME DiscoveryInv, NEW f \in DOMAIN reading, pc = "work", Stopped(f),
         uploaded' \in [Files -> SUBSET Nat],
         \/ disk' = disk
         \/ disk' = [disk EXCEPT ![f] = NoFile]
         \/ disk' = [disk EXCEPT ![f] = [reading[f] EXCEPT !.mtime = Wall]],
         UNCHANGED <<current, last, paused, writes, time, waiting, work, settings, pc>>
  PROVE  DiscoveryInv'
<1> USE DEF DiscoveryInv, time, waiting, settings
<1>1. f \in Files /\ f \notin work /\ Wall \in Int
  BY DEF TypeOK, Shapes, Wall
<1>2. /\ DOMAIN reading' = DOMAIN reading \ {f}
      /\ \A g \in DOMAIN reading' : reading'[g] = reading[g]
  BY DEF Stopped
<1>3. /\ disk' \in [Files -> Stored \cup {NoFile}]
      /\ \A g \in Files \ {f} : disk'[g] = disk[g]
  BY <1>1 DEF Shapes, Stored
<1>4. last[f] >= 0
  BY DEF Shapes
<1>5. TypeOK'
  BY <1>1, <1>2, <1>3 DEF TypeOK, Stored
<1>6. Shapes'
  BY <1>1, <1>2, <1>3, <1>4 DEF Shapes, Stored, Present
<1>7. SleepsInBudget'
  BY DEF SleepsInBudget, Wall
<1>8. TimesAgree'
  <2> SUFFICES ASSUME steps = 0, NEW g \in Files, Present(g)'
               PROVE  last[g] <= disk'[g].mtime /\ disk'[g].mtime <= t
    BY DEF TimesAgree
  <2>1. CASE disk'[g] = disk[g]
    BY <2>1 DEF TimesAgree, Present
  <2>2. CASE disk'[g] # disk[g]
    <3>1. g = f /\ disk' = [disk EXCEPT ![f] = [reading[f] EXCEPT !.mtime = Wall]]
      BY <1>1, <1>3, <2>2 DEF Present, Shapes
    <3>2. disk'[g].mtime = t
      BY <1>1, <3>1 DEF Shapes, Stored, Wall, SleepsInBudget
    <3> QED
      BY <3>2 DEF TimesAgree, Shapes
  <2> QED
    BY <2>1, <2>2
<1>9. FinishedAtWork'
  <2> SUFFICES ASSUME NEW g \in tasks PROVE Finished(g)' \/ Excused(g)'
    BY DEF FinishedAtWork
  <2>1. CASE Excused(g)
    BY <2>1 DEF Excused
  <2>2. CASE Finished(g) /\ g = f
    BY <1>1, <1>2, <2>2 DEF Finished
  <2>3. CASE Finished(g) /\ g # f
    <3>1. g \in Files
      BY DEF TypeOK
    <3> QED
      BY <1>2, <1>3, <2>3, <3>1 DEF Finished, Holds, Present
  <2> QED
    BY <2>1, <2>2, <2>3 DEF FinishedAtWork
<1> QED
  BY <1>5, <1>6, <1>7, <1>8, <1>9

LEMMA WorkerStepKeepsDiscovery == DiscoveryInv /\ WorkerStep => DiscoveryInv'
<1> SUFFICES ASSUME DiscoveryInv, WorkerStep PROVE DiscoveryInv'
  OBVIOUS
<1>1. PICK f \in Files : Read(f) \/ Delete(f) \/ Retain(f) \/ Leave(f)
  BY DEF WorkerStep
<1>2. uploaded \in [Files -> SUBSET Nat]
  BY DEF DiscoveryInv, Shapes
<1>3. CASE Delete(f)
  <2>1. reading[f] \in Stored /\ writes \in Nat
    BY <1>3 DEF Delete, DiscoveryInv, Shapes
  <2>2. uploaded' \in [Files -> SUBSET Nat]
    BY <1>2, <1>3, <2>1 DEF Delete, Sent, Stored
  <2> QED
    BY <1>3, <2>2, WorkerDoneKeeps DEF Delete
<1>4. CASE Retain(f)
  BY <1>2, <1>4, WorkerDoneKeeps DEF Retain
<1>5. CASE Leave(f)
  BY <1>2, <1>5, WorkerDoneKeeps DEF Leave, tests
<1> QED
  BY <1>1, <1>3, <1>4, <1>5, ReadKeepsDiscovery

LEMMA NextKeepsDiscovery == DiscoveryInv /\ [Next]_vars => DiscoveryInv'
<1> SUFFICES ASSUME DiscoveryInv, [Next]_vars PROVE DiscoveryInv'
  OBVIOUS
<1>1. CASE End
  <2> USE <1>1 DEF DiscoveryInv, End, tests, time, waiting, workers, settings
  <2>1. TypeOK' /\ Shapes'
    BY DEF TypeOK, Shapes, Present, Stored
  <2>2. SleepsInBudget' /\ TimesAgree' /\ FinishedAtWork'
    BY DEF SleepsInBudget, TimesAgree, FinishedAtWork, Waiting, Wall, Present
  <2> QED
    BY <2>1, <2>2
<1>2. CASE UNCHANGED vars
  <2> USE <1>2 DEF vars, DiscoveryInv, tests, time, waiting, workers, settings
  <2>1. TypeOK' /\ Shapes'
    BY DEF TypeOK, Shapes, Present, Stored
  <2>2. SleepsInBudget' /\ TimesAgree'
    BY DEF SleepsInBudget, TimesAgree, Waiting, Wall, Present
  <2>3. FinishedAtWork'
    BY DEF FinishedAtWork, Finished, Excused, Holds, Present
  <2> QED
    BY <2>1, <2>2, <2>3
<1> QED
  BY <1>1, <1>2, TestStepKeepsDiscovery, TickKeepsDiscovery, SetClockKeepsDiscovery,
     BeginKeepsDiscovery, ScanKeepsDiscovery, SleepKeepsDiscovery, StopKeepsDiscovery,
     WorkerStepKeepsDiscovery DEF Next, WaitStep, Over

-----------------------------------------------------------------------------
(* Theorems                                                                *)

\* The inductive invariant of the wait and of the workers after it.
THEOREM DiscoveryInvariant == Spec => []DiscoveryInv
BY InitDiscovery, NextKeepsDiscovery, PTL DEF Spec

\* The wait never outlasts max_wait_seconds by more than the time its scans
\* take, for every poll, budget and course of the tests: the last sleep is
\* shortened to what remains.
THEOREM WaitIsBounded == Spec => []BoundedWait
<1>1. DiscoveryInv => BoundedWait
  <2> SUFFICES ASSUME DiscoveryInv, steps = 0, pc \in Waiting
               PROVE  Wall - started <= wait + slow
    BY DEF BoundedWait, Waiting
  <2>1. left >= 0 /\ left \in Int
    BY DiscoveryAssumption DEF DiscoveryInv, TypeOK
  <2> QED
    BY <2>1 DEF DiscoveryInv, SleepsInBudget, Shapes, Wall
<1> QED
  BY <1>1, DiscoveryInvariant, PTL

\* What a test wrote last is not deleted or replaced before it was uploaded
\* whole, unless the wait could not tell that the test was not done.
THEOREM NothingIsOverrun == Spec => NothingOverrun
<1>1. ASSUME DiscoveryInv, [Next]_vars, NEW f \in Files,
             Holds(f), current'[f] = current[f], ~Holds(f)', ~Excused(f)
      PROVE  current[f] \in uploaded'[f]
  <2>1. /\ disk'[f] # disk[f] /\ current[f] >= 1 /\ current[f] <= writes
        /\ disk \in [Files -> Stored \cup {NoFile}] /\ writes \in Nat
        /\ current \in [Files -> 0..writes] /\ uploaded \in [Files -> SUBSET Nat]
        /\ Wall \in Int
    BY <1>1 DEF Holds, DiscoveryInv, Shapes, Stored, Wall
  <2>2. PICK g \in Files : \/ Open(g) \/ Complete(g) \/ Remove(g)
                          \/ Delete(g) \/ Retain(g)
    BY <1>1, <2>1 DEF Next, TestStep, Tick, SetClock, Begin, WaitStep, Scan, ReadClock, Stop,
       Sleep, Wake, WorkerStep, Read, Leave, End, Over, vars, tests
  <2>3. g = f
    BY <2>1, <2>2 DEF Open, Complete, Remove, Delete, Retain
  <2>4. ~Open(f)
    BY <1>1, <2>1 DEF Open
  <2>5. ~Remove(f)
    BY <1>1, <2>1 DEF Remove
  <2>6. ~Complete(f)
    <3> SUFFICES ASSUME Complete(f) PROVE FALSE
      OBVIOUS
    <3>1. disk[f] \in Stored /\ disk'[f] = [disk[f] EXCEPT !.whole = TRUE, !.mtime = Wall]
      BY <2>1 DEF Complete
    <3>2. disk'[f].version = current[f] /\ disk'[f] \in Stored
      BY <1>1, <2>1, <3>1 DEF Holds, Stored
    <3>3. disk'[f] # NoFile
      BY <2>1, <3>2, DiscoveryAssumption DEF Stored
    <3> QED
      BY <1>1, <3>2, <3>3 DEF Holds
  <2>7. pc = "work" /\ f \in DOMAIN reading
    BY <2>2, <2>3, <2>4, <2>5, <2>6 DEF Delete, Retain
  <2>8. reading[f].whole /\ reading[f].version = current[f] /\ reading[f] \in Stored
    BY <1>1, <2>7 DEF DiscoveryInv, TypeOK, FinishedAtWork, Finished, Shapes
  <2>9. CASE Delete(f)
    BY <2>1, <2>8, <2>9 DEF Delete, Sent
  <2>10. CASE Retain(f)
    <3>1. disk'[f] = [reading[f] EXCEPT !.mtime = Wall]
      BY <2>1, <2>10 DEF Retain
    <3>2. disk'[f].version = current[f] /\ disk'[f] \in Stored
      BY <2>1, <2>8, <3>1 DEF Stored
    <3>3. disk'[f] # NoFile
      BY <2>1, <3>2, DiscoveryAssumption DEF Stored
    <3> QED
      BY <1>1, <3>2, <3>3 DEF Holds
  <2> QED
    BY <2>2, <2>3, <2>4, <2>5, <2>6, <2>9, <2>10
<1>2. DiscoveryInv /\ [Next]_vars
      => [\A f \in Files :
            Holds(f) /\ current'[f] = current[f] /\ ~Holds(f)'
            => current[f] \in uploaded'[f] \/ Excused(f)]_vars
  BY <1>1
<1> QED
  BY <1>2, DiscoveryInvariant, PTL DEF Spec, NothingOverrun
=============================================================================
