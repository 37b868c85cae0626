-------------------------- MODULE WorkerPoolProofs --------------------------
(***************************************************************************)
(* Proofs about WorkerPool, for every number of workers and tasks and any  *)
(* number of faults.  PoolInv is inductive; the safety properties follow,  *)
(* and for at most one fault the steps of the contract UploadPool.         *)
(***************************************************************************)
EXTENDS WorkerPool, TLAPS, FiniteSetTheorems

LEMMA HoldersFinite ==
  /\ IsFiniteSet(Holders)
  /\ Cardinality(Holders) \in Nat
<1>1. Holders \subseteq Workers
  BY DEF Holders
<1> QED
  BY <1>1, PoolAssumption, FS_Subset, FS_CardinalityType

\* A worker that takes an item, or lets go of one, moves the count by one.
LEMMA HoldersGrow ==
  ASSUME TypeOK, NEW w \in Workers, wtask[w] = NoTask,
         NEW item, item # NoTask, wtask' = [wtask EXCEPT ![w] = item]
  PROVE  Cardinality(Holders') = Cardinality(Holders) + 1
<1>1. Holders' = Holders \cup {w} /\ w \notin Holders
  BY DEF Holders, TypeOK
<1> QED
  BY <1>1, HoldersFinite, FS_AddElement

LEMMA HoldersShrink ==
  ASSUME TypeOK, NEW w \in Workers, wtask[w] # NoTask,
         wtask' = [wtask EXCEPT ![w] = NoTask]
  PROVE  Cardinality(Holders') = Cardinality(Holders) - 1
<1>1. Holders' = Holders \ {w} /\ w \in Holders
  BY DEF Holders, TypeOK
<1> QED
  BY <1>1, HoldersFinite, FS_RemoveElement

LEMMA HoldersSame ==
  ASSUME UNCHANGED wtask
  PROVE  Cardinality(Holders') = Cardinality(Holders)
  BY DEF Holders

\* With nothing unfinished the queue is empty and no worker holds an item.
LEMMA NothingUnfinished ==
  ASSUME TypeOK, UnfinishedExact, unfinished = 0
  PROVE  /\ taskQueue = <<>>
         /\ \A w \in Workers : wtask[w] = NoTask
<1>1. Len(taskQueue) = 0 /\ Cardinality(Holders) = 0
  <2>1. Len(taskQueue) \in Nat
    BY DEF TypeOK
  <2> QED
    BY <2>1, HoldersFinite DEF UnfinishedExact
<1>2. Holders = {}
  BY <1>1, HoldersFinite, FS_EmptySet
<1> QED
  BY <1>1, <1>2 DEF Holders, TypeOK

\* The parts of the invariant that read neither the coordinator's position
\* nor the faults survive a step that changes nothing else.
LEMMA CoordinatorOnly ==
  ASSUME OnePlace, HoldsItem, LedgerExact, NoTaskLost, UnfinishedExact,
         UNCHANGED <<nextPut, queueVars, workVars, ledger>>,
         shutdown => shutdown'
  PROVE  OnePlace' /\ HoldsItem' /\ LedgerExact' /\ NoTaskLost' /\ UnfinishedExact'
<1> USE DEF queueVars, workVars, ledger
<1>1. OnePlace' /\ HoldsItem'
  BY DEF OnePlace, HoldsItem
<1>2. LedgerExact'
  BY DEF LedgerExact, AtMostOnce, Progress
<1>3. NoTaskLost'
  BY DEF NoTaskLost
<1>4. UnfinishedExact'
  BY HoldersSame DEF UnfinishedExact
<1> QED
  BY <1>1, <1>2, <1>3, <1>4

\* Everything is in its initial place.
LEMMA PoolInvInit == Init => PoolInv
<1> SUFFICES ASSUME Init PROVE PoolInv
  OBVIOUS
<1> USE PoolAssumption DEF Init
<1>1. TypeOK
  <2>1. taskQueue \in Seq(Tasks \cup {StopMarker}) /\ Len(taskQueue) <= QueueSize
    BY FS_CardinalityType DEF QueueSize
  <2>2. faults \in 0..MaxFaults /\ nextPut \in 1..(NumTasks + 1)
    OBVIOUS
  <2>3. starts \in [Tasks -> Nat] /\ results \in [Tasks -> Nat]
    OBVIOUS
  <2>4. wpc \in [Workers -> WorkerStates]
    BY DEF WorkerStates
  <2>5. wtask \in [Workers -> Tasks \cup {StopMarker, NoTask}]
    OBVIOUS
  <2>6. cpc \in CoordStates
    BY DEF CoordStates
  <2>7. unfinished \in Int /\ stopsSent \in Nat /\ active \in Int /\ peak \in Int
    OBVIOUS
  <2>8. cause \in {"none", "interrupt", "error", "badResults"}
        /\ registered \in SUBSET Workers /\ shutdown \in BOOLEAN
    OBVIOUS
  <2> HIDE DEF Init
  <2> QED
    BY <2>1, <2>2, <2>3, <2>4, <2>5, <2>6, <2>7, <2>8 DEF TypeOK
<1>2. OnePlace /\ HoldsItem
  BY DEF OnePlace, HoldsItem, Tasks, NoTask, StopMarker, OwningStates
<1>3. LedgerExact /\ NoTaskLost
  BY DEF LedgerExact, AtMostOnce, NoTaskLost, Progress, Tasks, NoTask
<1>4. CoordinatorKnows /\ ResultsConsistent
  BY DEF CoordinatorKnows, ResultsConsistent, HandlerStates, TryStates
<1>5. UnfinishedExact
  <2>1. Holders = {}
    BY DEF Holders
  <2> QED
    BY <2>1, FS_EmptySet DEF UnfinishedExact
<1> QED
  BY <1>1, <1>2, <1>3, <1>4, <1>5 DEF PoolInv

-----------------------------------------------------------------------------
(* Type correctness, one step per action *)

LEMMA TypeStep ==
  ASSUME TypeOK, HoldsItem, CoordinatorKnows, [Next]_vars
  PROVE  TypeOK'
<1> USE PoolAssumption DEF TypeOK, vars, coordVars, queueVars, workVars,
     countVars, ledger, Goto, MoveWorker
<1> USE DEF CoordStates, TryStates, HandlerStates, Terminal
<1>1. CASE CoordinatorStep
  <2>1. CASE PutTask
    <3>1. nextPut \in Tasks
      BY <2>1 DEF PutTask, CoordinatorKnows, Tasks
    <3>2. taskQueue' \in Seq(Tasks \cup {StopMarker}) /\ Len(taskQueue') <= QueueSize
      <4>1. QueueSize \in Nat
        BY FS_CardinalityType DEF QueueSize
      <4> QED
        BY <2>1, <3>1, <4>1 DEF PutTask, Put
    <3>3. nextPut' \in 1..(NumTasks + 1) /\ unfinished' \in Int
      BY <2>1, <3>1 DEF PutTask, Put, Tasks
    <3> QED
      BY <2>1, <3>2, <3>3 DEF PutTask
  <2>2. CASE PutStopMarker
    <3>1. taskQueue' \in Seq(Tasks \cup {StopMarker}) /\ Len(taskQueue') <= QueueSize
      <4>1. QueueSize \in Nat
        BY FS_CardinalityType DEF QueueSize
      <4> QED
        BY <2>2, <4>1 DEF PutStopMarker, Put
    <3> QED
      BY <2>2, <3>1 DEF PutStopMarker, Put
  <2>3. CASE DrainOne
    <3>1. taskQueue' \in Seq(Tasks \cup {StopMarker}) /\ Len(taskQueue') <= Len(taskQueue)
      BY <2>3 DEF DrainOne
    <3>2. QueueSize \in Nat /\ Len(taskQueue') \in Nat
      BY <3>1, FS_CardinalityType DEF QueueSize
    <3> QED
      BY <2>3, <3>1, <3>2 DEF DrainOne, TaskDone
  <2>4. CASE \E w \in Workers : StartThread(w)
    BY <2>4 DEF StartThread, WorkerStates
  <2>5. CASE CreateTransports \/ RegisterThread \/ QueueJoined \/ ThreadsJoined
              \/ CollectComplete \/ SetShutdown
    BY <2>5 DEF CreateTransports, RegisterThread, QueueJoined, ThreadsJoined,
       CollectComplete, SetShutdown
  <2>6. CASE DrainEmpty \/ DrainedThreadsJoined \/ DrainedQueueJoined \/ CollectPartial
    BY <2>6 DEF DrainEmpty, DrainedThreadsJoined, DrainedQueueJoined, CollectPartial
  <2> QED
    BY <1>1, <2>1, <2>2, <2>3, <2>4, <2>5, <2>6 DEF CoordinatorStep
<1>2. CASE Fault
  BY <1>2 DEF Fault, TransportFactoryFails, StartFails, Interrupt, EscapingInterrupt
<1>3. ASSUME NEW w \in Workers, WorkerStep(w)
      PROVE  TypeOK'
  <2>1. CASE Dequeue(w)
    <3>1. /\ taskQueue' \in Seq(Tasks \cup {StopMarker})
          /\ Len(taskQueue') <= Len(taskQueue)
          /\ Head(taskQueue) \in Tasks \cup {StopMarker}
      BY <2>1 DEF Dequeue
    <3>2. QueueSize \in Nat /\ Len(taskQueue') \in Nat
      BY <3>1, FS_CardinalityType DEF QueueSize
    <3>3. wtask' \in [Workers -> Tasks \cup {StopMarker, NoTask}]
      BY <2>1, <3>1 DEF Dequeue
    <3>4. wpc' \in [Workers -> WorkerStates]
      BY <2>1 DEF Dequeue, WorkerStates
    <3> QED
      BY <2>1, <3>1, <3>2, <3>3, <3>4 DEF Dequeue
  <2>2. CASE GetTimesOut(w) \/ CheckShutdown(w) \/ ClaimTask(w)
    <3>1. wpc' \in [Workers -> WorkerStates]
      BY <2>2 DEF GetTimesOut, CheckShutdown, ClaimTask, WorkerStates
    <3> QED
      BY <2>2, <3>1 DEF GetTimesOut, CheckShutdown, ClaimTask
  <2>3. CASE StopWorker(w) \/ CancelTask(w) \/ AckTask(w)
    <3>1. wpc' \in [Workers -> WorkerStates]
      BY <2>3 DEF StopWorker, CancelTask, AckTask, WorkerStates
    <3>2. wtask' \in [Workers -> Tasks \cup {StopMarker, NoTask}]
      BY <2>3 DEF StopWorker, CancelTask, AckTask
    <3>3. unfinished' \in Int
      BY <2>3 DEF StopWorker, CancelTask, AckTask, TaskDone
    <3>4. UNCHANGED <<coordVars, taskQueue, shutdown, countVars, ledger>>
      BY <2>3 DEF StopWorker, CancelTask, AckTask
    <3> QED
      BY <3>1, <3>2, <3>3, <3>4
  <2>4. CASE BeginFile(w) \/ EndFile(w) \/ ReportResult(w)
    <3>1. wpc' \in [Workers -> WorkerStates]
      BY <2>4 DEF BeginFile, EndFile, ReportResult, WorkerStates
    <3>2. active' \in Int /\ peak' \in Int
      BY <2>4 DEF BeginFile, EndFile, ReportResult
    <3>3. starts' \in [Tasks -> Nat] /\ results' \in [Tasks -> Nat]
      <4>0. starts \in [Tasks -> Nat] /\ results \in [Tasks -> Nat]
        OBVIOUS
      <4>1. wtask[w] \in Tasks
        BY <2>4 DEF BeginFile, EndFile, ReportResult, HoldsItem, OwningStates
      <4>2. starts' = starts \/ starts' = [starts EXCEPT ![wtask[w]] = @ + 1]
        BY <2>4 DEF BeginFile, EndFile, ReportResult
      <4>3. results' = results \/ results' = [results EXCEPT ![wtask[w]] = @ + 1]
        BY <2>4 DEF BeginFile, EndFile, ReportResult
      <4> HIDE DEF TypeOK
      <4>4. starts' \in [Tasks -> Nat]
        BY <4>0, <4>1, <4>2
      <4>5. results' \in [Tasks -> Nat]
        BY <4>0, <4>1, <4>3
      <4> QED
        BY <4>4, <4>5
    <3>4. UNCHANGED <<coordVars, queueVars, shutdown, wtask>>
      BY <2>4 DEF BeginFile, EndFile, ReportResult
    <3> QED
      BY <3>1, <3>2, <3>3, <3>4
  <2> QED
    BY <1>3, <2>1, <2>2, <2>3, <2>4 DEF WorkerStep
<1>4. CASE Finished \/ UNCHANGED vars
  BY <1>4 DEF Finished
<1> QED
  BY <1>1, <1>2, <1>3, <1>4 DEF Next

-----------------------------------------------------------------------------
(* The steps that touch the queue or a worker, one lemma each *)

\* A worker's step leaves the coordinator where it is; unfinished = 0 is not
\* disturbed, since only a worker that holds an item acknowledges one.
LEMMA WorkerKnows ==
  ASSUME PoolInv, UNCHANGED <<coordVars, shutdown>>,
         \/ UNCHANGED unfinished
         \/ \E w \in Workers : wtask[w] # NoTask
  PROVE  CoordinatorKnows' /\ ResultsConsistent'
<1>1. unfinished = 0 => unfinished' = 0
  BY NothingUnfinished DEF PoolInv
<1>2. CoordinatorKnows
  BY DEF PoolInv
<1>3. CoordinatorKnows'
  BY <1>1, <1>2 DEF CoordinatorKnows, coordVars
<1> QED
  BY <1>3 DEF PoolInv, ResultsConsistent, coordVars

LEMMA PutKeeps ==
  ASSUME PoolInv, TypeOK', NEW item \in Tasks \cup {StopMarker}, Put(item),
         item = StopMarker => UNCHANGED nextPut,
         item # StopMarker => item = nextPut /\ nextPut' = nextPut + 1,
         UNCHANGED <<shutdown, workVars, ledger>>
  PROVE  OnePlace' /\ HoldsItem' /\ LedgerExact' /\ NoTaskLost' /\ UnfinishedExact'
<1> USE DEF Put, workVars, ledger, StopMarker, NoTask
<1>1. /\ Len(taskQueue) \in Nat
      /\ Len(taskQueue') = Len(taskQueue) + 1
      /\ \A i \in 1..Len(taskQueue) : taskQueue'[i] = taskQueue[i]
      /\ taskQueue'[Len(taskQueue) + 1] = item
      /\ \A i \in 1..Len(taskQueue) : taskQueue[i] \in Tasks \cup {0}
  BY DEF PoolInv, TypeOK
<1>2. /\ nextPut \in 1..(NumTasks + 1) /\ unfinished \in Int
      /\ wtask \in [Workers -> Tasks \cup {0, -1}]
      /\ \A t \in Tasks : t \in Nat /\ t > 0
  BY PoolAssumption DEF PoolInv, TypeOK, Tasks
<1>3. OnePlace'
  <2> USE <1>1, <1>2 DEF PoolInv, OnePlace
  <2>1. \A i \in 1..Len(taskQueue') : taskQueue'[i] < nextPut'
    OBVIOUS
  <2>2. \A i, j \in 1..Len(taskQueue') :
          taskQueue'[i] = taskQueue'[j] => i = j \/ taskQueue'[i] = StopMarker
    OBVIOUS
  <2>3. \A w \in Workers : wtask'[w] < nextPut'
    OBVIOUS
  <2>4. \A v, w \in Workers : wtask'[v] = wtask'[w] => v = w \/ wtask'[v] \notin Tasks
    OBVIOUS
  <2>5. \A i \in 1..Len(taskQueue'), w \in Workers :
          taskQueue'[i] = wtask'[w] => wtask'[w] \notin Tasks
    OBVIOUS
  <2> QED
    BY <2>1, <2>2, <2>3, <2>4, <2>5
<1>4. HoldsItem'
  BY DEF PoolInv, HoldsItem
<1>5. LedgerExact'
  BY <1>1, <1>2 DEF PoolInv, LedgerExact, AtMostOnce, Progress
<1>6. NoTaskLost'
  BY <1>1, <1>2 DEF PoolInv, NoTaskLost, Tasks
<1>7. UnfinishedExact'
  BY <1>1, <1>2, HoldersSame, HoldersFinite DEF PoolInv, UnfinishedExact
<1> QED
  BY <1>3, <1>4, <1>5, <1>6, <1>7

LEMMA DrainKeeps ==
  ASSUME PoolInv, DrainOne
  PROVE  OnePlace' /\ HoldsItem' /\ LedgerExact' /\ NoTaskLost' /\ UnfinishedExact'
<1> USE DEF DrainOne, TaskDone, workVars, ledger, coordVars
<1>1. /\ Len(taskQueue) \in Nat \ {0}
      /\ Len(taskQueue') = Len(taskQueue) - 1
      /\ \A i \in 1..Len(taskQueue') : taskQueue'[i] = taskQueue[i + 1]
      /\ \A i \in 1..Len(taskQueue') : i + 1 \in 1..Len(taskQueue)
  BY DEF PoolInv, TypeOK
<1>2. OnePlace'
  BY <1>1 DEF PoolInv, OnePlace
<1>3. HoldsItem'
  BY DEF PoolInv, HoldsItem
<1>4. LedgerExact'
  BY <1>1 DEF PoolInv, LedgerExact, AtMostOnce, Progress
<1>5. NoTaskLost'
  BY DEF PoolInv, NoTaskLost, CoordinatorKnows, HandlerStates
<1>6. UnfinishedExact'
  BY <1>1, HoldersSame, HoldersFinite DEF PoolInv, UnfinishedExact, TypeOK
<1> QED
  BY <1>2, <1>3, <1>4, <1>5, <1>6

LEMMA DequeueKeeps ==
  ASSUME PoolInv, NEW w \in Workers, Dequeue(w)
  PROVE  OnePlace' /\ HoldsItem' /\ LedgerExact' /\ NoTaskLost' /\ UnfinishedExact'
<1> USE DEF Dequeue, MoveWorker, StopMarker, NoTask
<1>1. /\ Len(taskQueue) \in Nat \ {0}
      /\ Len(taskQueue') = Len(taskQueue) - 1
      /\ \A i \in 1..Len(taskQueue') : taskQueue'[i] = taskQueue[i + 1]
      /\ \A i \in 1..Len(taskQueue') : i + 1 \in 1..Len(taskQueue)
      /\ 1 \in 1..Len(taskQueue)
      /\ \A i \in 1..Len(taskQueue) :
           i = 1 \/ (i - 1 \in 1..Len(taskQueue') /\ taskQueue'[i - 1] = taskQueue[i])
      /\ taskQueue[1] \in Tasks \cup {0}
  BY DEF PoolInv, TypeOK
<1>2. /\ wtask[w] = -1 /\ wtask'[w] = taskQueue[1]
      /\ \A v \in Workers : v # w => wtask'[v] = wtask[v] /\ wpc'[v] = wpc[v]
      /\ wpc[w] = "idle" /\ wpc'[w] = "dequeued"
  BY DEF PoolInv, TypeOK, HoldsItem
<1>3. UNCHANGED <<nextPut, shutdown, unfinished, starts, results>>
  BY DEF coordVars, ledger
<1>4. -1 \notin Tasks /\ 0 \notin Tasks
  BY DEF Tasks
<1>5. OnePlace'
  <2> USE <1>1, <1>2, <1>3, <1>4 DEF PoolInv, OnePlace
  <2> HIDE DEF Dequeue
  <2>1. /\ \A i \in 1..Len(taskQueue') : taskQueue'[i] < nextPut'
        /\ \A v \in Workers : wtask'[v] < nextPut'
    OBVIOUS
  <2>2. \A i, j \in 1..Len(taskQueue') :
          taskQueue'[i] = taskQueue'[j] => i = j \/ taskQueue'[i] = StopMarker
    OBVIOUS
  <2>3. \A u, v \in Workers : wtask'[u] = wtask'[v] => u = v \/ wtask'[u] \notin Tasks
    OBVIOUS
  <2>4. \A i \in 1..Len(taskQueue'), v \in Workers :
          taskQueue'[i] = wtask'[v] => wtask'[v] \notin Tasks
    OBVIOUS
  <2> QED
    BY <2>1, <2>2, <2>3, <2>4
<1>6. HoldsItem'
  BY <1>1, <1>2, <1>4 DEF PoolInv, HoldsItem, OwningStates
<1>7. LedgerExact'
  <2> USE <1>1, <1>2, <1>3, <1>4 DEF PoolInv, LedgerExact
  <2> HIDE DEF Dequeue
  <2>1. AtMostOnce' /\ \A t \in Tasks : t >= nextPut' => starts'[t] = 0
    BY DEF AtMostOnce
  <2>2. \A i \in 1..Len(taskQueue') :
          taskQueue'[i] \in Tasks => starts'[taskQueue'[i]] = 0
    OBVIOUS
  <2>3. \A v \in Workers : wtask'[v] \in Tasks => Progress(v)'
    BY DEF Progress
  <2>4. \A t \in Tasks : starts'[t] = 1 /\ results'[t] = 0 =>
          \E v \in Workers : wtask'[v] = t
    OBVIOUS
  <2> QED
    BY <2>1, <2>2, <2>3, <2>4
<1>8. NoTaskLost'
  <2> SUFFICES ASSUME ~shutdown, NEW t \in Tasks, t < nextPut, results[t] # 1
               PROVE  \/ \E i \in 1..Len(taskQueue') : taskQueue'[i] = t
                      \/ \E v \in Workers : wtask'[v] = t
    BY <1>3 DEF NoTaskLost
  <2>1. CASE \E i \in 1..Len(taskQueue) : taskQueue[i] = t
    BY <2>1, <1>1, <1>2
  <2>2. CASE \E v \in Workers : wtask[v] = t
    BY <2>2, <1>2, <1>4
  <2> QED
    BY <2>1, <2>2 DEF PoolInv, NoTaskLost
<1>9. UnfinishedExact'
  <2>1. wtask[w] = NoTask /\ taskQueue[1] # NoTask /\ Head(taskQueue) = taskQueue[1]
    BY <1>1, <1>2, <1>4
  <2>2. Cardinality(Holders') = Cardinality(Holders) + 1
    BY <2>1, HoldersGrow DEF PoolInv
  <2> QED
    BY <1>1, <1>3, <2>2, HoldersFinite DEF PoolInv, UnfinishedExact
<1> QED
  BY <1>5, <1>6, <1>7, <1>8, <1>9

\* StopWorker, CancelTask and AckTask let go of the item and acknowledge it.
LEMMA LetGoKeeps ==
  ASSUME PoolInv, NEW w \in Workers,
         StopWorker(w) \/ CancelTask(w) \/ AckTask(w)
  PROVE  OnePlace' /\ HoldsItem' /\ LedgerExact' /\ NoTaskLost' /\ UnfinishedExact'
<1> USE DEF MoveWorker, StopMarker, NoTask
<1>1. /\ wtask' = [wtask EXCEPT ![w] = -1]
      /\ wtask'[w] = -1 /\ wtask[w] # -1
      /\ \A v \in Workers : v # w => wtask'[v] = wtask[v] /\ wpc'[v] = wpc[v]
      /\ wpc'[w] \in {"idle", "exited"}
      /\ unfinished' = unfinished - 1
  BY DEF PoolInv, TypeOK, HoldsItem, StopWorker, CancelTask, AckTask, TaskDone,
     Tasks, OwningStates
<1>2. UNCHANGED <<nextPut, shutdown, taskQueue, starts, results>>
  BY DEF coordVars, ledger, StopWorker, CancelTask, AckTask
<1>3. -1 \notin Tasks /\ 0 \notin Tasks
  BY DEF Tasks
<1>4. wtask[w] \in Tasks => shutdown \/ results[wtask[w]] = 1
  BY DEF PoolInv, LedgerExact, Progress, StopWorker, CancelTask, AckTask, Tasks
<1>5. wtask[w] \in Tasks => starts[wtask[w]] = 0 \/ results[wtask[w]] = 1
  BY <1>3 DEF PoolInv, LedgerExact, Progress, StopWorker, CancelTask, AckTask
<1>6. OnePlace'
  BY <1>1, <1>2, <1>3 DEF PoolInv, OnePlace, TypeOK
<1>7. HoldsItem'
  BY <1>1 DEF PoolInv, HoldsItem, OwningStates
<1>8. LedgerExact'
  <2>1. \A v \in Workers : wtask'[v] \in Tasks => Progress(v)'
    BY <1>1, <1>2, <1>3 DEF PoolInv, LedgerExact, Progress
  <2>2. \A t \in Tasks : starts[t] = 1 /\ results[t] = 0 =>
          \E v \in Workers : wtask'[v] = t
    BY <1>1, <1>5 DEF PoolInv, LedgerExact
  <2> QED
    BY <1>2, <2>1, <2>2 DEF PoolInv, LedgerExact, AtMostOnce
<1>9. NoTaskLost'
  BY <1>1, <1>2, <1>4 DEF PoolInv, NoTaskLost
<1>10. UnfinishedExact'
  <2>1. Cardinality(Holders') = Cardinality(Holders) - 1
    BY <1>1, HoldersShrink DEF PoolInv
  <2> QED
    BY <1>1, <1>2, <2>1, HoldersFinite DEF PoolInv, UnfinishedExact, TypeOK
<1> QED
  BY <1>6, <1>7, <1>8, <1>9, <1>10

\* GetTimesOut, CheckShutdown and ClaimTask change only the worker's place.
LEMMA MoveKeeps ==
  ASSUME PoolInv, NEW w \in Workers,
         GetTimesOut(w) \/ CheckShutdown(w) \/ ClaimTask(w) \/ EndFile(w)
  PROVE  OnePlace' /\ HoldsItem' /\ LedgerExact' /\ NoTaskLost' /\ UnfinishedExact'
<1> USE DEF MoveWorker, GetTimesOut, CheckShutdown, ClaimTask, EndFile, PoolInv
<1>1. UNCHANGED <<nextPut, queueVars, shutdown, wtask, ledger>>
  BY DEF coordVars
<1>2. /\ \A v \in Workers : v # w => wpc'[v] = wpc[v]
      /\ \/ wpc[w] \in {"idle", "empty"} /\ wpc'[w] \in {"empty", "idle", "exited"}
         \/ wpc[w] = "dequeued" /\ wpc'[w] = "claimed" /\ wtask[w] \in Tasks
         \/ wpc[w] = "processing" /\ wpc'[w] = "reporting"
  BY DEF TypeOK
<1> USE <1>1 DEF queueVars, ledger
<1> HIDE DEF GetTimesOut, CheckShutdown, ClaimTask, EndFile, MoveWorker
<1>3. OnePlace' /\ NoTaskLost'
  BY DEF OnePlace, NoTaskLost
<1>4. HoldsItem'
  BY <1>2 DEF HoldsItem, OwningStates
<1>5. LedgerExact'
  BY <1>2 DEF LedgerExact, AtMostOnce, Progress
<1>6. UnfinishedExact'
  BY HoldersSame DEF UnfinishedExact
<1> QED
  BY <1>3, <1>4, <1>5, <1>6

LEMMA BeginKeeps ==
  ASSUME PoolInv, NEW w \in Workers, BeginFile(w)
  PROVE  OnePlace' /\ HoldsItem' /\ LedgerExact' /\ NoTaskLost' /\ UnfinishedExact'
<1> USE DEF PoolInv
<1>1. UNCHANGED <<nextPut, queueVars, shutdown, wtask, results>>
  BY DEF coordVars, BeginFile
<1> USE <1>1 DEF queueVars
<1>2. /\ \A v \in Workers : v # w => wpc'[v] = wpc[v]
      /\ wpc[w] = "claimed" /\ wpc'[w] = "processing"
      /\ wtask[w] \in Tasks /\ starts[wtask[w]] = 0
  BY DEF BeginFile, MoveWorker, TypeOK, HoldsItem, OwningStates, LedgerExact, Progress
<1>3. /\ \A t \in Tasks : t # wtask[w] => starts'[t] = starts[t]
      /\ starts'[wtask[w]] = 1 /\ results[wtask[w]] = 0
  BY <1>2 DEF BeginFile, TypeOK, LedgerExact, AtMostOnce
<1>4. OnePlace' /\ NoTaskLost'
  BY DEF OnePlace, NoTaskLost
<1>5. HoldsItem'
  BY <1>2 DEF HoldsItem, OwningStates
<1>6. LedgerExact'
  <2>1. AtMostOnce'
    BY <1>2, <1>3 DEF LedgerExact, AtMostOnce
  <2>2. \A t \in Tasks : t >= nextPut => starts'[t] = 0
    <3>1. wtask[w] < nextPut
      BY DEF OnePlace
    <3> QED
      BY <1>2, <1>3, <3>1 DEF LedgerExact, TypeOK, Tasks
  <2>3. \A i \in 1..Len(taskQueue) : taskQueue[i] \in Tasks => starts'[taskQueue[i]] = 0
    BY <1>2, <1>3 DEF LedgerExact, OnePlace
  <2>4. \A v \in Workers : wtask[v] \in Tasks => Progress(v)'
    BY <1>2, <1>3 DEF LedgerExact, OnePlace, Progress
  <2>5. \A t \in Tasks : starts'[t] = 1 /\ results[t] = 0 =>
          \E v \in Workers : wtask[v] = t
    BY <1>2, <1>3 DEF LedgerExact
  <2> QED
    BY <2>1, <2>2, <2>3, <2>4, <2>5 DEF LedgerExact
<1>7. UnfinishedExact'
  BY HoldersSame DEF UnfinishedExact
<1> QED
  BY <1>4, <1>5, <1>6, <1>7

LEMMA ReportKeeps ==
  ASSUME PoolInv, NEW w \in Workers, ReportResult(w)
  PROVE  OnePlace' /\ HoldsItem' /\ LedgerExact' /\ NoTaskLost' /\ UnfinishedExact'
<1> USE DEF PoolInv
<1>1. UNCHANGED <<nextPut, queueVars, shutdown, wtask, starts>>
  BY DEF coordVars, ReportResult
<1> USE <1>1 DEF queueVars
<1>2. /\ \A v \in Workers : v # w => wpc'[v] = wpc[v]
      /\ wpc[w] = "reporting" /\ wpc'[w] = "acking"
      /\ wtask[w] \in Tasks /\ starts[wtask[w]] = 1 /\ results[wtask[w]] = 0
  BY DEF ReportResult, MoveWorker, TypeOK, HoldsItem, OwningStates, LedgerExact, Progress
<1>3. /\ \A t \in Tasks : t # wtask[w] => results'[t] = results[t]
      /\ results'[wtask[w]] = 1
  BY <1>2 DEF ReportResult, TypeOK
<1>4. OnePlace'
  BY DEF OnePlace
<1>5. HoldsItem'
  BY <1>2 DEF HoldsItem, OwningStates
<1>6. LedgerExact'
  <2>1. AtMostOnce'
    BY <1>2, <1>3 DEF LedgerExact, AtMostOnce
  <2>2. \A v \in Workers : wtask[v] \in Tasks => Progress(v)'
    BY <1>2, <1>3 DEF LedgerExact, OnePlace, Progress
  <2>3. \A t \in Tasks : starts[t] = 1 /\ results'[t] = 0 =>
          \E v \in Workers : wtask[v] = t
    BY <1>2, <1>3 DEF LedgerExact
  <2> QED
    BY <2>1, <2>2, <2>3 DEF LedgerExact
<1>7. NoTaskLost'
  BY <1>2, <1>3 DEF NoTaskLost
<1>8. UnfinishedExact'
  BY HoldersSame DEF UnfinishedExact
<1> QED
  BY <1>4, <1>5, <1>6, <1>7, <1>8

-----------------------------------------------------------------------------
(* The invariant and the safety properties *)

LEMMA CoordinatorKeeps ==
  ASSUME PoolInv, TypeOK', CoordinatorStep \/ Fault
  PROVE  PoolInv'
<1> USE DEF Goto, HandlerStates, TryStates
<1> DEFINE Rest == OnePlace /\ HoldsItem /\ LedgerExact /\ NoTaskLost /\ UnfinishedExact
<1>t. /\ unfinished \in Int /\ faults \in 0..MaxFaults /\ MaxFaults \in Nat
      /\ nextPut \in 1..(NumTasks + 1) /\ NumTasks \in Nat
  BY PoolAssumption DEF PoolInv, TypeOK
<1>1. CASE PutTask
  <2>1. nextPut \in Tasks
    BY <1>1, <1>t DEF PutTask, PoolInv, CoordinatorKnows, Tasks
  <2>2. Rest'
    <3>1. nextPut # StopMarker
      BY <2>1 DEF Tasks, StopMarker
    <3> QED
      BY <1>1, <2>1, <3>1, PutKeeps DEF PutTask
  <2>3. CoordinatorKnows' /\ ResultsConsistent'
    BY <1>1, <1>t DEF PutTask, Put, PoolInv, CoordinatorKnows, ResultsConsistent
  <2> QED
    BY <2>2, <2>3 DEF PoolInv
<1>2. CASE PutStopMarker
  <2>1. Rest'
    BY <1>2, PutKeeps DEF PutStopMarker
  <2>2. CoordinatorKnows' /\ ResultsConsistent'
    BY <1>2, <1>t DEF PutStopMarker, PoolInv, CoordinatorKnows, ResultsConsistent
  <2> QED
    BY <2>1, <2>2 DEF PoolInv
<1>3. CASE DrainOne
  <2>1. CoordinatorKnows' /\ ResultsConsistent'
    BY <1>3 DEF DrainOne, coordVars, PoolInv, CoordinatorKnows, ResultsConsistent
  <2> QED
    BY <1>3, <2>1, DrainKeeps DEF PoolInv
<1>4. CASE \E w \in Workers : StartThread(w)
  <2>1. PICK w \in Workers : StartThread(w)
    BY <1>4
  <2>2. /\ UNCHANGED <<nextPut, queueVars, shutdown, wtask, ledger>>
        /\ wpc[w] = "unstarted" /\ wpc'[w] = "idle"
        /\ \A v \in Workers : v # w => wpc'[v] = wpc[v]
    BY <2>1 DEF StartThread, PoolInv, TypeOK
  <2> USE <2>2 DEF queueVars, ledger
  <2>3. OnePlace' /\ NoTaskLost'
    BY DEF PoolInv, OnePlace, NoTaskLost
  <2>4. HoldsItem'
    BY DEF PoolInv, HoldsItem, OwningStates
  <2>5. LedgerExact'
    BY DEF PoolInv, LedgerExact, AtMostOnce, Progress
  <2>6. UnfinishedExact'
    BY HoldersSame DEF PoolInv, UnfinishedExact
  <2>7. CoordinatorKnows' /\ ResultsConsistent'
    BY <2>1, <1>t DEF StartThread, PoolInv, CoordinatorKnows, ResultsConsistent
  <2> QED
    BY <2>3, <2>4, <2>5, <2>6, <2>7 DEF PoolInv
<1>5. CASE \/ CreateTransports \/ RegisterThread \/ QueueJoined \/ ThreadsJoined
           \/ SetShutdown \/ DrainEmpty \/ DrainedThreadsJoined
           \/ DrainedQueueJoined \/ CollectPartial
  <2>1. UNCHANGED <<nextPut, queueVars, workVars, ledger>> /\ (shutdown => shutdown')
    BY <1>5 DEF CreateTransports, RegisterThread, QueueJoined, ThreadsJoined, SetShutdown,
       DrainEmpty, DrainedThreadsJoined, DrainedQueueJoined, CollectPartial, PoolInv, TypeOK
  <2>2. Rest'
    BY <2>1, CoordinatorOnly DEF PoolInv
  <2>3. CoordinatorKnows'
    BY <1>5, <1>t DEF CreateTransports, RegisterThread, QueueJoined, ThreadsJoined, SetShutdown,
       DrainEmpty, DrainedThreadsJoined, DrainedQueueJoined, CollectPartial, PoolInv,
       CoordinatorKnows, queueVars
  <2>4. ResultsConsistent'
    BY <1>5 DEF CreateTransports, RegisterThread, QueueJoined, ThreadsJoined, SetShutdown,
       DrainEmpty, DrainedThreadsJoined, DrainedQueueJoined, CollectPartial, PoolInv,
       ResultsConsistent, NoDuplicateResult, LedgerExact, AtMostOnce, TypeOK
  <2> QED
    BY <2>2, <2>3, <2>4 DEF PoolInv
<1>6. CASE CollectComplete
  <2>1. Rest'
    BY <1>6, CoordinatorOnly DEF CollectComplete, PoolInv
  <2>2. EveryResult
    <3>1. taskQueue = <<>> /\ \A w \in Workers : wtask[w] = NoTask
      BY <1>6, NothingUnfinished DEF CollectComplete, PoolInv, CoordinatorKnows
    <3>2. ~shutdown /\ nextPut = NumTasks + 1
      BY <1>6 DEF CollectComplete, PoolInv, CoordinatorKnows
    <3> QED
      BY <3>1, <3>2, <1>t DEF EveryResult, PoolInv, NoTaskLost, Tasks, NoTask
  <2>3. CoordinatorKnows' /\ ResultsConsistent'
    BY <1>6, <2>2, <1>t DEF CollectComplete, PoolInv, CoordinatorKnows,
       ResultsConsistent, queueVars
  <2> QED
    BY <2>1, <2>3 DEF PoolInv
<1>7. CASE Fault
  <2>1. Rest'
    BY <1>7, CoordinatorOnly DEF Fault, TransportFactoryFails, StartFails, Interrupt,
       EscapingInterrupt, PoolInv
  <2>2. CoordinatorKnows'
    BY <1>7, <1>t DEF Fault, TransportFactoryFails, StartFails, Interrupt,
       EscapingInterrupt, PoolInv, CoordinatorKnows, queueVars
  <2>3. ResultsConsistent'
    BY <1>7 DEF Fault, TransportFactoryFails, StartFails, Interrupt,
       EscapingInterrupt, PoolInv, ResultsConsistent
  <2> QED
    BY <2>1, <2>2, <2>3 DEF PoolInv
<1> QED
  BY <1>1, <1>2, <1>3, <1>4, <1>5, <1>6, <1>7 DEF CoordinatorStep

LEMMA WorkerKeeps ==
  ASSUME PoolInv, TypeOK', NEW w \in Workers, WorkerStep(w)
  PROVE  PoolInv'
<1>1. OnePlace' /\ HoldsItem' /\ LedgerExact' /\ NoTaskLost' /\ UnfinishedExact'
  BY DequeueKeeps, LetGoKeeps, MoveKeeps, BeginKeeps, ReportKeeps DEF WorkerStep
<1>2. UNCHANGED <<coordVars, shutdown>>
  BY DEF WorkerStep, Dequeue, GetTimesOut, CheckShutdown, StopWorker, CancelTask,
     ClaimTask, BeginFile, EndFile, ReportResult, AckTask
<1>3. UNCHANGED unfinished \/ wtask[w] # NoTask
  <2>1. wpc[w] = "acking" => wtask[w] \in Tasks
    BY DEF PoolInv, HoldsItem
  <2>2. wtask[w] \in Tasks => wtask[w] # NoTask
    BY DEF Tasks, NoTask
  <2>3. StopMarker # NoTask
    BY DEF StopMarker, NoTask
  <2> QED
    BY <2>1, <2>2, <2>3 DEF WorkerStep, Dequeue, GetTimesOut, CheckShutdown, StopWorker,
       CancelTask, ClaimTask, BeginFile, EndFile, ReportResult, AckTask, queueVars, MoveWorker
<1>4. CoordinatorKnows' /\ ResultsConsistent'
  BY <1>2, <1>3, WorkerKnows
<1> QED
  BY <1>1, <1>4 DEF PoolInv

\* PoolInv is an invariant of the worker pool, for every number of workers,
\* tasks and faults.
THEOREM PoolInvariant == Spec => []PoolInv
<1>1. Init => PoolInv
  BY PoolInvInit
<1>2. PoolInv /\ [Next]_vars => PoolInv'
  <2> SUFFICES ASSUME PoolInv, [Next]_vars PROVE PoolInv'
    OBVIOUS
  <2>1. TypeOK'
    BY TypeStep DEF PoolInv
  <2>2. CASE CoordinatorStep \/ Fault
    BY <2>1, <2>2, CoordinatorKeeps
  <2>3. CASE \E w \in Workers : WorkerStep(w)
    BY <2>1, <2>3, WorkerKeeps
  <2>4. CASE Finished \/ UNCHANGED vars
    <3>1. UNCHANGED vars
      BY <2>4 DEF Finished
    <3>2. CoordinatorKnows' /\ ResultsConsistent'
      BY <3>1 DEF vars, coordVars, queueVars, PoolInv, CoordinatorKnows, ResultsConsistent
    <3> QED
      BY <2>1, <3>1, <3>2, CoordinatorOnly DEF vars, coordVars, PoolInv
  <2> QED
    BY <2>2, <2>3, <2>4 DEF Next
<1> QED
  BY <1>1, <1>2, PTL DEF Spec

\* Every variable stays in its range and the queue within its bound.
THEOREM PoolTypeCorrect == Spec => []TypeOK
<1>1. PoolInv => TypeOK
  BY DEF PoolInv
<1> QED
  BY <1>1, PoolInvariant, PTL

\* No file's pipeline is ever entered twice, nor a file reported that was not
\* entered, whatever the interleaving of workers, drain and interrupts.
THEOREM EachFileAtMostOnce == Spec => []AtMostOnce
<1>1. PoolInv => AtMostOnce
  BY DEF PoolInv, LedgerExact
<1> QED
  BY <1>1, PoolInvariant, PTL

\* Queue.join is sound: unfinished_tasks is the number of items queued or held.
THEOREM JoinIsSound == Spec => []UnfinishedExact
<1>1. PoolInv => UnfinishedExact
  BY DEF PoolInv
<1> QED
  BY <1>1, PoolInvariant, PTL

Processing == {w \in Workers : wpc[w] = "processing"}

\* A worker enters a pipeline, leaves it, or the number stays.
LEMMA ActivityStep ==
  ASSUME TypeOK, ActivityExact, [Next]_vars
  PROVE  ActivityExact'
<1> DEFINE Same == UNCHANGED countVars /\ Processing' = Processing
<1>1. /\ IsFiniteSet(Processing) /\ IsFiniteSet(Workers)
      /\ Cardinality(Processing) \in Nat /\ Cardinality(Workers) \in Nat
  BY PoolAssumption, FS_Subset, FS_CardinalityType DEF Processing
<1>2. Processing' \subseteq Workers
  BY DEF Processing
<1>3. Cardinality(Processing') <= Cardinality(Workers)
  BY <1>1, <1>2, FS_Subset
<1>4. ASSUME NEW w \in Workers, BeginFile(w) PROVE ActivityExact'
  <2>1. Processing' = Processing \cup {w} /\ w \notin Processing
    BY <1>4 DEF BeginFile, MoveWorker, TypeOK, Processing
  <2>2. Cardinality(Processing') = Cardinality(Processing) + 1
    BY <1>1, <2>1, FS_AddElement
  <2>3. active' = Cardinality(Processing') /\ active' <= Cardinality(Workers)
    BY <1>1, <1>3, <1>4, <2>2 DEF BeginFile, ActivityExact, Processing
  <2> QED
    BY <1>1, <1>4, <2>2, <2>3 DEF BeginFile, ActivityExact, Processing, TypeOK
<1>5. ASSUME NEW w \in Workers, EndFile(w) PROVE ActivityExact'
  <2>1. Processing' = Processing \ {w} /\ w \in Processing
    BY <1>5 DEF EndFile, MoveWorker, TypeOK, Processing
  <2>2. Cardinality(Processing') = Cardinality(Processing) - 1
    BY <1>1, <2>1, FS_RemoveElement
  <2> QED
    BY <1>1, <1>5, <2>2 DEF EndFile, ActivityExact, Processing, TypeOK
<1>6. ASSUME Same PROVE ActivityExact'
  BY <1>6 DEF ActivityExact, Processing, countVars
<1>7. CASE CoordinatorStep \/ Fault
  <2>1. ASSUME NEW w \in Workers, StartThread(w) PROVE Same
    BY <2>1 DEF StartThread, Processing, countVars, TypeOK
  <2>2. CASE CoordinatorStep /\ ~\E w \in Workers : StartThread(w)
    <3>1. UNCHANGED <<workVars, countVars>>
      BY <2>2 DEF CoordinatorStep, CreateTransports, RegisterThread, PutTask, PutStopMarker,
         QueueJoined, ThreadsJoined, CollectComplete, SetShutdown, DrainOne, DrainEmpty,
         DrainedThreadsJoined, DrainedQueueJoined, CollectPartial
    <3> QED
      BY <1>6, <3>1 DEF workVars, Processing
  <2>3. CASE Fault
    <3>1. UNCHANGED <<workVars, countVars>>
      BY <2>3 DEF Fault, TransportFactoryFails, StartFails, Interrupt, EscapingInterrupt
    <3> QED
      BY <1>6, <3>1 DEF workVars, Processing
  <2> QED
    BY <1>6, <1>7, <2>1, <2>2, <2>3
<1>8. CASE \E w \in Workers : WorkerStep(w) /\ ~BeginFile(w) /\ ~EndFile(w)
  <2> PICK w \in Workers : WorkerStep(w) /\ ~BeginFile(w) /\ ~EndFile(w)
    BY <1>8
  <2>1. UNCHANGED countVars
    BY DEF WorkerStep, Dequeue, GetTimesOut, CheckShutdown, StopWorker, CancelTask, ClaimTask,
       ReportResult, AckTask
  <2>2. \E to : wpc[w] # "processing" /\ to # "processing" /\ wpc' = [wpc EXCEPT ![w] = to]
    BY DEF WorkerStep, Dequeue, GetTimesOut, CheckShutdown, StopWorker, CancelTask, ClaimTask,
       ReportResult, AckTask, MoveWorker
  <2>3. Processing' = Processing
    BY <2>2 DEF Processing, TypeOK
  <2> QED
    BY <1>6, <2>1, <2>3
<1>9. CASE Finished \/ UNCHANGED vars
  BY <1>6, <1>9 DEF Finished, vars, workVars, Processing
<1> QED
  BY <1>4, <1>5, <1>7, <1>8, <1>9 DEF Next

\* The unfinished counter of the queue and active_workers are exact in every
\* state, and the reported peak stays within the worker limit.
THEOREM CountersAreExact == Spec => []CountersExact
<1>1. Init => ActivityExact
  <2> SUFFICES ASSUME Init PROVE ActivityExact
    OBVIOUS
  <2>1. Processing = {}
    BY DEF Init, Processing
  <2>2. Cardinality(Processing) = 0 /\ Cardinality(Workers) \in Nat
    BY <2>1, PoolAssumption, FS_EmptySet, FS_CardinalityType
  <2> QED
    BY <2>2 DEF Init, ActivityExact, Processing
<1>2. TypeOK /\ ActivityExact /\ [Next]_vars => ActivityExact'
  BY ActivityStep
<1>3. UnfinishedExact /\ ActivityExact => CountersExact
  BY DEF CountersExact
<1> QED
  BY <1>1, <1>2, <1>3, PoolTypeCorrect, JoinIsSound, PTL DEF Spec

\* The "duplicate task results" and "exactly one result per task" errors of
\* _collect_run are unreachable.
THEOREM ResultsAreConsistent == Spec => []ResultsConsistent
<1>1. PoolInv => ResultsConsistent
  BY DEF PoolInv
<1> QED
  BY <1>1, PoolInvariant, PTL

\* A run that raises WorkerPoolInterrupted reports every file it entered.
THEOREM InterruptReportIsExact == Spec => []InterruptReportExact
<1>1. PoolInv => InterruptReportExact
  <2> SUFFICES ASSUME PoolInv, cpc = "raisedInterrupted", NEW t \in Tasks
               PROVE  starts[t] = results[t]
    BY DEF InterruptReportExact
  <2>1. \A w \in Workers : wtask[w] = NoTask
    BY NothingUnfinished DEF PoolInv, CoordinatorKnows
  <2>2. t # NoTask
    BY DEF Tasks, NoTask
  <2>3. starts[t] \in Nat /\ results[t] \in Nat /\ starts[t] <= 1 /\ results[t] <= starts[t]
    BY DEF PoolInv, TypeOK, LedgerExact, AtMostOnce
  <2> QED
    BY <2>1, <2>2, <2>3 DEF PoolInv, LedgerExact
<1> QED
  BY <1>1, PoolInvariant, PTL

\* With at most one interrupt or failure no file is queued or owned once
\* run_file_workers is over.  The bound is needed: a second interrupt while
\* the threads are joined leaves them running.
THEOREM QuietExitUnderOneFault ==
  ASSUME MaxFaults <= 1
  PROVE  Spec => []QuietExit
<1>1. PoolInv => QuietExit
  <2> SUFFICES ASSUME PoolInv, cpc \in Terminal
               PROVE  /\ taskQueue = <<>>
                      /\ \A w \in Workers : wpc[w] \notin OwningStates
    BY DEF QuietExit
  <2>1. unfinished = 0
    <3>1. faults \in 0..MaxFaults /\ MaxFaults \in Nat
      BY PoolAssumption DEF PoolInv, TypeOK
    <3>2. cpc = "escaped" => faults = 1
      BY <3>1 DEF PoolInv, CoordinatorKnows
    <3> QED
      BY <3>2 DEF PoolInv, CoordinatorKnows, Terminal
  <2>2. taskQueue = <<>> /\ \A w \in Workers : wtask[w] = NoTask
    BY <2>1, NothingUnfinished DEF PoolInv
  <2>3. NoTask \notin Tasks
    BY DEF NoTask, Tasks
  <2> QED
    BY <2>2, <2>3 DEF PoolInv, HoldsItem
<1> QED
  BY <1>1, PoolInvariant, PTL

-----------------------------------------------------------------------------
(* The refinement of UploadPool                                            *)

\* A call that is over stays over, and it returns normally only when the
\* collected results are complete.
LEMMA EndShape ==
  ASSUME [Next]_vars, cpc' # cpc
  PROVE  /\ cpc \notin Terminal
         /\ UNCHANGED ledger
         /\ cpc' = "returned" => \A t \in Tasks : results[t] = 1
<1> USE DEF Terminal, Goto, vars, coordVars
<1>1. CASE CoordinatorStep
  BY <1>1 DEF CoordinatorStep, CreateTransports, StartThread, RegisterThread, PutTask,
     PutStopMarker, QueueJoined, ThreadsJoined, CollectComplete, SetShutdown, DrainOne,
     DrainEmpty, DrainedThreadsJoined, DrainedQueueJoined, CollectPartial, EveryResult
<1>2. CASE Fault
  BY <1>2 DEF Fault, TransportFactoryFails, StartFails, Interrupt, EscapingInterrupt,
     TryStates, HandlerStates
<1>3. CASE \E w \in Workers : WorkerStep(w)
  BY <1>3 DEF WorkerStep, Dequeue, GetTimesOut, CheckShutdown, StopWorker, CancelTask,
     ClaimTask, BeginFile, EndFile, ReportResult, AckTask
<1> QED
  BY <1>1, <1>2, <1>3 DEF Next, Finished

\* No file is half done when the call is over.
Settled == cpc \in Terminal => \A t \in Tasks : starts[t] = results[t]

\* With at most one fault that holds, and nothing is held any more.
LEMMA AtRest ==
  ASSUME MaxFaults <= 1, PoolInv
  PROVE  Settled /\ (cpc \in Terminal => \A w \in Workers : wtask[w] = NoTask)
<1> SUFFICES ASSUME cpc \in Terminal
             PROVE  /\ \A t \in Tasks : starts[t] = results[t]
                    /\ \A w \in Workers : wtask[w] = NoTask
  BY DEF Settled
<1>1. faults \in 0..MaxFaults /\ MaxFaults \in Nat
  BY PoolAssumption DEF PoolInv, TypeOK
<1>2. cpc = "escaped" => faults = 1
  BY <1>1 DEF PoolInv, CoordinatorKnows
<1>3. unfinished = 0
  BY <1>2 DEF PoolInv, CoordinatorKnows, Terminal
<1>4. \A w \in Workers : wtask[w] = NoTask
  BY <1>3, NothingUnfinished DEF PoolInv
<1>5. ASSUME NEW t \in Tasks PROVE starts[t] = results[t]
  <2>1. t # NoTask
    BY DEF Tasks, NoTask
  <2>2. starts[t] \in Nat /\ results[t] \in Nat /\ starts[t] <= 1 /\ results[t] <= starts[t]
    BY DEF PoolInv, TypeOK, LedgerExact, AtMostOnce
  <2> QED
    BY <1>4, <2>1, <2>2 DEF PoolInv, LedgerExact
<1> QED
  BY <1>4, <1>5

\* A step that ends the call ends the contract's call the same way.
LEMMA EndRefines ==
  ASSUME PoolInv, Settled', [Next]_vars, cpc' # cpc, cpc' \in Terminal
  PROVE  Contract!Complete \/ Contract!Raise
<1>1. cpc \notin Terminal /\ starts' = starts /\ results' = results
  BY EndShape DEF ledger
<1>2. Outcome = "running"
  BY <1>1 DEF Outcome, Terminal
<1>3. FileState' = FileState
  BY <1>1 DEF FileState
<1>4. \A t \in Tasks : starts[t] = results[t] /\ results[t] \in Nat
  BY <1>1 DEF Settled, PoolInv, TypeOK
<1>5. CASE cpc' = "returned"
  <2>1. \A t \in Tasks : results[t] = 1
    BY <1>5, EndShape
  <2>2. \A t \in Tasks : FileState[t] = "reported"
    BY <2>1 DEF FileState
  <2>3. Outcome' = "complete"
    BY <1>5 DEF Outcome
  <2> QED
    BY <1>2, <1>3, <2>2, <2>3 DEF Contract!Complete
<1>6. CASE cpc' # "returned"
  <2>1. \A t \in Tasks : FileState[t] # "owned"
    BY <1>4 DEF FileState
  <2>2. Outcome' = "raised"
    BY <1>6 DEF Outcome
  <2> QED
    BY <1>2, <1>3, <2>1, <2>2 DEF Contract!Raise
<1> QED
  BY <1>5, <1>6

LEMMA FileStateShape ==
  /\ FileState = [u \in Tasks |-> FileState[u]]
  /\ FileState' = [u \in Tasks |-> FileState'[u]]
BY DEF FileState

\* The two steps of a worker that the contract sees.
LEMMA WorkRefines ==
  ASSUME MaxFaults <= 1, PoolInv, NEW w \in Workers, BeginFile(w) \/ ReportResult(w)
  PROVE  \E t \in Tasks : Contract!Own(t) \/ Contract!Report(t)
<1> DEFINE t == wtask[w]
<1>1. t \in Tasks /\ t # NoTask /\ Progress(w)
  BY DEF BeginFile, ReportResult, MoveWorker, PoolInv, HoldsItem, OwningStates, LedgerExact,
     Tasks, NoTask
<1>2. starts \in [Tasks -> Nat] /\ results \in [Tasks -> Nat] /\ results[t] <= starts[t]
  BY <1>1 DEF PoolInv, TypeOK, LedgerExact, AtMostOnce
<1>3. cpc \notin Terminal /\ cpc' = cpc
  BY <1>1, AtRest DEF BeginFile, ReportResult, coordVars
<1>4. Outcome = "running" /\ Outcome' = Outcome
  BY <1>3 DEF Outcome, Terminal
<1>5. CASE BeginFile(w)
  <2>1. starts[t] = 0 /\ results[t] = 0
    BY <1>1, <1>2, <1>5 DEF BeginFile, MoveWorker, Progress
  <2>2. starts' = [starts EXCEPT ![t] = 1] /\ results' = results
    BY <1>1, <1>2, <1>5, <2>1 DEF BeginFile
  <2> HIDE DEF t
  <2>3. FileState[t] = "untouched" /\ FileState'[t] = "owned"
    BY <1>1, <1>2, <2>1, <2>2 DEF FileState
  <2>4. \A u \in Tasks \ {t} : FileState'[u] = FileState[u]
    BY <2>2, <1>2 DEF FileState
  <2>5. FileState' = [FileState EXCEPT ![t] = "owned"]
    BY <1>1, <2>3, <2>4, FileStateShape
  <2> QED
    BY <1>1, <1>4, <2>3, <2>5 DEF Contract!Own
<1>6. CASE ReportResult(w)
  <2>1. starts[t] = 1 /\ results[t] = 0
    BY <1>1, <1>6 DEF ReportResult, MoveWorker, Progress
  <2>2. results' = [results EXCEPT ![t] = 1] /\ starts' = starts
    BY <1>1, <1>2, <1>6, <2>1 DEF ReportResult
  <2> HIDE DEF t
  <2>3. FileState[t] = "owned" /\ FileState'[t] = "reported"
    BY <1>1, <1>2, <2>1, <2>2 DEF FileState
  <2>4. \A u \in Tasks \ {t} : FileState'[u] = FileState[u]
    BY <2>2, <1>2 DEF FileState
  <2>5. FileState' = [FileState EXCEPT ![t] = "reported"]
    BY <1>1, <2>3, <2>4, FileStateShape
  <2> QED
    BY <1>1, <1>4, <2>3, <2>5 DEF Contract!Report
<1> QED
  BY <1>5, <1>6

\* Every other step is invisible to the caller.
LEMMA StutterRefines ==
  ASSUME [Next]_vars, cpc' = cpc \/ cpc' \notin Terminal,
         ~\E w \in Workers : BeginFile(w) \/ ReportResult(w)
  PROVE  UNCHANGED <<FileState, Outcome>>
<1>1. starts' = starts /\ results' = results
  <2>1. CASE cpc' # cpc
    BY <2>1, EndShape DEF ledger
  <2>2. CASE \E w \in Workers : WorkerStep(w)
    BY <2>2 DEF WorkerStep, Dequeue, GetTimesOut, CheckShutdown, StopWorker, CancelTask,
       ClaimTask, EndFile, AckTask, ledger
  <2>3. CASE CoordinatorStep \/ Fault
    BY <2>3 DEF CoordinatorStep, CreateTransports, StartThread, RegisterThread, PutTask,
       PutStopMarker, QueueJoined, ThreadsJoined, CollectComplete, SetShutdown, DrainOne,
       DrainEmpty, DrainedThreadsJoined, DrainedQueueJoined, CollectPartial,
       Fault, TransportFactoryFails, StartFails, Interrupt, EscapingInterrupt, ledger
  <2>4. CASE UNCHANGED vars
    BY <2>4 DEF vars, ledger
  <2> QED
    BY <2>2, <2>3, <2>4 DEF Next, Finished
<1>2. FileState' = FileState
  BY <1>1 DEF FileState
<1>3. cpc' = cpc \/ (cpc \notin Terminal /\ cpc' \notin Terminal)
  BY EndShape
<1>4. Outcome' = Outcome
  BY <1>3 DEF Outcome, Terminal
<1> QED
  BY <1>2, <1>4

\* run_file_workers does to each file what its caller is promised, whatever
\* the threads, the queue and one interrupt or failure do: each of its steps
\* is one of the contract or cannot be seen.  That owned files do get their
\* result (the contract's fairness) is left to model checking.
THEOREM PoolKeepsContract ==
  ASSUME MaxFaults <= 1
  PROVE  Spec => Contract!Safety
<1>1. Init => Contract!Init
  <2> SUFFICES ASSUME Init PROVE Contract!Init
    OBVIOUS
  <2>1. Outcome = "running"
    BY DEF Init, Outcome, Terminal
  <2>2. FileState = [t \in Tasks |-> "untouched"]
    BY DEF Init, FileState
  <2> QED
    BY <2>1, <2>2 DEF Contract!Init
<1>2. PoolInv => Settled
  BY AtRest
<1>3. PoolInv /\ Settled' /\ [Next]_vars => [Contract!Next]_Contract!vars
  <2> SUFFICES ASSUME PoolInv, Settled', [Next]_vars
               PROVE  Contract!Next \/ UNCHANGED <<FileState, Outcome>>
    BY DEF Contract!vars
  <2>1. CASE cpc' # cpc /\ cpc' \in Terminal
    BY <2>1, EndRefines DEF Contract!Next
  <2>2. CASE \E w \in Workers : BeginFile(w) \/ ReportResult(w)
    BY <2>2, WorkRefines DEF Contract!Next
  <2> QED
    BY <2>1, <2>2, StutterRefines
<1> QED
  BY <1>1, <1>2, <1>3, PoolInvariant, PTL DEF Spec, Contract!Safety
=============================================================================
