------------------------------ MODULE WorkerPool ------------------------------
(***************************************************************************)
(* run_file_workers of uploader_py/worker_pool.py: one coordinator thread  *)
(* feeds a bounded FIFO queue to homogeneous worker threads, each of which *)
(* runs one file's complete pipeline at a time.                            *)
(*                                                                         *)
(* Modelled: the start of the threads, the bounded task queue with its     *)
(* unfinished counter (Queue.join), the stop markers, the shutdown event,  *)
(* the result queue, the activity counters, KeyboardInterrupt at every     *)
(* point where the main thread can be, and a thread that cannot start.     *)
(* Abstracted: what process_file does (one step here, module FileUpload    *)
(* opens it), logging, and the intake order of the results (a count per    *)
(* task is kept, since _collect_run sorts them again by intake order).     *)
(***************************************************************************)
EXTENDS Integers, Sequences, FiniteSets

CONSTANTS
  Workers,    \* worker_count = min(workers, len(planned_tasks)) threads
  NumTasks,   \* len(planned_tasks); the task IDs are the intake positions
  MaxFaults   \* bound: KeyboardInterrupts and thread or transport failures

ASSUME PoolAssumption ==
  /\ IsFiniteSet(Workers) /\ Workers # {}
  /\ NumTasks \in Nat \ {0}
  /\ Cardinality(Workers) <= NumTasks
  /\ MaxFaults \in Nat

Tasks == 1..NumTasks
StopMarker == 0                          \* the None that ends a worker
NoTask == -1                             \* the worker holds no queue item
QueueSize == 2 * Cardinality(Workers)    \* Queue(maxsize=worker_count * 2)

VARIABLES
  cpc,         \* where the coordinator (the main thread) is
  cause,       \* which exception handler runs, or why the pool raised
  faults,      \* faults injected so far
  registered,  \* started_threads
  nextPut,     \* the next planned task to put
  stopsSent,   \* stop markers put so far
  taskQueue,   \* task_queue's items
  unfinished,  \* task_queue.unfinished_tasks
  shutdown,    \* shutdown_event
  wpc,         \* where each worker thread is
  wtask,       \* the item each worker took and has not acknowledged
  active,      \* active_workers
  peak,        \* peak_active_workers
  starts,      \* history: how often process_file was entered for a task
  results      \* how many results of a task result_queue received

coordVars == <<cpc, cause, faults, registered, nextPut, stopsSent>>
queueVars == <<taskQueue, unfinished>>
workVars  == <<wpc, wtask>>
countVars == <<active, peak>>
ledger    == <<starts, results>>
vars == <<coordVars, queueVars, shutdown, workVars, countVars, ledger>>

\* The states inside the try block: a KeyboardInterrupt there is handled.
TryStates == {"starting", "registering", "enqueueing", "stopping",
              "joinQueue", "joinThreads"}
\* The states of an except block: a KeyboardInterrupt there escapes the pool.
HandlerStates == {"handling", "draining", "joinDrained", "joinDrainedQueue",
                  "collectingPartial"}
Terminal == {"returned", "raisedInterrupted", "raisedError", "escaped"}
CoordStates == {"init", "collecting"} \cup TryStates \cup HandlerStates \cup Terminal
WorkerStates == {"unstarted", "idle", "empty", "dequeued", "claimed",
                 "processing", "reporting", "acking", "exited"}
OwningStates == {"claimed", "processing", "reporting"}

Init ==
  /\ cpc = "init" /\ cause = "none" /\ faults = 0
  /\ registered = {} /\ nextPut = 1 /\ stopsSent = 0
  /\ taskQueue = <<>> /\ unfinished = 0 /\ shutdown = FALSE
  /\ wpc = [w \in Workers |-> "unstarted"]
  /\ wtask = [w \in Workers |-> NoTask]
  /\ active = 0 /\ peak = 0
  /\ starts = [t \in Tasks |-> 0]
  /\ results = [t \in Tasks |-> 0]

-----------------------------------------------------------------------------
(* Queue operations *)

Put(item) ==       \* Queue.put blocks while the queue is full
  /\ Len(taskQueue) < QueueSize
  /\ taskQueue' = Append(taskQueue, item)
  /\ unfinished' = unfinished + 1

TaskDone == unfinished' = unfinished - 1

-----------------------------------------------------------------------------
(* The coordinator *)

Goto(from, to) == cpc = from /\ cpc' = to

CreateTransports ==
  /\ Goto("init", "starting")
  /\ UNCHANGED <<cause, faults, registered, nextPut, stopsSent, queueVars,
                 shutdown, workVars, countVars, ledger>>

TransportFactoryFails ==     \* before any thread exists
  /\ faults < MaxFaults /\ faults' = faults + 1
  /\ Goto("init", "raisedError") /\ cause' = "error"
  /\ UNCHANGED <<registered, nextPut, stopsSent, queueVars, shutdown,
                 workVars, countVars, ledger>>

\* thread.start(): the thread runs before started_threads holds it.
StartThread(w) ==
  /\ wpc[w] = "unstarted"
  /\ Goto("starting", "registering")
  /\ wpc' = [wpc EXCEPT ![w] = "idle"]
  /\ UNCHANGED <<cause, faults, registered, nextPut, stopsSent, queueVars,
                 shutdown, wtask, countVars, ledger>>

StartFails ==                \* thread.start() raises RuntimeError
  /\ \E w \in Workers : wpc[w] = "unstarted"
  /\ faults < MaxFaults /\ faults' = faults + 1
  /\ Goto("starting", "handling") /\ cause' = "error"
  /\ UNCHANGED <<registered, nextPut, stopsSent, queueVars, shutdown,
                 workVars, countVars, ledger>>

RegisterThread ==            \* started_threads.append(thread)
  /\ cpc = "registering"
  /\ registered' = {w \in Workers : wpc[w] # "unstarted"}
  /\ cpc' = IF registered' = Workers THEN "enqueueing" ELSE "starting"
  /\ UNCHANGED <<cause, faults, nextPut, stopsSent, queueVars, shutdown,
                 workVars, countVars, ledger>>

PutTask ==
  /\ cpc = "enqueueing"
  /\ Put(nextPut)
  /\ nextPut' = nextPut + 1
  /\ cpc' = IF nextPut = NumTasks THEN "stopping" ELSE "enqueueing"
  /\ UNCHANGED <<cause, faults, registered, stopsSent, shutdown, workVars,
                 countVars, ledger>>

PutStopMarker ==
  /\ cpc = "stopping"
  /\ Put(StopMarker)
  /\ stopsSent' = stopsSent + 1
  /\ cpc' = IF stopsSent' = Cardinality(registered) THEN "joinQueue" ELSE "stopping"
  /\ UNCHANGED <<cause, faults, registered, nextPut, shutdown, workVars,
                 countVars, ledger>>

QueueJoined ==               \* task_queue.join()
  /\ unfinished = 0
  /\ Goto("joinQueue", "joinThreads")
  /\ UNCHANGED <<cause, faults, registered, nextPut, stopsSent, queueVars,
                 shutdown, workVars, countVars, ledger>>

ThreadsExited == \A w \in registered : wpc[w] = "exited"

ThreadsJoined ==
  /\ ThreadsExited
  /\ Goto("joinThreads", "collecting")
  /\ UNCHANGED <<cause, faults, registered, nextPut, stopsSent, queueVars,
                 shutdown, workVars, countVars, ledger>>

NoDuplicateResult == \A t \in Tasks : results[t] <= 1
EveryResult == \A t \in Tasks : results[t] = 1

CollectComplete ==           \* _collect_run(require_complete=True)
  /\ cpc = "collecting"
  /\ IF EveryResult
       THEN cpc' = "returned" /\ cause' = cause
       ELSE cpc' = "raisedError" /\ cause' = "badResults"
  /\ UNCHANGED <<faults, registered, nextPut, stopsSent, queueVars, shutdown,
                 workVars, countVars, ledger>>

Interrupt ==                 \* except KeyboardInterrupt, shutdown not yet set
  /\ cpc \in TryStates
  /\ faults < MaxFaults /\ faults' = faults + 1
  /\ cpc' = "handling" /\ cause' = "interrupt"
  /\ UNCHANGED <<registered, nextPut, stopsSent, queueVars, shutdown,
                 workVars, countVars, ledger>>

ShutdownWithoutJoin ==       \* mutant of SetShutdown: the handler only sets the event
  /\ Goto("handling", "collectingPartial")
  /\ shutdown' = TRUE
  /\ UNCHANGED <<cause, faults, registered, nextPut, stopsSent, queueVars,
                 workVars, countVars, ledger>>

SetShutdown ==               \* stop_started_workers: shutdown_event.set()
  /\ Goto("handling", "draining")
  /\ shutdown' = TRUE
  /\ UNCHANGED <<cause, faults, registered, nextPut, stopsSent, queueVars,
                 workVars, countVars, ledger>>

DrainWithoutAck ==           \* mutant of DrainOne: no task_done()
  /\ cpc = "draining" /\ taskQueue # <<>>
  /\ taskQueue' = Tail(taskQueue) /\ UNCHANGED unfinished
  /\ UNCHANGED <<coordVars, shutdown, workVars, countVars, ledger>>

DrainOne ==                  \* get_nowait() and task_done()
  /\ cpc = "draining" /\ taskQueue # <<>>
  /\ taskQueue' = Tail(taskQueue) /\ TaskDone
  /\ UNCHANGED <<coordVars, shutdown, workVars, countVars, ledger>>

DrainWithoutJoin ==          \* mutant of DrainEmpty: threads are not joined
  /\ taskQueue = <<>>
  /\ Goto("draining", "collectingPartial")
  /\ UNCHANGED <<cause, faults, registered, nextPut, stopsSent, queueVars,
                 shutdown, workVars, countVars, ledger>>

DrainEmpty ==
  /\ taskQueue = <<>>
  /\ Goto("draining", "joinDrained")
  /\ UNCHANGED <<cause, faults, registered, nextPut, stopsSent, queueVars,
                 shutdown, workVars, countVars, ledger>>

DrainedThreadsJoined ==
  /\ ThreadsExited
  /\ Goto("joinDrained", "joinDrainedQueue")
  /\ UNCHANGED <<cause, faults, registered, nextPut, stopsSent, queueVars,
                 shutdown, workVars, countVars, ledger>>

DrainedQueueJoined ==        \* an Exception handler raises at once
  /\ cpc = "joinDrainedQueue" /\ unfinished = 0
  /\ cpc' = IF cause = "interrupt" THEN "collectingPartial" ELSE "raisedError"
  /\ UNCHANGED <<cause, faults, registered, nextPut, stopsSent, queueVars,
                 shutdown, workVars, countVars, ledger>>

CollectPartial ==            \* _collect_run(require_complete=False)
  /\ cpc = "collectingPartial"
  /\ IF NoDuplicateResult
       THEN cpc' = "raisedInterrupted" /\ cause' = cause
       ELSE cpc' = "raisedError" /\ cause' = "badResults"
  /\ UNCHANGED <<faults, registered, nextPut, stopsSent, queueVars, shutdown,
                 workVars, countVars, ledger>>

EscapingInterrupt ==         \* a KeyboardInterrupt no except block handles
  /\ cpc \in {"init", "collecting"} \cup HandlerStates
  /\ faults < MaxFaults /\ faults' = faults + 1
  /\ cpc' = "escaped"
  /\ UNCHANGED <<cause, registered, nextPut, stopsSent, queueVars, shutdown,
                 workVars, countVars, ledger>>

-----------------------------------------------------------------------------
(* The worker threads *)

MoveWorker(w, from, to) == wpc[w] = from /\ wpc' = [wpc EXCEPT ![w] = to]

PeekQueue(w) ==              \* mutant of Dequeue: the item stays queued
  /\ taskQueue # <<>>
  /\ MoveWorker(w, "idle", "dequeued")
  /\ wtask' = [wtask EXCEPT ![w] = Head(taskQueue)]
  /\ UNCHANGED <<coordVars, queueVars, shutdown, countVars, ledger>>

Dequeue(w) ==                \* task_queue.get(timeout=0.1) returns an item
  /\ taskQueue # <<>>
  /\ MoveWorker(w, "idle", "dequeued")
  /\ wtask' = [wtask EXCEPT ![w] = Head(taskQueue)]
  /\ taskQueue' = Tail(taskQueue)
  /\ UNCHANGED <<coordVars, unfinished, shutdown, countVars, ledger>>

GetTimesOut(w) ==            \* Empty, raised before shutdown_event is read
  /\ taskQueue = <<>>
  /\ MoveWorker(w, "idle", "empty")
  /\ UNCHANGED <<coordVars, queueVars, shutdown, wtask, countVars, ledger>>

IgnoreShutdown(w) ==         \* mutant of CheckShutdown: Empty only continues
  /\ MoveWorker(w, "empty", "idle")
  /\ UNCHANGED <<coordVars, queueVars, shutdown, wtask, countVars, ledger>>

CheckShutdown(w) ==
  /\ MoveWorker(w, "empty", IF shutdown THEN "exited" ELSE "idle")
  /\ UNCHANGED <<coordVars, queueVars, shutdown, wtask, countVars, ledger>>

StopWorker(w) ==             \* the finally clause acknowledges the marker
  /\ wtask[w] = StopMarker
  /\ MoveWorker(w, "dequeued", "exited")
  /\ wtask' = [wtask EXCEPT ![w] = NoTask] /\ TaskDone
  /\ UNCHANGED <<coordVars, taskQueue, shutdown, countVars, ledger>>

CancelWithoutAck(w) ==       \* mutant of CancelTask: continue outside the try
  /\ wtask[w] \in Tasks /\ shutdown
  /\ MoveWorker(w, "dequeued", "idle")
  /\ wtask' = [wtask EXCEPT ![w] = NoTask] /\ UNCHANGED unfinished
  /\ UNCHANGED <<coordVars, taskQueue, shutdown, countVars, ledger>>

CancelTask(w) ==             \* cancelled before worker ownership
  /\ wtask[w] \in Tasks /\ shutdown
  /\ MoveWorker(w, "dequeued", "idle")
  /\ wtask' = [wtask EXCEPT ![w] = NoTask] /\ TaskDone
  /\ UNCHANGED <<coordVars, taskQueue, shutdown, countVars, ledger>>

ClaimTask(w) ==              \* shutdown_event was not set when read
  /\ wtask[w] \in Tasks /\ ~shutdown
  /\ MoveWorker(w, "dequeued", "claimed")
  /\ UNCHANGED <<coordVars, queueVars, shutdown, wtask, countVars, ledger>>

BeginFile(w) ==              \* under activity_lock, then process_file
  /\ MoveWorker(w, "claimed", "processing")
  /\ active' = active + 1
  /\ peak' = IF active' > peak THEN active' ELSE peak
  /\ starts' = [starts EXCEPT ![wtask[w]] = @ + 1]
  /\ UNCHANGED <<coordVars, queueVars, shutdown, wtask, results>>

EndStillActive(w) ==         \* mutant of EndFile: active_workers is kept
  /\ MoveWorker(w, "processing", "reporting")
  /\ UNCHANGED <<coordVars, queueVars, shutdown, wtask, countVars, ledger>>

EndFile(w) ==                \* a result, or an Exception made a FAILED result
  /\ MoveWorker(w, "processing", "reporting")
  /\ active' = active - 1
  /\ UNCHANGED <<coordVars, queueVars, shutdown, wtask, peak, ledger>>

ReportResult(w) ==           \* result_queue.put(result)
  /\ MoveWorker(w, "reporting", "acking")
  /\ results' = [results EXCEPT ![wtask[w]] = @ + 1]
  /\ UNCHANGED <<coordVars, queueVars, shutdown, wtask, countVars, starts>>

AckTask(w) ==                \* finally: task_queue.task_done()
  /\ MoveWorker(w, "acking", "idle")
  /\ wtask' = [wtask EXCEPT ![w] = NoTask] /\ TaskDone
  /\ UNCHANGED <<coordVars, taskQueue, shutdown, countVars, ledger>>

-----------------------------------------------------------------------------

CoordinatorStep ==
  \/ CreateTransports \/ (\E w \in Workers : StartThread(w)) \/ RegisterThread
  \/ PutTask \/ PutStopMarker \/ QueueJoined \/ ThreadsJoined
  \/ CollectComplete \/ SetShutdown \/ DrainOne \/ DrainEmpty
  \/ DrainedThreadsJoined \/ DrainedQueueJoined \/ CollectPartial

Fault == TransportFactoryFails \/ StartFails \/ Interrupt \/ EscapingInterrupt

WorkerStep(w) ==
  \/ Dequeue(w) \/ GetTimesOut(w) \/ CheckShutdown(w) \/ StopWorker(w)
  \/ CancelTask(w) \/ ClaimTask(w) \/ BeginFile(w) \/ EndFile(w)
  \/ ReportResult(w) \/ AckTask(w)

Stopped == \A w \in Workers : wpc[w] \in {"unstarted", "exited"}

Finished ==                  \* the process ends; not a deadlock
  /\ cpc \in Terminal /\ Stopped
  /\ UNCHANGED vars

Next ==
  \/ CoordinatorStep
  \/ Fault
  \/ \E w \in Workers : WorkerStep(w)
  \/ Finished

Spec == Init /\ [][Next]_vars

(* Threads are scheduled and process_file returns (four attempts, bounded  *)
(* timeouts and retry waits); faults are never due.                        *)
FairSpec ==
  /\ Spec
  /\ WF_vars(CoordinatorStep)
  /\ \A w \in Workers : WF_vars(WorkerStep(w))

-----------------------------------------------------------------------------
(* Properties *)

\* Every variable stays in its range; the queue never exceeds its bound.
TypeOK ==
  /\ cpc \in CoordStates
  /\ cause \in {"none", "interrupt", "error", "badResults"}
  /\ faults \in 0..MaxFaults
  /\ registered \in SUBSET Workers
  /\ nextPut \in 1..(NumTasks + 1)
  /\ stopsSent \in Nat
  /\ taskQueue \in Seq(Tasks \cup {StopMarker}) /\ Len(taskQueue) <= QueueSize
  /\ unfinished \in Int
  /\ shutdown \in BOOLEAN
  /\ wpc \in [Workers -> WorkerStates]
  /\ wtask \in [Workers -> Tasks \cup {StopMarker, NoTask}]
  /\ active \in Int /\ peak \in Int
  /\ starts \in [Tasks -> Nat] /\ results \in [Tasks -> Nat]

\* "Process each source exactly once": no interleaving of threads, drains and
\* interrupts makes two workers run one file, or reports a file never run.
AtMostOnce ==
  \A t \in Tasks : starts[t] <= 1 /\ results[t] <= starts[t]

\* _collect_run's own check never fires: when both joins let the coordinator
\* pass, every planned task has exactly one result.
ResultsConsistent == cause # "badResults"

\* Queue.join is sound: the unfinished counter is the number of items queued
\* or held by a worker, whoever removes them (workers and the drain compete).
Holders == {w \in Workers : wtask[w] # NoTask}
UnfinishedExact == unfinished = Len(taskQueue) + Cardinality(Holders)

\* No file is being worked on, and none is queued, once run_file_workers has
\* returned or raised: the caller removes the temporary root and the lock then.
QuietExit ==
  cpc \in Terminal => /\ taskQueue = <<>>
                      /\ \A w \in Workers : wpc[w] \notin OwningStates

\* The interrupted run's report is exact: a file without a result was never
\* entered ("every not-yet-owned source remains untouched").
InterruptReportExact ==
  cpc = "raisedInterrupted" => \A t \in Tasks : starts[t] = results[t]

\* active_workers counts the running pipelines, and the reported peak bounds
\* it and stays within the worker limit.
ActivityExact ==
  /\ active = Cardinality({w \in Workers : wpc[w] = "processing"})
  /\ active <= peak /\ peak <= Cardinality(Workers)

\* The two counters that several threads update agree with what the threads
\* do: the one that Queue.join waits for, and the one in the report.
CountersExact == UnfinishedExact /\ ActivityExact

\* The call returns or raises, and every non-daemon thread ends, so the
\* process can exit.
PoolTerminates == <>[](cpc \in Terminal /\ Stopped)

-----------------------------------------------------------------------------
(* The refinement of UploadPool                                            *)

\* A file is owned from the start of its pipeline to its result.
FileState == [t \in Tasks |->
  IF results[t] > 0 THEN "reported"
  ELSE IF starts[t] > 0 THEN "owned" ELSE "untouched"]
Outcome == CASE cpc = "returned" -> "complete"
             [] cpc \in Terminal \ {"returned"} -> "raised"
             [] OTHER -> "running"

Contract == INSTANCE UploadPool WITH fileState <- FileState, outcome <- Outcome

\* run_file_workers implements the contract of module UploadPool, liveness
\* included, as long as at most one interrupt or failure disturbs it.
ImplementsUploadPool == Contract!Spec

-----------------------------------------------------------------------------
(* The inductive invariant behind the safety properties                    *)

\* No task is twice in the pool: queued once, or held by one worker.
OnePlace ==
  /\ \A i \in 1..Len(taskQueue) : taskQueue[i] < nextPut
  /\ \A i, j \in 1..Len(taskQueue) :
       taskQueue[i] = taskQueue[j] => i = j \/ taskQueue[i] = StopMarker
  /\ \A w \in Workers : wtask[w] < nextPut
  /\ \A v, w \in Workers : wtask[v] = wtask[w] => v = w \/ wtask[v] \notin Tasks
  /\ \A i \in 1..Len(taskQueue), w \in Workers :
       taskQueue[i] = wtask[w] => wtask[w] \notin Tasks

\* What a worker holds at each of its points.
HoldsItem ==
  \A w \in Workers :
    /\ wpc[w] \in {"unstarted", "idle", "empty", "exited"} => wtask[w] = NoTask
    /\ wpc[w] = "dequeued" => wtask[w] # NoTask
    /\ wpc[w] \in OwningStates \cup {"acking"} => wtask[w] \in Tasks

\* How far the worker that holds a task has taken it.
Progress(w) ==
  /\ wpc[w] \in {"dequeued", "claimed"} => starts[wtask[w]] = 0
  /\ wpc[w] \in {"processing", "reporting"} =>
       starts[wtask[w]] = 1 /\ results[wtask[w]] = 0
  /\ wpc[w] = "acking" => results[wtask[w]] = 1

LedgerExact ==
  /\ AtMostOnce
  /\ \A t \in Tasks : t >= nextPut => starts[t] = 0
  /\ \A i \in 1..Len(taskQueue) : taskQueue[i] \in Tasks => starts[taskQueue[i]] = 0
  /\ \A w \in Workers : wtask[w] \in Tasks => Progress(w)
  /\ \A t \in Tasks : starts[t] = 1 /\ results[t] = 0 =>
       \E w \in Workers : wtask[w] = t

\* Until the shutdown event is set, no task that was put is lost.
NoTaskLost ==
  ~shutdown => \A t \in Tasks : t < nextPut =>
    \/ results[t] = 1
    \/ \E i \in 1..Len(taskQueue) : taskQueue[i] = t
    \/ \E w \in Workers : wtask[w] = t

\* What the coordinator knows at each of its points.
CoordinatorKnows ==
  /\ cpc \in {"init", "starting", "registering", "enqueueing"} => nextPut <= NumTasks
  /\ cpc \in {"stopping", "joinQueue", "joinThreads", "collecting"} =>
       nextPut = NumTasks + 1
  /\ cpc \in TryStates \cup {"init", "collecting"} => ~shutdown
  /\ cpc \in HandlerStates \ {"handling"} => shutdown
  /\ cpc \in HandlerStates \cup {"escaped"} => faults >= 1
  /\ cpc \in {"init", "joinThreads", "collecting", "collectingPartial", "returned",
              "raisedInterrupted", "raisedError"} => unfinished = 0
  /\ cpc = "escaped" /\ faults = 1 => unfinished = 0

PoolInv ==
  /\ TypeOK /\ OnePlace /\ HoldsItem /\ LedgerExact /\ NoTaskLost
  /\ CoordinatorKnows /\ UnfinishedExact /\ ResultsConsistent
=============================================================================
