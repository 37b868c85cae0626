------------------------------- MODULE FileUpload -------------------------------
(***************************************************************************)
(* One test payload file through successive uploader invocations:          *)
(* _process_test of uploader_py/file_worker.py with the retry loop of      *)
(* transport.py, the source file on disk, and the intake.                  *)
(*                                                                         *)
(* Events are the positions of the original file.  The splitter is         *)
(* represented by its contract (module Chunking): any division of the file *)
(* that was read into contiguous chunks.  A request can be answered with   *)
(* any status, be accepted with the answer lost, meet a transport error,   *)
(* or raise an OSError or HttpTransportError that leaves _process_test.    *)
(* The process can crash at any step.  Of the enrichment the runtime-id is *)
(* modelled, which the intake groups a run by; the other tags, validation  *)
(* and gzip are abstracted to whether they stop the pipeline, as are the   *)
(* wait between attempts and the counters.                                 *)
(***************************************************************************)
EXTENDS Integers, FiniteSets, Chunking

CONSTANTS
  NumEvents,        \* events in the file the test wrote
  MaxAttempts,      \* DEFAULT_MAX_ATTEMPTS
  Modes,            \* how an invocation may be started: "upload", "keep", "dry"
  MaxInvocations,   \* bound: uploader runs over this file
  MaxDisturbances   \* bound: crashes, lost answers and local I/O failures

ASSUME UploadAssumption ==
  /\ NumEvents \in Nat \ {0} /\ MaxAttempts \in Nat \ {0}
  /\ Modes \subseteq {"upload", "keep", "dry"}
  /\ MaxInvocations \in Nat /\ MaxDisturbances \in Nat

Events == 1..NumEvents

VARIABLES
  source,        \* the events of the file on disk; {} once it is deleted
  stamp,         \* the runtime-id in its metadata, 0 when it has none
  intake,        \* how often the intake has accepted each event
  identities,    \* the runtime-ids it has accepted them with
  pc,            \* "idle", "posting" or "finishing"
  mode,          \* how the running invocation was started
  runtimeId,     \* the runtime-id of the enriched payload
  chunkOf,       \* the chunk of each event of the file that was read
  toSend,        \* chunks not tried yet
  failed,        \* failed_chunks
  attempt,       \* the attempt of the current request
  status,        \* the last FileResult's status; "none" after a crash
  warning,       \* its persistence or cleanup warning
  invocations,   \* uploader runs so far
  keepRuns,      \* how many of them were asked to keep the payloads
  disturbances   \* faults so far

sourceVars == <<source, stamp>>
intakeVars == <<intake, identities>>
runVars == <<pc, mode, runtimeId, chunkOf, toSend, failed, attempt>>
resultVars == <<status, warning>>
runCounts == <<invocations, keepRuns>>
vars == <<sourceVars, intakeVars, runVars, resultVars, runCounts, disturbances>>

Init ==
  /\ source = Events /\ stamp = 0
  /\ intake = [e \in Events |-> 0] /\ identities = {}
  /\ pc = "idle" /\ mode = "upload" /\ runtimeId = 0
  /\ chunkOf = [e \in Events |-> e]
  /\ toSend = {} /\ failed = {} /\ attempt = 1
  /\ status = "none" /\ warning = "none"
  /\ invocations = 0 /\ keepRuns = 0 /\ disturbances = 0

Chunk(s) == {e \in DOMAIN chunkOf : chunkOf[e] = s}
ChunksOf(S) == {e \in DOMAIN chunkOf : chunkOf[e] \in S}
Chunks == {chunkOf[e] : e \in DOMAIN chunkOf}
Succeeded == Chunks \ (toSend \cup failed)

IsFirst(s, S) == s \in S /\ \A r \in S : s <= r

-----------------------------------------------------------------------------
(* Before any request *)

BeginInvocation(m) ==
  /\ pc = "idle" /\ source # {} /\ invocations < MaxInvocations
  /\ invocations' = invocations + 1 /\ mode' = m
  /\ keepRuns' = keepRuns + IF m = "keep" THEN 1 ELSE 0

StopWith(m, result) ==
  /\ BeginInvocation(m)
  /\ status' = result /\ warning' = "none"
  /\ UNCHANGED <<sourceVars, intakeVars, pc, runtimeId, chunkOf, toSend,
                 failed,
                 attempt, disturbances>>

Unreadable(m) == StopWith(m, "failed")        \* not JSON, or not an object

NothingToSend(m) == StopWith(m, "skipped")    \* no events, or another prefix

EnrichmentFails(m) == StopWith(m, "failed")   \* ... or leaves out expected tags

Oversized(m) == StopWith(m, "failed")         \* no division is within the limit

\* A dry run prepares every request and sends none.
DryRun(m) ==
  m = "dry" /\ \E result \in {"succeeded", "failed"} : StopWith(m, result)

StopBeforeRequests(m) ==
  \/ Unreadable(m) \/ NothingToSend(m) \/ EnrichmentFails(m) \/ Oversized(m)
  \/ DryRun(m)

EnrichAnew == runtimeId' = invocations'  \* mutant: the file's own is ignored

\* enrich_test_payload: a runtime-id in the file wins over this invocation's.
Enrich == runtimeId' = IF stamp # 0 THEN stamp ELSE invocations'

\* Every chunk is on disk before the first request.
Split(m) ==
  /\ m # "dry"
  /\ BeginInvocation(m)
  /\ Enrich
  /\ chunkOf' \in Splits(source)
  /\ toSend' = Chunks'
  /\ pc' = "posting" /\ failed' = {} /\ attempt' = 1
  /\ status' = "none" /\ warning' = "none"
  /\ UNCHANGED <<sourceVars, intakeVars, disturbances>>

-----------------------------------------------------------------------------
(* HttpTransport._post for the current chunk *)

Current(s) == pc = "posting" /\ IsFirst(s, toSend)

Deliver(s) ==
  /\ intake' = [e \in Events |-> intake[e] + IF e \in Chunk(s) THEN 1 ELSE 0]
  /\ identities' = identities \cup {runtimeId}

NextChunk(s) ==
  /\ toSend' = toSend \ {s} /\ attempt' = 1
  /\ pc' = IF toSend' = {} THEN "finishing" ELSE "posting"

RetryFromTheStart(s) ==   \* mutant of RetryOrFail: the count starts again
  /\ attempt' = IF attempt < MaxAttempts THEN attempt + 1 ELSE 1
  /\ UNCHANGED <<pc, toSend, failed>>

\* The rest of the loop after a failure that may be retried.
RetryOrFail(s) ==
  IF attempt < MaxAttempts
    THEN attempt' = attempt + 1 /\ UNCHANGED <<pc, toSend, failed>>
    ELSE NextChunk(s) /\ failed' = failed \cup {s}

Disturb ==
  /\ disturbances < MaxDisturbances
  /\ disturbances' = disturbances + 1

Accepted(s) ==
  /\ Current(s)
  /\ Deliver(s) /\ NextChunk(s)
  /\ UNCHANGED <<sourceVars, mode, runtimeId, chunkOf, failed, resultVars,
                 runCounts,
                 disturbances>>

AnswerLost(s) ==          \* the intake has the chunk; the uploader cannot know
  /\ Current(s)
  /\ Disturb
  /\ Deliver(s) /\ RetryOrFail(s)
  /\ UNCHANGED <<sourceVars, mode, runtimeId, chunkOf, resultVars, runCounts>>

\* 408, 429, 5xx, or a transport error of a request that never arrived.
RejectedForNow(s) ==
  /\ Current(s)
  /\ RetryOrFail(s)
  /\ UNCHANGED <<sourceVars, intakeVars, mode, runtimeId, chunkOf,
                 resultVars, runCounts,
                 disturbances>>

RejectionForgotten(s) ==  \* mutant of RejectedForGood: "continue" alone
  /\ Current(s)
  /\ NextChunk(s)
  /\ UNCHANGED <<sourceVars, intakeVars, mode, runtimeId, chunkOf, failed,
                 resultVars, runCounts,
                 disturbances>>

\* Any other status or an untrusted certificate; "continue": the later chunks
\* are still tried.
RejectedForGood(s) ==
  /\ Current(s)
  /\ NextChunk(s) /\ failed' = failed \cup {s}
  /\ UNCHANGED <<sourceVars, intakeVars, mode, runtimeId, chunkOf,
                 resultVars, runCounts,
                 disturbances>>

\* An OSError or HttpTransportError leaves the loop; the handler around the
\* pipeline makes it a FAILED result and persists nothing.
PostRaises(s) ==
  /\ Current(s)
  /\ Disturb
  /\ Deliver(s) \/ UNCHANGED intakeVars
  /\ pc' = "idle" /\ status' = "failed" /\ warning' = "none"
  /\ UNCHANGED <<sourceVars, mode, runtimeId, chunkOf, toSend, failed,
                 attempt, runCounts>>

-----------------------------------------------------------------------------
(* After the last chunk *)

FinishAs(result, note) ==
  /\ pc = "finishing" /\ pc' = "idle"
  /\ status' = result /\ warning' = note
  /\ UNCHANGED <<intakeVars, mode, runtimeId, chunkOf, toSend, failed,
                 attempt, runCounts>>

DeleteAfterAnySuccess ==  \* mutant of DeleteSource: failed_chunks not looked at
  /\ failed = {} \/ Succeeded # {}
  /\ mode # "keep"
  /\ FinishAs("succeeded", "none")
  /\ source' = {}
  /\ UNCHANGED <<stamp, disturbances>>

DeleteSource ==           \* _cleanup_source
  /\ failed = {} /\ mode # "keep"
  /\ FinishAs("succeeded", "none")
  /\ source' = {}
  /\ UNCHANGED <<stamp, disturbances>>

DeleteFails ==            \* unlink fails, permissions repaired or not
  /\ failed = {} /\ mode # "keep"
  /\ FinishAs("succeeded", "cleanup_failed")
  /\ Disturb
  /\ UNCHANGED sourceVars

KeepSource ==             \* keep_payloads, or nothing was accepted
  /\ IF failed = {} THEN mode = "keep" ELSE mode = "keep" \/ Succeeded = {}
  /\ FinishAs(IF failed = {} THEN "succeeded" ELSE "failed", "none")
  /\ UNCHANGED <<sourceVars, disturbances>>

NothingPersisted ==       \* mutant of PersistFailed: the source stays whole
  /\ failed # {} /\ Succeeded # {} /\ mode # "keep"
  /\ FinishAs("failed", "none")
  /\ UNCHANGED <<sourceVars, disturbances>>

PersistFirstFailed ==     \* mutant of PersistFailed: only one chunk is written
  /\ failed # {} /\ Succeeded # {} /\ mode # "keep"
  /\ FinishAs("failed", "none")
  /\ \E s \in failed : IsFirst(s, failed) /\ source' = Chunk(s)
  /\ stamp' = runtimeId
  /\ UNCHANGED disturbances

\* _persist_failed_test_chunks: an atomic replace with the failed chunks only,
\* of the enriched payload.
PersistFailed ==
  /\ failed # {} /\ Succeeded # {} /\ mode # "keep"
  /\ FinishAs("failed", "none")
  /\ source' = ChunksOf(failed) /\ stamp' = runtimeId
  /\ UNCHANGED disturbances

PersistFails ==           \* the original source is kept
  /\ failed # {} /\ Succeeded # {} /\ mode # "keep"
  /\ FinishAs("failed", "persist_failed")
  /\ Disturb
  /\ UNCHANGED sourceVars

Crash ==                  \* the file on disk is all that survives
  /\ pc # "idle"
  /\ Disturb
  /\ pc' = "idle" /\ status' = "none" /\ warning' = "none"
  /\ UNCHANGED <<sourceVars, intakeVars, mode, runtimeId, chunkOf, toSend,
                 failed, attempt,
                 runCounts>>

Post(s) ==
  \/ Accepted(s) \/ AnswerLost(s) \/ RejectedForNow(s) \/ RejectedForGood(s)
  \/ PostRaises(s)

Finish ==
  DeleteSource \/ DeleteFails \/ KeepSource \/ PersistFailed \/ PersistFails

Finished ==               \* no further invocation; not a deadlock
  /\ pc = "idle" /\ (source = {} \/ invocations = MaxInvocations)
  /\ UNCHANGED vars

Next ==
  \/ \E m \in Modes : StopBeforeRequests(m) \/ Split(m)
  \/ \E s \in Events : Post(s)
  \/ Finish
  \/ Crash
  \/ Finished

Spec == Init /\ [][Next]_vars

(* A started pipeline goes on: requests time out and waits are bounded.    *)
FairSpec == Spec /\ WF_vars((\E s \in Events : Post(s)) \/ Finish)

-----------------------------------------------------------------------------
(* Properties *)

\* Every variable stays in its range; no request has more than max_attempts.
TypeOK ==
  /\ source \in SUBSET Events
  /\ intake \in [Events -> Nat]
  /\ stamp \in 0..invocations /\ runtimeId \in 0..invocations
  /\ identities \in SUBSET (0..invocations)
  /\ pc \in {"idle", "posting", "finishing"}
  /\ mode \in {"upload", "keep", "dry"}
  /\ \E S \in SUBSET Events : chunkOf \in [S -> S]
  /\ toSend \in SUBSET Events /\ failed \in SUBSET Events
  /\ attempt \in 1..MaxAttempts
  /\ status \in {"none", "succeeded", "failed", "skipped"}
  /\ warning \in {"none", "cleanup_failed", "persist_failed"}
  /\ invocations \in 0..MaxInvocations /\ keepRuns \in 0..invocations
  /\ disturbances \in 0..MaxDisturbances

\* At least once: whatever fails, crashes or is replaced, an event that the
\* intake has not accepted is still in the file for the next invocation.
NoEventLost == \A e \in Events : e \in source \/ intake[e] > 0

\* "Accepted events are not replayed": each extra delivery of an event has a
\* lost answer, a crash, a local failure or a keep_payloads run of its own to
\* blame.
DuplicatesExplained ==
  \A e \in Events : intake[e] <= 1 + disturbances + keepRuns

\* The intake groups a test run by its runtime-id.  However often a file is
\* uploaded in parts, its events arrive under one, unless a lost answer, a
\* crash, a local failure or keep_payloads had them sent again from a source
\* that does not carry it.
OneIdentity ==
  disturbances = 0 /\ keepRuns = 0 => \A i, j \in identities : i = j

\* A file reported SUCCEEDED by a real upload reached the intake completely.
SuccessMeansDelivered ==
  pc = "idle" /\ status = "succeeded" /\ mode # "dry" =>
    \A e \in Events : intake[e] > 0

\* A pipeline that runs to its end with some chunks accepted and some failed
\* leaves exactly the failed chunks' events, unless the replace itself failed.
RetainsExactlyFailed ==
  [][/\ pc = "finishing" /\ status' = "failed" /\ warning' = "none"
     /\ mode = "upload" /\ Succeeded # {}
     => source' = source \ ChunksOf(Succeeded)]_vars

\* Every started pipeline ends with a result or a crash.
PipelineEnds == [](pc # "idle" => <>(pc = "idle"))

\* The documented contract without exception: after partial success only a
\* failed replacement keeps accepted chunks in the source.
AcceptedNotRetained ==
  [][/\ pc # "idle" /\ status' = "failed" /\ warning' = "none"
     /\ mode = "upload"
     => source' \cap ChunksOf(Succeeded) = {}]_vars
-----------------------------------------------------------------------------
(* The inductive invariant behind the safety properties                    *)

\* What a running pipeline knows: it split the whole file, and a chunk it no
\* longer has to send or to keep was accepted.
Running ==
  pc # "idle" =>
    /\ chunkOf \in [source -> source]
    /\ pc = "finishing" => toSend = {}
    /\ toSend \subseteq Chunks /\ toSend \cap failed = {}
    /\ \A e \in source : chunkOf[e] \notin toSend \cup failed => intake[e] > 0

\* The file is stamped with what the intake knows its events by, unless the
\* intake has none of them or the file is gone.
Stamped ==
  disturbances = 0 /\ keepRuns = 0 =>
    /\ pc = "idle" => source = {} \/ identities \subseteq {stamp} \ {0}
    /\ pc # "idle" =>
         /\ runtimeId # 0 /\ identities \subseteq {runtimeId}
         /\ Succeeded = {} => identities \subseteq {stamp} \ {0}
         /\ stamp # 0 => runtimeId = stamp

\* An event in the file has been accepted no more often than faults and
\* earlier keep_payloads runs excuse, this run's own delivery apart.
Accounted(e) == chunkOf[e] \notin toSend \cup failed
WithinBlame ==
  /\ mode = "keep" => keepRuns > 0
  /\ \A e \in source :
       intake[e] <= disturbances + keepRuns
                    + (IF pc # "idle" /\ Accounted(e) THEN 1 ELSE 0)
                    - (IF pc # "idle" /\ mode = "keep" THEN 1 ELSE 0)

UploadInv ==
  /\ TypeOK /\ Running /\ NoEventLost /\ SuccessMeansDelivered
  /\ WithinBlame /\ DuplicatesExplained
  /\ OneIdentity /\ Stamped
=============================================================================
