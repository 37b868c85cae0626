--------------------------- MODULE FileUploadProofs ---------------------------
(***************************************************************************)
(* Proofs about FileUpload, for any number of events, attempts,            *)
(* invocations and disturbances and any set of modes: no event is lost,    *)
(* success means complete delivery, every duplicate has a fault to blame,  *)
(* and a partial failure retains exactly the failed chunks.                *)
(***************************************************************************)
EXTENDS FileUpload, TLAPS

USE DEF Events, sourceVars, intakeVars

\* What starting an invocation does to the counts.
LEMMA BeginFacts ==
  ASSUME TypeOK, NEW m \in Modes, BeginInvocation(m)
  PROVE  /\ keepRuns \in Nat /\ disturbances \in Nat
         /\ intake \in [Events -> Nat] /\ source \subseteq Events
         /\ pc = "idle" /\ mode' = m /\ m \in {"upload", "keep", "dry"}
         /\ keepRuns' = keepRuns + (IF m = "keep" THEN 1 ELSE 0)
         /\ invocations' \in 0..MaxInvocations /\ keepRuns' \in 0..invocations'
         /\ invocations \in Nat /\ invocations' = invocations + 1
BY UploadAssumption DEF TypeOK, BeginInvocation

\* What a delivery does to the intake: events of the chunk count once more.
LEMMA DeliverFacts ==
  ASSUME TypeOK, NEW s \in Events, Deliver(s)
  PROVE  /\ intake' \in [Events -> Nat]
         /\ \A e \in Events :
              /\ intake'[e] \in {intake[e], intake[e] + 1}
              /\ e \in DOMAIN chunkOf /\ chunkOf[e] = s =>
                   intake'[e] = intake[e] + 1
              /\ ~(e \in DOMAIN chunkOf /\ chunkOf[e] = s) =>
                   intake'[e] = intake[e]
BY DEF TypeOK, Deliver, Chunk

LEMMA InitEstablishes == ASSUME Init PROVE UploadInv
<1> USE UploadAssumption DEF runCounts
<1>1. TypeOK BY DEF Init, TypeOK
<1>2. Running BY DEF Init, Running
<1>3. NoEventLost BY DEF Init, NoEventLost
<1>4. SuccessMeansDelivered BY DEF Init, SuccessMeansDelivered
<1>5. WithinBlame BY DEF Init, WithinBlame
<1>6. DuplicatesExplained BY DEF Init, DuplicatesExplained
<1>7. OneIdentity BY DEF Init, OneIdentity
<1>8. Stamped BY DEF Init, Stamped
<1> QED BY <1>1, <1>2, <1>3, <1>4, <1>5, <1>6, <1>7, <1>8 DEF UploadInv

-----------------------------------------------------------------------------
(* The steps before the first request *)

LEMMA StopKeeps ==
  ASSUME UploadInv, NEW m \in Modes, StopBeforeRequests(m)
  PROVE  UploadInv'
<1> USE UploadAssumption DEF StopWith
<1>s. \E result \in {"failed", "skipped", "succeeded"} :
        StopWith(m, result) /\ (result = "succeeded" => m = "dry")
  BY DEF StopBeforeRequests, Unreadable, NothingToSend, EnrichmentFails,
     Oversized, DryRun
<1>0. /\ TypeOK /\ NoEventLost /\ WithinBlame /\ DuplicatesExplained
      /\ OneIdentity /\ Stamped
  BY DEF UploadInv
<1>b. /\ keepRuns \in Nat /\ disturbances \in Nat
      /\ intake \in [Events -> Nat] /\ source \subseteq Events
      /\ pc = "idle" /\ mode' = m /\ m \in {"upload", "keep", "dry"}
      /\ keepRuns' = keepRuns + (IF m = "keep" THEN 1 ELSE 0)
      /\ invocations' \in 0..MaxInvocations /\ keepRuns' \in 0..invocations'
      /\ invocations \in Nat /\ invocations' = invocations + 1
  BY <1>0, <1>s, BeginFacts
<1>1. TypeOK'
  <2>1. 0..invocations \subseteq 0..invocations' BY <1>b
  <2>2. /\ stamp' \in 0..invocations' /\ runtimeId' \in 0..invocations'
        /\ identities' \in SUBSET (0..invocations')
    BY <2>1, <1>0, <1>s DEF TypeOK
  <2> QED BY <2>2, <1>0, <1>s, <1>b DEF TypeOK
<1>2. Running' BY <1>s, <1>b DEF Running
<1>3. NoEventLost' BY <1>0, <1>s DEF NoEventLost
<1>4. SuccessMeansDelivered' BY <1>s, <1>b DEF SuccessMeansDelivered
<1>5. WithinBlame' BY <1>0, <1>s, <1>b DEF WithinBlame
<1>6. DuplicatesExplained' BY <1>0, <1>s, <1>b DEF DuplicatesExplained
<1>7. OneIdentity' BY <1>0, <1>s, <1>b DEF OneIdentity
<1>8. Stamped' BY <1>0, <1>s, <1>b DEF Stamped
<1> QED BY <1>1, <1>2, <1>3, <1>4, <1>5, <1>6, <1>7, <1>8 DEF UploadInv

LEMMA SplitKeeps ==
  ASSUME UploadInv, NEW m \in Modes, Split(m)
  PROVE  UploadInv'
<1> USE UploadAssumption DEF Split
<1>0. /\ TypeOK /\ NoEventLost /\ WithinBlame /\ DuplicatesExplained
      /\ OneIdentity /\ Stamped
  BY DEF UploadInv
<1>b. /\ keepRuns \in Nat /\ disturbances \in Nat
      /\ intake \in [Events -> Nat] /\ source \subseteq Events
      /\ pc = "idle" /\ mode' = m /\ m \in {"upload", "keep", "dry"}
      /\ keepRuns' = keepRuns + (IF m = "keep" THEN 1 ELSE 0)
      /\ invocations' \in 0..MaxInvocations /\ keepRuns' \in 0..invocations'
      /\ invocations \in Nat /\ invocations' = invocations + 1
  BY <1>0, BeginFacts
<1>c. /\ chunkOf' \in [source' -> source'] /\ source' = source
      /\ DOMAIN chunkOf' = source
      /\ toSend' = {chunkOf'[e] : e \in source}
  BY DEF Splits, Chunks
<1>1. TypeOK'
  <2>1. source' \in SUBSET Events BY <1>c, <1>0 DEF TypeOK
  <2>2. toSend' \in SUBSET Events BY <1>c, <2>1
  <2>3. 0..invocations \subseteq 0..invocations' BY <1>b
  <2>4. /\ stamp' \in 0..invocations' /\ runtimeId' \in 0..invocations'
        /\ identities' \in SUBSET (0..invocations')
    BY <2>3, <1>0, <1>b DEF TypeOK, Enrich
  <2> QED BY <1>0, <1>b, <1>c, <2>1, <2>2, <2>4 DEF TypeOK
<1>2. Running' BY <1>c DEF Running
<1>3. NoEventLost' BY <1>0 DEF NoEventLost
<1>4. SuccessMeansDelivered' BY DEF SuccessMeansDelivered
<1>5. WithinBlame'
  <2> SUFFICES ASSUME NEW e \in source
               PROVE  intake[e] <= disturbances + keepRuns'
                                     - IF m = "keep" THEN 1 ELSE 0
    BY <1>b, <1>c DEF WithinBlame, Accounted
  <2> QED BY <1>0, <1>b DEF WithinBlame
<1>6. DuplicatesExplained' BY <1>0, <1>b DEF DuplicatesExplained
<1>7. OneIdentity' BY <1>0, <1>b DEF OneIdentity
<1>8. Stamped'
  <2> SUFFICES ASSUME disturbances = 0, keepRuns = 0
               PROVE  /\ runtimeId' # 0 /\ identities \subseteq {runtimeId'}
                      /\ identities \subseteq {stamp} \ {0}
                      /\ stamp # 0 => runtimeId' = stamp
    BY <1>0, <1>b DEF Stamped
  <2>1. identities \subseteq {stamp} \ {0} /\ stamp \in Nat
    <3>1. stamp \in Nat BY <1>0, <1>b DEF TypeOK
    <3>2. source # {} BY DEF BeginInvocation
    <3> QED BY <3>1, <3>2, <1>0, <1>b DEF Stamped
  <2>2. runtimeId' = IF stamp # 0 THEN stamp ELSE invocations'
    BY DEF Enrich
  <2> QED BY <1>b, <2>1, <2>2
<1> QED BY <1>1, <1>2, <1>3, <1>4, <1>5, <1>6, <1>7, <1>8 DEF UploadInv

-----------------------------------------------------------------------------
(* The retry loop *)

\* The control part of a request's outcome: the chunk is retried, or becomes
\* a failed one, or is done with.
Outcome(s, gone) ==
  /\ pc = "posting" /\ s \in toSend
  /\ \/ ~gone /\ toSend' = toSend /\ failed' = failed /\ pc' = "posting"
     \/ /\ ~gone /\ toSend' = toSend \ {s} /\ failed' = failed \cup {s}
        /\ pc' = IF toSend' = {} THEN "finishing" ELSE "posting"
     \/ /\ gone /\ toSend' = toSend \ {s} /\ failed' = failed
        /\ pc' = IF toSend' = {} THEN "finishing" ELSE "posting"
  /\ attempt' \in 1..MaxAttempts
  /\ UNCHANGED <<source, stamp, mode, runtimeId, chunkOf, status, warning,
                 runCounts>>

\* A request's outcome keeps the invariant if only the accepted chunk's events
\* are counted once more, and a chunk that will be sent again only when a
\* fault pays for it.
LEMMA OutcomeKeeps ==
  ASSUME UploadInv, NEW s \in Events, NEW gone \in BOOLEAN, Outcome(s, gone),
         \/ UNCHANGED <<intakeVars, disturbances>> /\ ~gone
         \/ Deliver(s) /\ gone /\ UNCHANGED disturbances
         \/ Deliver(s) /\ ~gone /\ Disturb
  PROVE  UploadInv'
<1> USE UploadAssumption DEF runCounts
<1>0. /\ TypeOK /\ Running /\ NoEventLost /\ SuccessMeansDelivered
      /\ WithinBlame /\ DuplicatesExplained /\ OneIdentity /\ Stamped
  BY DEF UploadInv
<1>o. /\ pc = "posting" /\ pc' \in {"posting", "finishing"} /\ s \in toSend
      /\ source' = source /\ chunkOf' = chunkOf /\ mode' = mode
      /\ status' = status
      /\ toSend' \cap failed' = {}
      /\ ~gone => toSend' \cup failed' = toSend \cup failed
      /\ gone => /\ toSend' \cup failed' \subseteq toSend \cup failed
                 /\ s \notin toSend' \cup failed'
                 /\ \A c \in (toSend \cup failed) \ {s} : c \in toSend' \cup failed'
      /\ pc' = "finishing" => toSend' = {}
  BY <1>0 DEF Outcome, Running
<1>d. /\ disturbances \in Nat /\ keepRuns \in Nat
      /\ disturbances' \in 0..MaxDisturbances
      /\ disturbances' \in Nat /\ keepRuns' = keepRuns
  BY <1>0 DEF TypeOK, Disturb, Outcome
<1>t. /\ intake \in [Events -> Nat] /\ source \subseteq Events
      /\ chunkOf \in [source -> source]
  BY <1>0, <1>o DEF TypeOK, Running
<1>i. /\ intake' \in [Events -> Nat]
      /\ \A e \in Events :
           /\ intake'[e] \in {intake[e], intake[e] + 1}
           /\ e \notin source \/ chunkOf[e] # s => intake'[e] = intake[e]
           /\ gone /\ e \in source /\ chunkOf[e] = s =>
                intake'[e] = intake[e] + 1
  BY <1>0, <1>t, DeliverFacts
<1>1. TypeOK'
  <2>1. identities' \in SUBSET (0..invocations)
    BY <1>0 DEF TypeOK, Deliver
  <2> QED BY <2>1, <1>0, <1>d, <1>i DEF TypeOK, Outcome
<1>2. Running'
  <2>1. ASSUME NEW e \in source, chunkOf[e] \notin toSend' \cup failed'
        PROVE  intake'[e] > 0
    <3>1. e \in Events /\ intake[e] \in Nat BY <1>t
    <3>2. CASE chunkOf[e] \in toSend \cup failed
      <4>1. gone /\ chunkOf[e] = s BY <2>1, <3>2, <1>o
      <4> QED BY <4>1, <3>1, <1>i
    <3>3. CASE chunkOf[e] \notin toSend \cup failed
      <4>1. intake[e] > 0 BY <3>3, <1>0, <1>o DEF Running
      <4> QED BY <4>1, <3>1, <1>i
    <3> QED BY <3>2, <3>3
  <2>2. toSend' \subseteq Chunks'
    BY <1>0, <1>o DEF Running, Chunks, Outcome
  <2> QED BY <2>1, <2>2, <1>t, <1>o DEF Running
<1>3. NoEventLost'
  <2> SUFFICES ASSUME NEW e \in Events PROVE e \in source \/ intake'[e] > 0
    BY <1>o DEF NoEventLost
  <2>1. e \in source \/ intake[e] > 0 BY <1>0 DEF NoEventLost
  <2> QED BY <2>1, <1>i, <1>t
<1>4. SuccessMeansDelivered' BY <1>o DEF SuccessMeansDelivered
<1>5. WithinBlame'
  <2> DEFINE own == IF mode = "keep" THEN 1 ELSE 0
  <2>0. own \in 0..1 /\ keepRuns - own \in Nat
    BY <1>0, <1>d DEF WithinBlame
  <2> SUFFICES ASSUME NEW e \in source
               PROVE  intake'[e] <= disturbances' + keepRuns - own
                        + IF chunkOf[e] \notin toSend' \cup failed' THEN 1 ELSE 0
    BY <1>0, <1>o, <1>d DEF WithinBlame, Accounted
  <2>1. e \in Events /\ intake[e] \in Nat /\ intake'[e] \in Nat BY <1>t, <1>i
  <2>2. intake[e] <= disturbances + keepRuns - own
          + IF chunkOf[e] \notin toSend \cup failed THEN 1 ELSE 0
    BY <1>0, <1>o, <1>d, <2>1 DEF WithinBlame, Accounted
  <2> HIDE DEF own
  <2>3. CASE gone /\ chunkOf[e] = s
    <3>1. chunkOf[e] \notin toSend' \cup failed' /\ chunkOf[e] \in toSend
      BY <2>3, <1>o
    <3>2. intake'[e] = intake[e] + 1 /\ disturbances' = disturbances
      BY <2>3, <2>1, <1>i DEF Disturb
    <3> QED BY <3>1, <3>2, <2>0, <2>1, <2>2, <1>d
  <2>4. CASE gone /\ chunkOf[e] # s
    <3>1. chunkOf[e] \in toSend' \cup failed' <=> chunkOf[e] \in toSend \cup failed
      BY <2>4, <1>o
    <3>2. intake'[e] = intake[e] /\ disturbances' = disturbances
      BY <2>4, <2>1, <1>i DEF Disturb
    <3> QED BY <3>1, <3>2, <2>0, <2>1, <2>2, <1>d
  <2>5. CASE ~gone
    <3>1. \/ intake'[e] = intake[e] /\ disturbances' = disturbances
          \/ intake'[e] <= intake[e] + 1 /\ disturbances' = disturbances + 1
      BY <2>5, <2>1, <1>i DEF Disturb
    <3>2. toSend' \cup failed' = toSend \cup failed BY <2>5, <1>o
    <3> QED BY <3>1, <3>2, <2>0, <2>1, <2>2, <1>d
  <2> QED BY <2>3, <2>4, <2>5
<1>6. DuplicatesExplained'
  <2> SUFFICES ASSUME NEW e \in Events
               PROVE  intake'[e] <= 1 + disturbances' + keepRuns
    BY <1>d DEF DuplicatesExplained
  <2>1. intake[e] \in Nat /\ intake[e] <= 1 + disturbances + keepRuns
    BY <1>0, <1>t DEF DuplicatesExplained
  <2>4. disturbances' >= disturbances BY <1>d DEF Disturb
  <2>2. CASE e \in source /\ chunkOf[e] = s
    <3>1. intake[e] <= disturbances + keepRuns
      BY <2>1, <2>2, <1>0, <1>o, <1>d DEF WithinBlame, Accounted
    <3>3. intake'[e] <= intake[e] + 1 BY <2>1, <1>i
    <3>4. intake'[e] \in Nat BY <1>i
    <3> QED BY <3>1, <2>4, <3>3, <3>4, <2>1, <1>d
  <2>3. CASE ~(e \in source /\ chunkOf[e] = s)
    <3>1. intake'[e] = intake[e] BY <2>3, <1>i
    <3> QED BY <3>1, <2>4, <2>1, <1>d
  <2> QED BY <2>2, <2>3
<1>7. Stamped'
  <2> SUFFICES ASSUME disturbances' = 0, keepRuns = 0
               PROVE  /\ runtimeId # 0 /\ identities' \subseteq {runtimeId}
                      /\ Succeeded' = {} => identities' \subseteq {stamp} \ {0}
                      /\ stamp # 0 => runtimeId = stamp
    BY <1>o, <1>d DEF Stamped, Outcome
  <2>1. /\ runtimeId # 0 /\ identities \subseteq {runtimeId}
        /\ Succeeded = {} => identities \subseteq {stamp} \ {0}
        /\ stamp # 0 => runtimeId = stamp
    BY <1>0, <1>o, <1>d DEF Stamped, Disturb
  <2>2. identities' \subseteq {runtimeId} BY <2>1 DEF Deliver
  <2>3. CASE gone
    <3>1. s \in Succeeded' BY <2>3, <1>0, <1>o DEF Running, Succeeded, Chunks
    <3> QED BY <3>1, <2>1, <2>2
  <2>4. CASE ~gone
    <3>1. Succeeded' = Succeeded BY <2>4, <1>o DEF Succeeded, Chunks
    <3>2. identities' = identities BY <2>4, <1>d DEF Disturb
    <3> QED BY <3>1, <3>2, <2>1
  <2> QED BY <2>3, <2>4
<1>8. OneIdentity'
  BY <1>7, <1>o DEF Stamped, OneIdentity
<1> QED BY <1>1, <1>2, <1>3, <1>4, <1>5, <1>6, <1>7, <1>8 DEF UploadInv

\* RetryOrFail is an outcome that does not finish the chunk.
LEMMA RetryOutcome ==
  ASSUME TypeOK, NEW s \in Events, Current(s), RetryOrFail(s),
         UNCHANGED <<sourceVars, mode, runtimeId, chunkOf, resultVars, runCounts>>
  PROVE  Outcome(s, FALSE)
BY UploadAssumption
   DEF RetryOrFail, NextChunk, Current, IsFirst, Outcome, TypeOK, resultVars,
       runCounts

-----------------------------------------------------------------------------
(* The end of a pipeline *)

\* An end that a fault pays for keeps the whole source: all its events may be
\* sent again, and each was accepted at most once more than faults excused.
LEMMA DisturbedEndKeeps ==
  ASSUME UploadInv, pc # "idle", pc' = "idle", Disturb,
         UNCHANGED <<sourceVars, mode, runtimeId, chunkOf, toSend, failed, attempt,
                     runCounts>>,
         UNCHANGED intakeVars \/ \E s \in Events : s \in toSend /\ Deliver(s),
         status' \in {"none", "succeeded", "failed"},
         status' = "succeeded" => pc = "finishing" /\ failed = {},
         warning' \in {"none", "cleanup_failed", "persist_failed"}
  PROVE  UploadInv'
<1> USE UploadAssumption DEF runCounts
<1>0. /\ TypeOK /\ Running /\ NoEventLost /\ WithinBlame /\ DuplicatesExplained
      /\ OneIdentity /\ Stamped
  BY DEF UploadInv
<1>d. /\ disturbances \in Nat /\ disturbances' = disturbances + 1
      /\ disturbances' \in 0..MaxDisturbances
      /\ keepRuns \in Nat /\ keepRuns' = keepRuns
  BY <1>0 DEF TypeOK, Disturb
<1>t. /\ intake \in [Events -> Nat] /\ source \subseteq Events
      /\ chunkOf \in [source -> source]
  BY <1>0 DEF TypeOK, Running
<1>i. /\ intake' \in [Events -> Nat]
      /\ \A e \in Events :
           \/ intake'[e] = intake[e]
           \/ /\ intake'[e] = intake[e] + 1
              /\ e \in source /\ chunkOf[e] \in toSend
  <2>1. CASE UNCHANGED intakeVars BY <2>1, <1>t
  <2>2. CASE \E s \in Events : s \in toSend /\ Deliver(s)
    <3>1. PICK s \in Events : s \in toSend /\ Deliver(s) BY <2>2
    <3> QED BY <3>1, <1>0, <1>t, DeliverFacts
  <2> QED BY <2>1, <2>2
<1>1. TypeOK'
  <2>1. identities' \in SUBSET (0..invocations)
    BY <1>0 DEF TypeOK, Deliver
  <2> QED BY <2>1, <1>0, <1>d, <1>i DEF TypeOK
<1>2. Running' BY DEF Running
<1>3. NoEventLost'
  <2> SUFFICES ASSUME NEW e \in Events PROVE e \in source \/ intake'[e] > 0
    BY DEF NoEventLost
  <2>1. e \in source \/ intake[e] > 0 BY <1>0 DEF NoEventLost
  <2> QED BY <2>1, <1>i, <1>t
<1>4. SuccessMeansDelivered'
  <2> SUFFICES ASSUME status' = "succeeded", NEW e \in Events
               PROVE  intake'[e] > 0
    BY DEF SuccessMeansDelivered
  <2>1. intake[e] > 0
    <3>1. CASE e \in source
      <4>1. chunkOf[e] \notin toSend \cup failed BY <3>1, <1>0 DEF Running
      <4> QED BY <3>1, <4>1, <1>0 DEF Running
    <3>2. CASE e \notin source BY <3>2, <1>0 DEF NoEventLost
    <3> QED BY <3>1, <3>2
  <2>2. intake[e] \in Nat BY <1>t
  <2>3. intake'[e] = intake[e] \/ intake'[e] = intake[e] + 1 BY <1>i
  <2> QED BY <2>1, <2>2, <2>3
<1>5. WithinBlame'
  <2> SUFFICES ASSUME NEW e \in source
               PROVE  intake'[e] <= disturbances' + keepRuns
    BY <1>0, <1>d DEF WithinBlame, Accounted
  <2>1. e \in Events /\ intake[e] \in Nat BY <1>t
  <2>2. intake[e] <= 1 + disturbances + keepRuns
    BY <2>1, <1>0 DEF DuplicatesExplained
  <2>3. chunkOf[e] \in toSend => intake[e] <= disturbances + keepRuns
    BY <1>0, <1>d, <2>1 DEF WithinBlame, Accounted
  <2> QED BY <2>1, <2>2, <2>3, <1>i, <1>d
<1>6. DuplicatesExplained'
  <2> SUFFICES ASSUME NEW e \in Events
               PROVE  intake'[e] <= 1 + disturbances' + keepRuns
    BY <1>d DEF DuplicatesExplained
  <2>1. intake[e] \in Nat /\ intake[e] <= 1 + disturbances + keepRuns
    BY <1>t, <1>0 DEF DuplicatesExplained
  <2> QED BY <2>1, <1>i, <1>d
<1>7. OneIdentity' BY <1>d DEF OneIdentity
<1>8. Stamped' BY <1>d DEF Stamped
<1> QED BY <1>1, <1>2, <1>3, <1>4, <1>5, <1>6, <1>7, <1>8 DEF UploadInv

\* A regular end keeps of the source only what no accepted chunk holds.
LEMMA RegularEndKeeps ==
  ASSUME UploadInv, pc = "finishing", pc' = "idle",
         UNCHANGED <<intakeVars, mode, runtimeId, chunkOf, toSend, failed, attempt,
                     runCounts, disturbances>>,
         source' \subseteq source,
         \/ source' = {} /\ stamp' = stamp
         \/ stamp' = runtimeId
         \/ stamp' = stamp /\ (mode = "keep" \/ Succeeded = {}),
         \A e \in source \ source' : chunkOf[e] \notin failed,
         mode = "keep" \/ \A e \in source' : chunkOf[e] \in failed,
         status' \in {"succeeded", "failed"}, status' = "succeeded" => failed = {},
         warning' = "none"
  PROVE  UploadInv'
<1> USE UploadAssumption DEF runCounts
<1>0. /\ TypeOK /\ Running /\ NoEventLost /\ WithinBlame /\ DuplicatesExplained
      /\ OneIdentity /\ Stamped
  BY DEF UploadInv
<1>e. \A e \in source : chunkOf[e] \notin failed => intake[e] > 0
  BY <1>0 DEF Running
<1>1. TypeOK'
  <2>1. stamp' \in 0..invocations /\ runtimeId' = runtimeId
    BY <1>0 DEF TypeOK
  <2> QED BY <2>1, <1>0 DEF TypeOK
<1>2. Running' BY DEF Running
<1>3. NoEventLost' BY <1>0, <1>e DEF NoEventLost
<1>4. SuccessMeansDelivered'
  BY <1>0, <1>e DEF SuccessMeansDelivered, NoEventLost
<1>5. WithinBlame'
  <2>1. disturbances \in Nat /\ keepRuns \in Nat /\ intake \in [Events -> Nat]
    BY <1>0 DEF TypeOK
  <2> SUFFICES ASSUME NEW e \in source'
               PROVE  intake[e] <= disturbances + keepRuns
    BY <1>0, <2>1 DEF WithinBlame, Accounted
  <2>2. e \in source /\ e \in Events BY <1>0 DEF TypeOK
  <2>3. Accounted(e) => mode = "keep" BY DEF Accounted
  <2> QED BY <2>1, <2>2, <2>3, <1>0 DEF WithinBlame
<1>6. DuplicatesExplained' BY <1>0 DEF DuplicatesExplained
<1>7. OneIdentity' BY <1>0 DEF OneIdentity
<1>8. Stamped'
  <2> SUFFICES ASSUME disturbances = 0, keepRuns = 0, source' # {}
               PROVE  identities \subseteq {stamp'} \ {0}
    BY DEF Stamped
  <2>1. mode # "keep" /\ keepRuns \in Nat
    BY <1>0 DEF WithinBlame, TypeOK
  <2>2. /\ runtimeId # 0 /\ identities \subseteq {runtimeId}
        /\ Succeeded = {} => identities \subseteq {stamp} \ {0}
    BY <1>0 DEF Stamped
  <2> QED BY <2>1, <2>2
<1> QED BY <1>1, <1>2, <1>3, <1>4, <1>5, <1>6, <1>7, <1>8 DEF UploadInv

LEMMA FinishKeeps == ASSUME UploadInv, Finish PROVE UploadInv'
<1> USE UploadAssumption DEF FinishAs, runCounts
<1>0. pc = "finishing" => chunkOf \in [source -> source] /\ toSend = {}
  BY DEF UploadInv, Running
<1>1. CASE DeleteSource BY <1>1, <1>0, RegularEndKeeps DEF DeleteSource
<1>2. CASE DeleteFails BY <1>2, DisturbedEndKeeps DEF DeleteFails
<1>3. CASE KeepSource
  <2>1. mode = "keep" \/ \A e \in source : chunkOf[e] \in failed
    BY <1>3, <1>0 DEF KeepSource, Succeeded, Chunks
  <2> QED BY <1>3, <2>1, RegularEndKeeps DEF KeepSource
<1>4. CASE PersistFailed
  <2>1. source' = {e \in source : chunkOf[e] \in failed}
    BY <1>4, <1>0 DEF PersistFailed, ChunksOf
  <2> QED BY <1>4, <2>1, RegularEndKeeps DEF PersistFailed
<1>5. CASE PersistFails BY <1>5, DisturbedEndKeeps DEF PersistFails
<1> QED BY <1>1, <1>2, <1>3, <1>4, <1>5 DEF Finish

LEMMA PostKeeps ==
  ASSUME UploadInv, NEW s \in Events, Post(s)
  PROVE  UploadInv'
<1> USE UploadAssumption DEF runCounts
<1>0. TypeOK BY DEF UploadInv
<1>1. CASE Accepted(s)
  <2>1. Outcome(s, TRUE)
    BY <1>1, <1>0 DEF Accepted, NextChunk, Current, IsFirst, Outcome, resultVars
  <2> QED BY <2>1, <1>1, OutcomeKeeps DEF Accepted
<1>2. CASE AnswerLost(s)
  <2>1. Outcome(s, FALSE) BY <1>2, <1>0, RetryOutcome DEF AnswerLost
  <2> QED BY <2>1, <1>2, OutcomeKeeps DEF AnswerLost
<1>3. CASE RejectedForNow(s)
  <2>1. Outcome(s, FALSE) BY <1>3, <1>0, RetryOutcome DEF RejectedForNow
  <2> QED BY <2>1, <1>3, OutcomeKeeps DEF RejectedForNow
<1>4. CASE RejectedForGood(s)
  <2>1. Outcome(s, FALSE)
    BY <1>4, <1>0
       DEF RejectedForGood, NextChunk, Current, IsFirst, Outcome, resultVars
  <2> QED BY <2>1, <1>4, OutcomeKeeps DEF RejectedForGood
<1>5. CASE PostRaises(s)
  BY <1>5, DisturbedEndKeeps DEF PostRaises, Current, IsFirst
<1> QED BY <1>1, <1>2, <1>3, <1>4, <1>5 DEF Post
-----------------------------------------------------------------------------
(* Theorems *)

LEMMA UploadInvStep == UploadInv /\ [Next]_vars => UploadInv'
<1> SUFFICES ASSUME UploadInv, [Next]_vars PROVE UploadInv' OBVIOUS
<1>1. ASSUME NEW m \in Modes, StopBeforeRequests(m) \/ Split(m) PROVE UploadInv'
  BY <1>1, StopKeeps, SplitKeeps
<1>2. ASSUME NEW s \in Events, Post(s) PROVE UploadInv'
  BY <1>2, PostKeeps
<1>3. CASE Finish BY <1>3, FinishKeeps
<1>4. CASE Crash BY <1>4, DisturbedEndKeeps DEF Crash
<1>5. CASE Finished \/ UNCHANGED vars
  <2>1. UNCHANGED vars BY <1>5 DEF Finished
  <2>2. /\ source' = source /\ intake' = intake /\ pc' = pc /\ mode' = mode
        /\ stamp' = stamp /\ identities' = identities /\ runtimeId' = runtimeId
        /\ chunkOf' = chunkOf /\ toSend' = toSend /\ failed' = failed
        /\ attempt' = attempt /\ status' = status /\ warning' = warning
        /\ invocations' = invocations /\ keepRuns' = keepRuns
        /\ disturbances' = disturbances
    BY <2>1 DEF vars, runVars, resultVars, runCounts
  <2>3. TypeOK' = TypeOK BY <2>2 DEF TypeOK
  <2>4. Running' = Running BY <2>2 DEF Running, Chunks
  <2>5. NoEventLost' = NoEventLost BY <2>2 DEF NoEventLost
  <2>6. SuccessMeansDelivered' = SuccessMeansDelivered
    BY <2>2 DEF SuccessMeansDelivered
  <2>7. WithinBlame' = WithinBlame BY <2>2 DEF WithinBlame, Accounted
  <2>8. DuplicatesExplained' = DuplicatesExplained
    BY <2>2 DEF DuplicatesExplained
  <2>9. OneIdentity' = OneIdentity BY <2>2 DEF OneIdentity
  <2>10. Stamped' = Stamped BY <2>2 DEF Stamped, Succeeded, Chunks
  <2> QED BY <2>3, <2>4, <2>5, <2>6, <2>7, <2>8, <2>9, <2>10 DEF UploadInv
<1> QED BY <1>1, <1>2, <1>3, <1>4, <1>5 DEF Next

\* The inductive invariant of one file's uploads.
THEOREM UploadInvariant == Spec => []UploadInv
<1>1. Init => UploadInv BY InitEstablishes
<1> QED BY <1>1, UploadInvStep, PTL DEF Spec

\* Every variable stays in its range; no request has more than max_attempts.
THEOREM UploadTypeCorrect == Spec => []TypeOK
<1>1. UploadInv => TypeOK BY DEF UploadInv
<1> QED BY <1>1, UploadInvariant, PTL

\* At least once: whatever _process_test meets, an event that the intake has
\* not accepted is still in the file.
THEOREM EventsAreNeverLost == Spec => []NoEventLost
<1>1. UploadInv => NoEventLost BY DEF UploadInv
<1> QED BY <1>1, UploadInvariant, PTL

\* A SUCCEEDED result of a real upload means that every event was accepted.
THEOREM SuccessIsDelivery == Spec => []SuccessMeansDelivered
<1>1. UploadInv => SuccessMeansDelivered BY DEF UploadInv
<1> QED BY <1>1, UploadInvariant, PTL

\* Without keep_payloads an event is accepted at most once more than there
\* were lost answers, crashes and local failures.
THEOREM DuplicatesNeedFaults == Spec => []DuplicatesExplained
<1>1. UploadInv => DuplicatesExplained BY DEF UploadInv
<1> QED BY <1>1, UploadInvariant, PTL

\* The parts of a file reach the intake under one runtime-id, however many
\* invocations they take, as long as nothing has them sent twice.
THEOREM OneIdentityPerFile == Spec => []OneIdentity
<1>1. UploadInv => OneIdentity BY DEF UploadInv
<1> QED BY <1>1, UploadInvariant, PTL

\* A pipeline that ends with accepted and with failed chunks leaves the failed
\* chunks' events and no others, unless the replacement failed.
THEOREM FailedChunksRetained == Spec => RetainsExactlyFailed
<1> DEFINE Kept ==
      /\ pc = "finishing" /\ status' = "failed" /\ warning' = "none"
      /\ mode = "upload" /\ Succeeded # {}
      => source' = source \ ChunksOf(Succeeded)
<1>1. ASSUME UploadInv, [Next]_vars PROVE [Kept]_vars
  <2> SUFFICES ASSUME Next, pc = "finishing", status' = "failed",
                      warning' = "none", mode = "upload", Succeeded # {},
                      ~UNCHANGED vars
               PROVE  source' = source \ ChunksOf(Succeeded)
    BY <1>1
  <2>1. chunkOf \in [source -> source] /\ toSend = {}
    BY <1>1 DEF UploadInv, Running
  <2>2. PersistFailed
    BY DEF Next, StopBeforeRequests, Unreadable, NothingToSend, EnrichmentFails,
       Oversized, DryRun, StopWith, Split, BeginInvocation, Post, Accepted,
       AnswerLost, RejectedForNow, RejectedForGood, PostRaises, Current, Finish,
       DeleteSource, DeleteFails, KeepSource, PersistFails, FinishAs, Crash,
       Finished
  <2>3. source' = {e \in source : chunkOf[e] \in failed}
    BY <2>1, <2>2 DEF PersistFailed, ChunksOf
  <2>4. ChunksOf(Succeeded) = {e \in source : chunkOf[e] \notin failed}
    BY <2>1 DEF ChunksOf, Succeeded, Chunks
  <2> QED BY <2>3, <2>4
<1> QED BY <1>1, UploadInvariant, PTL DEF Spec, RetainsExactlyFailed
=============================================================================
