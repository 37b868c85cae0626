------------------------------ MODULE Splitting ------------------------------
(***************************************************************************)
(* prepare_test_chunks of uploader_py/splitting.py: the greedy division of *)
(* a payload's events into request bodies of at most Limit bytes.          *)
(*                                                                         *)
(* JSON is abstracted to bytes: the envelope (prefix and suffix around the *)
(* events array) and offset, where offset[i] is the length of the first i  *)
(* serialized events, so that no sum is needed.  Events and ranges count   *)
(* from 0, as in the code.  Left out: argument checks, and values that are *)
(* not JSON serializable.                                                  *)
(***************************************************************************)
EXTENDS Integers, Sequences, FiniteSets, Chunking

CONSTANTS
  Limit,         \* MAX_TEST_PAYLOAD_BYTES
  MaxEvents,     \* bound: events of a payload
  MaxBytes,      \* bound: bytes of all serialized events
  MaxEnvelope    \* bound: bytes of the envelope

ASSUME SplittingAssumption ==
  /\ Limit \in Nat \ {0}
  /\ MaxEvents \in Nat \ {0} /\ MaxBytes \in Nat /\ MaxEnvelope \in Nat

VARIABLES
  numEvents,    \* len(events)
  offset,       \* the bytes of the first i serialized events
  envelope,     \* envelope_size
  pc,           \* where the function is, or how it ended
  index,        \* event_index of the loop
  chunkStart,   \* chunk_start
  chunkSize,    \* chunk_size
  ranges,       \* event_ranges
  written       \* chunks written so far

input == <<numEvents, offset, envelope>>
loop == <<index, chunkStart, chunkSize>>
vars == <<input, pc, loop, ranges, written>>

Refusals == {"envelope_exceeds", "event_exceeds"}
Places == {"begin", "scanning", "writing", "split", "assertion", "write_failed"}
          \cup Refusals

Offsets(n) ==
  {f \in [0..n -> 0..MaxBytes] :
     f[0] = 0 /\ \A i, j \in 0..n : i < j => f[i] < f[j]}

Size(i) == offset[i + 1] - offset[i]     \* len(serialized_events[i])

\* The body of the events start..end-1, with the commas between them.
Body(start, end) == envelope + (offset[end] - offset[start]) + (end - start - 1)

Init ==
  /\ numEvents \in 1..MaxEvents
  /\ offset \in Offsets(numEvents)
  /\ envelope \in 1..MaxEnvelope
  /\ pc = "begin"
  /\ index = 0 /\ chunkStart = 0 /\ chunkSize = 0
  /\ ranges = <<>> /\ written = 0

-----------------------------------------------------------------------------
(* The checks before the loop *)

WholeFits == Body(0, numEvents) <= Limit

OversizedWithComma ==      \* mutant of Oversized: a comma is counted
  \E i \in 0..(numEvents - 1) : envelope + Size(i) + 1 > Limit

Oversized == \E i \in 0..(numEvents - 1) : envelope + Size(i) > Limit

Between(start, end) == [first |-> start, past |-> end]

KeepWhole ==
  /\ pc = "begin" /\ WholeFits
  /\ pc' = "writing"
  /\ ranges' = <<Between(0, numEvents)>>
  /\ UNCHANGED <<input, loop, written>>

RefuseEnvelope ==
  /\ pc = "begin" /\ ~WholeFits /\ envelope > Limit
  /\ pc' = "envelope_exceeds"
  /\ UNCHANGED <<input, loop, ranges, written>>

RefuseEvent ==
  /\ pc = "begin" /\ ~WholeFits /\ envelope <= Limit /\ Oversized
  /\ pc' = "event_exceeds"
  /\ UNCHANGED <<input, loop, ranges, written>>

StartScan ==
  /\ pc = "begin" /\ ~WholeFits /\ envelope <= Limit /\ ~Oversized
  /\ pc' = "scanning"
  /\ chunkSize' = envelope
  /\ UNCHANGED <<input, index, chunkStart, ranges, written>>

-----------------------------------------------------------------------------
(* The greedy loop *)

NoSeparator == 0           \* mutant of Separator: the comma is forgotten

Separator == IF index = chunkStart THEN 0 ELSE 1

Candidate == chunkSize + Separator + Size(index)

FitsStrictly == Candidate < Limit   \* mutant of FitsChunk: < for <=

FitsChunk == Candidate <= Limit

Extend ==
  /\ pc = "scanning" /\ index < numEvents /\ FitsChunk
  /\ chunkSize' = Candidate
  /\ index' = index + 1
  /\ UNCHANGED <<input, pc, chunkStart, ranges, written>>

CutAndSkip ==              \* mutant of Cut: the event that did not fit is lost
  /\ pc = "scanning" /\ index < numEvents /\ ~FitsChunk
  /\ ranges' = Append(ranges, Between(chunkStart, index))
  /\ chunkStart' = index + 1 /\ chunkSize' = envelope
  /\ index' = index + 1
  /\ UNCHANGED <<input, pc, written>>

Cut ==
  /\ pc = "scanning" /\ index < numEvents /\ ~FitsChunk
  /\ ranges' = Append(ranges, Between(chunkStart, index))
  /\ chunkStart' = index /\ chunkSize' = envelope + Size(index)
  /\ index' = index + 1
  /\ UNCHANGED <<input, pc, written>>

CloseLast ==
  /\ pc = "scanning" /\ index = numEvents
  /\ ranges' = Append(ranges, Between(chunkStart, numEvents))
  /\ pc' = "writing"
  /\ UNCHANGED <<input, loop, written>>

-----------------------------------------------------------------------------
(* Writing the bodies, each measured again *)

NextBody == Body(ranges[written + 1].first, ranges[written + 1].past)

WriteChunk ==              \* or "internal split invariant violated"
  /\ pc = "writing"
  /\ IF NextBody <= Limit
       THEN /\ written' = written + 1
            /\ pc' = IF written' = Len(ranges) THEN "split" ELSE "writing"
       ELSE pc' = "assertion" /\ UNCHANGED written
  /\ UNCHANGED <<input, loop, ranges>>

WriteFails ==              \* an OSError; no request is made
  /\ pc = "writing" /\ NextBody <= Limit
  /\ pc' = "write_failed"
  /\ UNCHANGED <<input, loop, ranges, written>>

Finished ==
  /\ pc \in {"split", "assertion", "write_failed"} \cup Refusals
  /\ UNCHANGED vars

Next ==
  \/ KeepWhole \/ RefuseEnvelope \/ RefuseEvent \/ StartScan
  \/ Extend \/ Cut \/ CloseLast
  \/ WriteChunk \/ WriteFails
  \/ Finished

Spec == Init /\ [][Next]_vars

-----------------------------------------------------------------------------
(* Properties *)

\* Every variable stays in its range, and no chunk is empty.
TypeOK ==
  /\ numEvents \in 1..MaxEvents
  /\ offset \in Offsets(numEvents)
  /\ envelope \in 1..MaxEnvelope
  /\ pc \in Places
  /\ index \in 0..numEvents /\ chunkStart \in 0..index
  /\ chunkSize \in Nat
  /\ ranges \in Seq([first : 0..numEvents, past : 0..numEvents])
  /\ \A k \in 1..Len(ranges) : ranges[k].first < ranges[k].past
  /\ written \in 0..Len(ranges)

\* "internal split invariant violated: chunk exceeds byte limit" is never
\* raised: the sizes added up in the loop are those of the bodies written.
AssertionNeverFires == pc # "assertion"

\* The chunks as a division of the events 1..numEvents (module Chunking).
InRange(e, k) == ranges[k].first < e /\ e <= ranges[k].past
RangeOf(e) == CHOOSE k \in 1..Len(ranges) : InRange(e, k)
ChunkOf == [e \in 1..numEvents |-> ranges[RangeOf(e)].first + 1]

Covered == \A e \in 1..numEvents : \E k \in 1..Len(ranges) : InRange(e, k)

\* Every chunk of the division f has a body within the limit.
WithinLimit(f) ==
  \A d, e \in 1..numEvents : d <= e /\ f[d] = f[e] => Body(d - 1, e) <= Limit

\* What the file worker relies on: every event is in exactly one chunk, in
\* order, and every body is within the limit.
MeetsContract ==
  pc = "split" => Covered /\ ChunkOf \in Splits(1..numEvents) /\ WithinLimit(ChunkOf)

\* No division within the limit needs fewer requests than the greedy one.
FewestChunks ==
  pc = "split" => \A f \in Splits(1..numEvents) :
    WithinLimit(f) => Len(ranges) <= Cardinality({f[e] : e \in 1..numEvents})

\* A payload is refused only when no division of it is within the limit.
RefusalJustified ==
  pc \in Refusals => \A f \in Splits(1..numEvents) : ~WithinLimit(f)

-----------------------------------------------------------------------------
(* The inductive invariant *)

\* How far the ranges go: nothing before the loop, up to the open chunk in
\* it, all events after it.
Reached == IF pc \in {"begin", "scanning"} \cup Refusals THEN chunkStart ELSE numEvents

RangesTile ==
  /\ \A j, k \in 1..Len(ranges) : j < k => ranges[j].past <= ranges[k].first
  /\ \A e \in 1..Reached : \E k \in 1..Len(ranges) : InRange(e, k)
  /\ \A k \in 1..Len(ranges) : ranges[k].past <= Reached
  /\ \A k \in 1..Len(ranges) : Body(ranges[k].first, ranges[k].past) <= Limit

\* chunk_size is the size of the open chunk's body.
ScanKnows ==
  pc = "scanning" =>
    /\ envelope <= Limit /\ ~Oversized
    /\ index = 0 \/ chunkStart < index
    /\ chunkSize = IF index = 0 THEN envelope ELSE Body(chunkStart, index)
    /\ chunkSize <= Limit

SplitInv ==
  /\ TypeOK /\ RangesTile /\ ScanKnows /\ AssertionNeverFires
  /\ pc = "writing" => written < Len(ranges)
  /\ pc = "begin" => index = 0 /\ chunkStart = 0 /\ ranges = <<>>
  /\ pc \in {"begin", "scanning"} => written = 0
  /\ RefusalJustified

\* A chunk was closed only because the next event did not fit into it.
RangesGreedy ==
  \A k \in 1..Len(ranges) :
    ranges[k].past < numEvents => Body(ranges[k].first, ranges[k].past + 1) > Limit
=============================================================================
