--------------------------- MODULE SplittingProofs ---------------------------
(***************************************************************************)
(* Proofs about module Splitting, for every limit, envelope, number of     *)
(* events and event sizes: the loop's running size is the size of the      *)
(* body, so the internal check never fires, and the ranges are a division  *)
(* in the sense of module Chunking.                                        *)
(***************************************************************************)
EXTENDS Splitting, FiniteSetTheorems, TLAPS

\* What an element of a sequence, and of a sequence with one more, is.
LEMMA SeqElement ==
  ASSUME NEW S, NEW s \in Seq(S), NEW k \in 1..Len(s)
  PROVE  s[k] \in S
  OBVIOUS

LEMMA SeqAppend ==
  ASSUME NEW S, NEW s \in Seq(S), NEW x \in S
  PROVE  /\ Append(s, x) \in Seq(S)
         /\ Len(s) \in Nat /\ Len(Append(s, x)) = Len(s) + 1
         /\ \A k \in 1..Len(s) : Append(s, x)[k] = s[k]
         /\ Append(s, x)[Len(s) + 1] = x
  OBVIOUS

\* The facts about the input that the arithmetic of the steps needs.
LEMMA InputFacts ==
  ASSUME TypeOK
  PROVE  /\ numEvents \in Nat \ {0} /\ envelope \in Nat /\ Limit \in Nat
         /\ \A i \in 0..numEvents : offset[i] \in Nat
         /\ \A i, j \in 0..numEvents : i < j => offset[i] < offset[j]
         /\ \A i \in 0..numEvents, j \in 0..numEvents : Body(i, j) \in Int
  BY SplittingAssumption DEF TypeOK, Offsets, Body

\* What a step has to keep for TypeOK, the input aside.
LEMMA KeepType ==
  ASSUME TypeOK, UNCHANGED input, pc' \in Places,
         index' \in 0..numEvents, chunkStart' \in 0..index', chunkSize' \in Nat,
         ranges' \in Seq([first : 0..numEvents, past : 0..numEvents]),
         \A k \in 1..Len(ranges') : ranges'[k].first < ranges'[k].past,
         written' \in 0..Len(ranges')
  PROVE  TypeOK'
<1>1. numEvents' = numEvents /\ offset' = offset /\ envelope' = envelope
  BY DEF input
<1>2. offset' \in Offsets(numEvents)'
  BY <1>1 DEF TypeOK, Offsets
<1>3. ranges' \in Seq([first : 0..numEvents', past : 0..numEvents'])
  BY <1>1
<1>4. /\ numEvents' \in 1..MaxEvents /\ envelope' \in 1..MaxEnvelope
      /\ index' \in 0..numEvents'
  BY <1>1 DEF TypeOK
<1> QED
  BY <1>2, <1>3, <1>4 DEF TypeOK

\* A body grows with every event that is added to it.
LEMMA BodyGrows ==
  ASSUME TypeOK,
         NEW a \in 0..numEvents, NEW b \in 0..numEvents,
         NEW c \in 0..numEvents, NEW d \in 0..numEvents,
         a <= b, b < c, c <= d
  PROVE  Body(b, c) <= Body(a, d)
<1>1. /\ offset[a] \in Nat /\ offset[b] \in Nat /\ offset[c] \in Nat /\ offset[d] \in Nat
      /\ envelope \in Nat
  BY InputFacts
<1>2. offset[a] <= offset[b]
  <2>1. CASE a = b
    BY <2>1, <1>1
  <2>2. CASE a < b
    BY <2>2, <1>1, InputFacts
  <2> QED
    BY <2>1, <2>2
<1>3. offset[c] <= offset[d]
  <2>1. CASE c = d
    BY <2>1, <1>1
  <2>2. CASE c < d
    BY <2>2, <1>1, InputFacts
  <2> QED
    BY <2>1, <2>2
<1> QED
  BY <1>1, <1>2, <1>3 DEF Body

LEMMA InitSplitInv == Init => SplitInv
<1> SUFFICES ASSUME Init PROVE SplitInv
  OBVIOUS
<1>1. TypeOK
  BY SplittingAssumption DEF Init, TypeOK, Places
<1> QED
  BY <1>1 DEF Init, SplitInv, RangesTile, ScanKnows, AssertionNeverFires, Reached,
              RefusalJustified, Refusals

\* A payload is refused because the envelope or an event fits no body at all.
LEMMA RefusalLemma ==
  ASSUME TypeOK, envelope > Limit \/ Oversized, NEW f \in Splits(1..numEvents)
  PROVE  ~WithinLimit(f)
<1>1. CASE envelope > Limit
  <2>1. 0 \in 0..numEvents /\ 1 \in 0..numEvents /\ 1 \in 1..numEvents
    BY InputFacts
  <2>2. /\ offset[0] \in Nat /\ offset[1] \in Nat /\ offset[0] < offset[1]
        /\ envelope \in Nat /\ Limit \in Nat
    BY <2>1, InputFacts
  <2>3. Body(0, 1) > Limit /\ 1 - 1 = 0
    BY <1>1, <2>2 DEF Body
  <2>4. ~(Body(0, 1) <= Limit)
    BY <2>2, <2>3 DEF Body
  <2> QED
    BY <2>1, <2>3, <2>4 DEF WithinLimit
<1>2. CASE Oversized
  <2>1. PICK i \in 0..(numEvents - 1) : envelope + Size(i) > Limit
    BY <1>2 DEF Oversized
  <2>2. i + 1 \in 1..numEvents /\ i \in 0..numEvents /\ i + 1 \in 0..numEvents
    BY InputFacts
  <2>3. offset[i] \in Nat /\ offset[i + 1] \in Nat /\ envelope \in Nat /\ Limit \in Nat
    BY <2>2, InputFacts
  <2>4. ~(Body(i, i + 1) <= Limit) /\ (i + 1) - 1 = i
    BY <2>1, <2>3 DEF Body, Size
  <2> QED
    BY <2>2, <2>4 DEF WithinLimit
<1> QED
  BY <1>1, <1>2

-----------------------------------------------------------------------------
(* One lemma per group of actions *)

LEMMA KeepWholeStep ==
  ASSUME SplitInv, KeepWhole
  PROVE  SplitInv'
<1> USE DEF KeepWhole, input, loop
<1>1. TypeOK
  BY DEF SplitInv
<1>2. ranges' = <<[first |-> 0, past |-> numEvents]>> /\ Len(ranges') = 1
  BY DEF Between
<1>3. TypeOK'
  <2>1. 0 \in 0..numEvents /\ numEvents \in 0..numEvents /\ 0 < numEvents
    BY <1>1, InputFacts
  <2>2. ranges' \in Seq([first : 0..numEvents, past : 0..numEvents])
    BY <1>2, <2>1
  <2>3. written = 0
    BY DEF SplitInv
  <2> QED
    BY <1>1, <1>2, <2>1, <2>2, <2>3 DEF TypeOK, Offsets, Places
<1>4. \A k \in 1..Len(ranges') : k = 1
  BY <1>2
<1>5. RangesTile'
  BY <1>1, <1>2, <1>4, InputFacts DEF RangesTile, Reached, Refusals, InRange, WholeFits, Body
<1> QED
  BY <1>1, <1>2, <1>3, <1>5
     DEF SplitInv, ScanKnows, AssertionNeverFires, RefusalJustified, Refusals, TypeOK

LEMMA RefusalStep ==
  ASSUME SplitInv, RefuseEnvelope \/ RefuseEvent
  PROVE  SplitInv'
<1> USE DEF RefuseEnvelope, RefuseEvent, input, loop
<1>1. TypeOK
  BY DEF SplitInv
<1>2. TypeOK'
  BY <1>1 DEF TypeOK, Offsets, Places, Refusals
<1>3. RangesTile'
  BY DEF SplitInv, RangesTile, Reached, Refusals, InRange, Body
<1>4. RefusalJustified'
  BY <1>1, RefusalLemma DEF RefusalJustified, WithinLimit, Body
<1> QED
  BY <1>2, <1>3, <1>4 DEF SplitInv, ScanKnows, AssertionNeverFires

LEMMA StartScanStep ==
  ASSUME SplitInv, StartScan
  PROVE  SplitInv'
<1> USE DEF StartScan, input
<1>1. TypeOK
  BY DEF SplitInv
<1>2. TypeOK'
  BY <1>1, InputFacts DEF TypeOK, Offsets, Places
<1>3. RangesTile'
  BY DEF SplitInv, RangesTile, Reached, Refusals, InRange, Body
<1>4. ScanKnows'
  BY <1>1, InputFacts DEF SplitInv, ScanKnows, Oversized, Size
<1> QED
  BY <1>2, <1>3, <1>4 DEF SplitInv, AssertionNeverFires, RefusalJustified, Refusals

LEMMA ExtendStep ==
  ASSUME SplitInv, Extend
  PROVE  SplitInv'
<1> USE DEF Extend, input
<1>1. TypeOK /\ ScanKnows
  BY DEF SplitInv
<1>2. /\ index \in Nat /\ index + 1 \in 0..numEvents /\ chunkStart \in 0..index
      /\ offset[index] \in Nat /\ offset[index + 1] \in Nat /\ offset[chunkStart] \in Nat
      /\ envelope \in Nat /\ chunkSize \in Nat /\ numEvents \in Nat
      /\ offset[index] < offset[index + 1]
  <2>1. /\ numEvents \in Nat /\ envelope \in Nat
        /\ \A i \in 0..numEvents : offset[i] \in Nat
        /\ \A i, j \in 0..numEvents : i < j => offset[i] < offset[j]
    BY <1>1, InputFacts
  <2>2. index \in 0..numEvents /\ chunkStart \in 0..index /\ chunkSize \in Nat
    BY <1>1 DEF TypeOK
  <2>3. /\ index \in Nat /\ index + 1 \in 0..numEvents
        /\ chunkStart \in 0..numEvents /\ index < index + 1
    BY <2>1, <2>2
  <2> QED
    BY <2>1, <2>2, <2>3
<1>3. Candidate = Body(chunkStart, index + 1)
  <2>1. CASE index = 0
    BY <2>1, <1>1, <1>2 DEF ScanKnows, Candidate, Separator, Size, Body
  <2>2. CASE index # 0
    BY <2>2, <1>1, <1>2 DEF ScanKnows, Candidate, Separator, Size, Body
  <2> QED
    BY <2>1, <2>2
<1>4. Candidate \in Nat
  BY <1>2 DEF Candidate, Separator, Size
<1>5. TypeOK'
  BY <1>1, <1>2, <1>4 DEF TypeOK, Offsets
<1>6. RangesTile'
  BY DEF SplitInv, RangesTile, Reached, Refusals, InRange, Body
<1>7. ScanKnows'
  <2>1. Body(chunkStart, index)' = Body(chunkStart, index + 1)
    BY <1>2 DEF Body
  <2>2. index' = index + 1 /\ index' # 0 /\ chunkStart' = chunkStart /\ chunkStart < index'
    BY <1>2
  <2> QED
    BY <1>1, <1>3, <2>1, <2>2 DEF ScanKnows, FitsChunk, Oversized, Size
<1> QED
  BY <1>5, <1>6, <1>7 DEF SplitInv, AssertionNeverFires, RefusalJustified, Refusals

\* Appending the open chunk, up to the event past, keeps the ranges a tiling.
LEMMA AppendRange ==
  ASSUME SplitInv, pc = "scanning", NEW past \in 1..numEvents,
         chunkStart < past, Body(chunkStart, past) <= Limit,
         UNCHANGED input, ranges' = Append(ranges, Between(chunkStart, past)),
         Reached' = past
  PROVE  /\ RangesTile'
         /\ ranges' \in Seq([first : 0..numEvents, past : 0..numEvents])
         /\ Len(ranges') = Len(ranges) + 1
         /\ \A k \in 1..Len(ranges') : ranges'[k].first < ranges'[k].past
<1>1. TypeOK /\ RangesTile
  BY DEF SplitInv
<1>2. chunkStart \in 0..numEvents /\ past \in 0..numEvents /\ chunkStart \in Nat
  BY <1>1 DEF TypeOK
<1>3. /\ ranges \in Seq([first : 0..numEvents, past : 0..numEvents])
      /\ Between(chunkStart, past) \in [first : 0..numEvents, past : 0..numEvents]
  BY <1>1, <1>2 DEF TypeOK, Between
<1>4. /\ ranges' \in Seq([first : 0..numEvents, past : 0..numEvents])
      /\ Len(ranges') = Len(ranges) + 1
      /\ \A k \in 1..Len(ranges) : ranges'[k] = ranges[k]
      /\ ranges'[Len(ranges) + 1] = Between(chunkStart, past)
      /\ Len(ranges) \in Nat
  BY <1>3, SeqAppend
<1>5. \A k \in 1..Len(ranges') : k \in 1..Len(ranges) \/ k = Len(ranges) + 1
  <2>1. Len(ranges') = Len(ranges) + 1 /\ Len(ranges) \in Nat
    BY <1>4
  <2> QED
    BY <2>1
<1>6. \A k \in 1..Len(ranges) : ranges[k].past <= chunkStart /\ ranges[k].past \in Nat
                               /\ ranges[k].first < ranges[k].past /\ ranges[k].first \in Nat
  <2>1. Reached = chunkStart
    BY DEF Reached
  <2>2. \A k \in 1..Len(ranges) : ranges[k] \in [first : 0..numEvents, past : 0..numEvents]
    BY <1>3, SeqElement
  <2>3. \A k \in 1..Len(ranges) : ranges[k].past \in Nat /\ ranges[k].first \in Nat
    BY <2>2, <1>2
  <2> QED
    BY <1>1, <2>1, <2>3 DEF RangesTile, TypeOK
<1>7. \A k \in 1..Len(ranges') : ranges'[k].first < ranges'[k].past
  BY <1>2, <1>4, <1>5, <1>6 DEF Between
<1>8. \A j, k \in 1..Len(ranges') : j < k => ranges'[j].past <= ranges'[k].first
  <2> SUFFICES ASSUME NEW j \in 1..Len(ranges'), NEW k \in 1..Len(ranges'), j < k
               PROVE  ranges'[j].past <= ranges'[k].first
    OBVIOUS
  <2>1. j \in 1..Len(ranges)
    BY <1>3, <1>4
  <2>2. CASE k \in 1..Len(ranges)
    BY <1>1, <1>4, <2>1, <2>2 DEF RangesTile
  <2>3. CASE k = Len(ranges) + 1
    BY <1>4, <1>6, <2>1, <2>3 DEF Between
  <2> QED
    BY <1>5, <2>2, <2>3
<1>9. \A e \in 1..past : \E k \in 1..Len(ranges') :
        ranges'[k].first < e /\ e <= ranges'[k].past
  <2> SUFFICES ASSUME NEW e \in 1..past
               PROVE  \E k \in 1..Len(ranges') : ranges'[k].first < e /\ e <= ranges'[k].past
    OBVIOUS
  <2>1. CASE e <= chunkStart
    <3>1. PICK k \in 1..Len(ranges) : InRange(e, k)
      BY <1>1, <1>2, <2>1 DEF RangesTile, Reached
    <3>2. k \in 1..Len(ranges') /\ ranges'[k] = ranges[k]
      BY <1>4
    <3> QED
      BY <3>1, <3>2 DEF InRange
  <2>2. CASE chunkStart < e
    <3>1. Len(ranges) + 1 \in 1..Len(ranges')
      BY <1>3, <1>4
    <3>2. ranges'[Len(ranges) + 1].first = chunkStart /\ ranges'[Len(ranges) + 1].past = past
      BY <1>4 DEF Between
    <3> QED
      BY <3>1, <3>2, <2>2
  <2> QED
    BY <1>2, <2>1, <2>2
<1>10. \A k \in 1..Len(ranges') : ranges'[k].past <= past
  <2> SUFFICES ASSUME NEW k \in 1..Len(ranges') PROVE ranges'[k].past <= past
    OBVIOUS
  <2>1. CASE k \in 1..Len(ranges)
    <3>1. ranges'[k].past = ranges[k].past
      BY <1>4, <2>1
    <3>2. ranges[k].past <= chunkStart /\ ranges[k].past \in Nat
      BY <1>6, <2>1
    <3> QED
      BY <1>2, <3>1, <3>2
  <2>2. CASE k = Len(ranges) + 1
    BY <1>4, <2>2 DEF Between
  <2> QED
    BY <1>5, <2>1, <2>2
<1>11. \A k \in 1..Len(ranges') : Body(ranges[k].first, ranges[k].past)' <= Limit
  BY <1>1, <1>4, <1>5 DEF RangesTile, Between, Body, input
<1> QED
  BY <1>4, <1>7, <1>8, <1>9, <1>10, <1>11 DEF RangesTile, InRange

LEMMA CutStep ==
  ASSUME SplitInv, Cut
  PROVE  SplitInv'
<1> USE DEF Cut
<1>1. TypeOK /\ ScanKnows
  BY DEF SplitInv
<1>2. /\ index \in Nat /\ index < numEvents /\ numEvents \in Nat /\ envelope \in Nat
      /\ index \in 0..numEvents /\ index + 1 \in 0..numEvents
      /\ chunkStart \in Nat /\ chunkSize \in Nat /\ Limit \in Nat
      /\ offset[index] \in Nat /\ offset[index + 1] \in Nat
      /\ offset[index] < offset[index + 1]
  <2>1. /\ index \in 0..numEvents /\ index < numEvents /\ numEvents \in Nat
        /\ chunkStart \in 0..index /\ chunkSize \in Nat /\ envelope \in Nat /\ Limit \in Nat
    BY <1>1, InputFacts DEF TypeOK
  <2>2. index \in Nat /\ index + 1 \in 0..numEvents /\ chunkStart \in Nat
    BY <2>1
  <2> QED
    BY <1>1, <2>1, <2>2, InputFacts
<1>3. Size(index) \in Nat /\ envelope + Size(index) <= Limit
  BY <1>1, <1>2 DEF ScanKnows, Oversized, Size
<1>4. index # 0
  BY <1>1, <1>2, <1>3 DEF ScanKnows, FitsChunk, Candidate, Separator, TypeOK
<1>5. chunkStart < index /\ Body(chunkStart, index) <= Limit /\ index \in 1..numEvents
  BY <1>1, <1>2, <1>4 DEF ScanKnows
<1>6. Reached' = index
  BY DEF Reached
<1>7. /\ RangesTile'
      /\ ranges' \in Seq([first : 0..numEvents, past : 0..numEvents])
      /\ Len(ranges') = Len(ranges) + 1
      /\ \A k \in 1..Len(ranges') : ranges'[k].first < ranges'[k].past
  BY <1>5, <1>6, AppendRange
<1>8. TypeOK'
  <2>1. /\ index' = index + 1 /\ chunkStart' = index /\ chunkSize' = envelope + Size(index)
        /\ pc' = "scanning" /\ written' = written /\ UNCHANGED input
    OBVIOUS
  <2>2. written' \in 0..Len(ranges') /\ pc' \in Places /\ chunkSize' \in Nat
    BY <1>1, <1>2, <1>3, <1>7, <2>1 DEF SplitInv, TypeOK, Places
  <2>3. index' \in 0..numEvents /\ chunkStart' \in 0..index'
    BY <1>2, <2>1
  <2> QED
    BY <1>1, <1>7, <2>1, <2>2, <2>3, KeepType
<1>9. ScanKnows'
  <2>1. /\ chunkStart' = index /\ index' = index + 1 /\ chunkSize' = envelope + Size(index)
        /\ input' = input
    OBVIOUS
  <2>2. Body(chunkStart, index)' = envelope + Size(index)
    BY <1>2, <2>1 DEF Body, Size, input
  <2> QED
    BY <1>1, <1>2, <1>3, <2>1, <2>2 DEF ScanKnows, Oversized, Size, input
<1> QED
  BY <1>7, <1>8, <1>9
     DEF SplitInv, AssertionNeverFires, RefusalJustified, Refusals, input

LEMMA CloseLastStep ==
  ASSUME SplitInv, CloseLast
  PROVE  SplitInv'
<1> USE DEF CloseLast, loop
<1>1. TypeOK /\ ScanKnows
  BY DEF SplitInv
<1>2. /\ numEvents \in Nat \ {0} /\ chunkStart \in Nat /\ numEvents \in 1..numEvents
      /\ UNCHANGED input /\ UNCHANGED <<index, chunkStart, chunkSize>>
      /\ UNCHANGED written
      /\ ranges' = Append(ranges, Between(chunkStart, numEvents))
  BY <1>1, InputFacts DEF TypeOK
<1>3. chunkStart < numEvents /\ Body(chunkStart, numEvents) <= Limit
  BY <1>1, <1>2 DEF ScanKnows
<1>4. Reached' = numEvents
  BY DEF Reached, Refusals, input
<1>5. /\ RangesTile'
      /\ ranges' \in Seq([first : 0..numEvents, past : 0..numEvents])
      /\ Len(ranges') = Len(ranges) + 1
      /\ \A k \in 1..Len(ranges') : ranges'[k].first < ranges'[k].past
  BY <1>2, <1>3, <1>4, AppendRange
<1>6. written' = 0 /\ written' < Len(ranges') /\ written' \in 0..Len(ranges')
  BY <1>1, <1>2, <1>5 DEF SplitInv, TypeOK
<1>7. TypeOK'
  <2>1. /\ index' \in 0..numEvents /\ chunkStart' \in 0..index' /\ chunkSize' \in Nat
        /\ pc' \in Places
    BY <1>1, <1>2 DEF TypeOK, Places
  <2> QED
    BY <1>1, <1>2, <1>5, <1>6, <2>1, KeepType
<1> QED
  BY <1>5, <1>6, <1>7
     DEF SplitInv, ScanKnows, AssertionNeverFires, RefusalJustified, Refusals

LEMMA WriteStep ==
  ASSUME SplitInv, WriteChunk \/ WriteFails
  PROVE  SplitInv'
<1> USE DEF WriteChunk, WriteFails, input, loop
<1>1. TypeOK /\ RangesTile /\ pc = "writing" /\ written < Len(ranges)
  BY DEF SplitInv
<1>2. written + 1 \in 1..Len(ranges) /\ written \in Nat /\ Len(ranges) \in Nat
  BY <1>1 DEF TypeOK
<1>3. NextBody <= Limit
  BY <1>1, <1>2 DEF RangesTile, NextBody
<1>4. /\ pc' \in {"writing", "split", "write_failed"}
      /\ written' \in 0..Len(ranges)
      /\ pc' = "writing" => written' < Len(ranges)
  BY <1>1, <1>2, <1>3
<1>5. TypeOK'
  BY <1>1, <1>4 DEF TypeOK, Offsets, Places
<1>6. RangesTile'
  BY <1>1, <1>4 DEF RangesTile, Reached, Refusals, InRange, Body
<1> QED
  BY <1>4, <1>5, <1>6
     DEF SplitInv, ScanKnows, AssertionNeverFires, RefusalJustified, Refusals

LEMMA StutterStep ==
  ASSUME SplitInv, UNCHANGED vars
  PROVE  SplitInv'
<1> USE DEF vars, input, loop
<1>1. TypeOK' /\ RangesTile' /\ ScanKnows'
  BY DEF SplitInv, TypeOK, Offsets, RangesTile, Reached, InRange, Body, ScanKnows,
         Oversized, Size
<1>2. RefusalJustified'
  BY DEF SplitInv, RefusalJustified, WithinLimit, Body
<1> QED
  BY <1>1, <1>2 DEF SplitInv, AssertionNeverFires

-----------------------------------------------------------------------------
(* The theorems *)

\* SplitInv holds in every reachable state of prepare_test_chunks.
THEOREM SplitInvariant == Spec => []SplitInv
<1>1. SplitInv /\ [Next]_vars => SplitInv'
  <2> SUFFICES ASSUME SplitInv, [Next]_vars PROVE SplitInv'
    OBVIOUS
  <2>1. CASE KeepWhole
    BY <2>1, KeepWholeStep
  <2>2. CASE RefuseEnvelope \/ RefuseEvent
    BY <2>2, RefusalStep
  <2>3. CASE StartScan
    BY <2>3, StartScanStep
  <2>4. CASE Extend
    BY <2>4, ExtendStep
  <2>5. CASE Cut
    BY <2>5, CutStep
  <2>6. CASE CloseLast
    BY <2>6, CloseLastStep
  <2>7. CASE WriteChunk \/ WriteFails
    BY <2>7, WriteStep
  <2>8. CASE Finished \/ UNCHANGED vars
    BY <2>8, StutterStep DEF Finished
  <2> QED
    BY <2>1, <2>2, <2>3, <2>4, <2>5, <2>6, <2>7, <2>8 DEF Next
<1> QED
  BY <1>1, InitSplitInv, PTL DEF Spec

\* Types, and no empty chunk: a division has as many requests as it names.
THEOREM SplitTypeCorrect == Spec => []TypeOK
<1>1. SplitInv => TypeOK
  BY DEF SplitInv
<1> QED
  BY <1>1, SplitInvariant, PTL

\* The AssertionError of prepare_test_chunks is unreachable.
THEOREM SplitAssertionUnreachable == Spec => []AssertionNeverFires
<1>1. SplitInv => AssertionNeverFires
  BY DEF SplitInv
<1> QED
  BY <1>1, SplitInvariant, PTL

\* A refused payload has no division within the limit at all.
THEOREM RefusalsAreJustified == Spec => []RefusalJustified
<1>1. SplitInv => RefusalJustified
  BY DEF SplitInv
<1> QED
  BY <1>1, SplitInvariant, PTL

\* The chunk of an event, with what the tiling says of it.
LEMMA RangeFacts ==
  ASSUME SplitInv, pc = "split", NEW e \in 1..numEvents
  PROVE  /\ RangeOf(e) \in 1..Len(ranges)
         /\ InRange(e, RangeOf(e))
         /\ ranges[RangeOf(e)].first \in 0..numEvents
         /\ ranges[RangeOf(e)].past \in 0..numEvents
         /\ ChunkOf[e] = ranges[RangeOf(e)].first + 1
<1>1. Reached = numEvents
  BY DEF Reached, Refusals
<1>2. \E k \in 1..Len(ranges) : InRange(e, k)
  BY <1>1 DEF SplitInv, RangesTile
<1>3. RangeOf(e) \in 1..Len(ranges) /\ InRange(e, RangeOf(e))
  BY <1>2 DEF RangeOf
<1>4. ranges[RangeOf(e)] \in [first : 0..numEvents, past : 0..numEvents]
  BY <1>3, SeqElement DEF SplitInv, TypeOK
<1> QED
  BY <1>3, <1>4 DEF ChunkOf

\* Ranges are in order: an event of a later range comes later.
LEMMA RangesOrdered ==
  ASSUME SplitInv, pc = "split", NEW d \in 1..numEvents, NEW e \in 1..numEvents, d <= e
  PROVE  \/ RangeOf(d) = RangeOf(e)
         \/ ranges[RangeOf(d)].past <= ranges[RangeOf(e)].first
<1> DEFINE j == RangeOf(d)
           k == RangeOf(e)
<1> HIDE DEF j, k
<1>1. /\ j \in 1..Len(ranges) /\ InRange(d, j)
      /\ ranges[j].first \in 0..numEvents /\ ranges[j].past \in 0..numEvents
  BY RangeFacts DEF j
<1>2. /\ k \in 1..Len(ranges) /\ InRange(e, k)
      /\ ranges[k].first \in 0..numEvents /\ ranges[k].past \in 0..numEvents
  BY RangeFacts DEF k
<1>3. \A m, n \in 1..Len(ranges) : m < n => ranges[m].past <= ranges[n].first
  BY DEF SplitInv, RangesTile
<1>4. CASE k < j
  <2>1. ranges[k].past <= ranges[j].first
    BY <1>1, <1>2, <1>3, <1>4
  <2> QED
    BY <2>1, <1>1, <1>2 DEF InRange
<1>5. CASE j < k
  BY <1>1, <1>2, <1>3, <1>5 DEF j, k
<1>6. CASE j = k
  BY <1>6 DEF j, k
<1>7. Len(ranges) \in Nat
  BY DEF SplitInv, TypeOK
<1> QED
  BY <1>1, <1>2, <1>4, <1>5, <1>6, <1>7

\* What the file worker gets is a division in the sense of its contract: the
\* premise under which module FileUpload shows that no event is lost.
THEOREM SplitMeetsContract == Spec => []MeetsContract
<1>1. SplitInv => MeetsContract
  <2> SUFFICES ASSUME SplitInv, pc = "split"
               PROVE  Covered /\ ChunkOf \in Splits(1..numEvents) /\ WithinLimit(ChunkOf)
    BY DEF MeetsContract
  <2>1. Covered
    BY DEF SplitInv, RangesTile, Reached, Refusals, Covered
  <2>2. numEvents \in Nat
    BY InputFacts DEF SplitInv
  <2>3. \A e \in 1..numEvents : /\ ChunkOf[e] \in 1..numEvents /\ ChunkOf[e] <= e
                               /\ ChunkOf[e] = ranges[RangeOf(e)].first + 1
    BY <2>2, RangeFacts DEF InRange
  <2>4. \A d, e \in 1..numEvents : d <= e => ChunkOf[d] <= ChunkOf[e]
    <3> SUFFICES ASSUME NEW d \in 1..numEvents, NEW e \in 1..numEvents, d <= e
                 PROVE  ChunkOf[d] <= ChunkOf[e]
      OBVIOUS
    <3>1. CASE RangeOf(d) = RangeOf(e)
      BY <3>1, <2>2, <2>3
    <3>2. CASE ranges[RangeOf(d)].past <= ranges[RangeOf(e)].first
      <4>1. d <= ranges[RangeOf(d)].past /\ ranges[RangeOf(d)].past \in 0..numEvents
        BY RangeFacts DEF InRange
      <4>2. ranges[RangeOf(e)].first \in 0..numEvents
        BY RangeFacts
      <4> QED
        BY <3>2, <4>1, <4>2, <2>2, <2>3
    <3> QED
      BY <3>1, <3>2, RangesOrdered
  <2>5. \A e \in 1..numEvents : ChunkOf[ChunkOf[e]] = ChunkOf[e]
    <3> SUFFICES ASSUME NEW e \in 1..numEvents
                 PROVE  ChunkOf[ChunkOf[e]] = ChunkOf[e]
      OBVIOUS
    <3> DEFINE d == ChunkOf[e]
    <3>1. d \in 1..numEvents /\ d <= e /\ d = ranges[RangeOf(e)].first + 1
      BY <2>3
    <3> HIDE DEF d
    <3>2. CASE RangeOf(d) = RangeOf(e)
      BY <3>1, <3>2, <2>3 DEF d
    <3>3. CASE ranges[RangeOf(d)].past <= ranges[RangeOf(e)].first
      BY <3>1, <3>3, <2>2, RangeFacts DEF InRange
    <3>4. ChunkOf[d] = d
      BY <3>1, <3>2, <3>3, RangesOrdered DEF d
    <3> QED
      BY <3>4 DEF d
  <2>6. ChunkOf \in Splits(1..numEvents)
    BY <2>3, <2>4, <2>5 DEF Splits, ChunkOf
  <2>7. WithinLimit(ChunkOf)
    <3> SUFFICES ASSUME NEW d \in 1..numEvents, NEW e \in 1..numEvents,
                        d <= e, ChunkOf[d] = ChunkOf[e]
                 PROVE  Body(d - 1, e) <= Limit
      BY DEF WithinLimit
    <3> DEFINE k == RangeOf(e)
    <3>1. /\ k \in 1..Len(ranges) /\ InRange(e, k)
          /\ ranges[k].first \in 0..numEvents /\ ranges[k].past \in 0..numEvents
      BY RangeFacts
    <3>2. ranges[k].first <= d - 1
      <4>1. d >= ChunkOf[d] /\ ChunkOf[d] = ranges[k].first + 1
        BY <2>3
      <4> QED
        BY <4>1, <3>1, <2>2
    <3> HIDE DEF k
    <3>3. Body(ranges[k].first, ranges[k].past) <= Limit
      BY <3>1 DEF SplitInv, RangesTile
    <3>4. /\ d - 1 \in 0..numEvents /\ e \in 0..numEvents /\ d - 1 < e
          /\ e <= ranges[k].past
      BY <3>1, <2>2 DEF InRange
    <3>5. Body(d - 1, e) <= Body(ranges[k].first, ranges[k].past)
      BY <3>1, <3>2, <3>4, BodyGrows DEF SplitInv
    <3>6. /\ Body(d - 1, e) \in Int /\ Body(ranges[k].first, ranges[k].past) \in Int
          /\ Limit \in Nat
      BY <3>1, <3>4, InputFacts DEF SplitInv
    <3> QED
      BY <3>3, <3>5, <3>6
  <2> QED
    BY <2>1, <2>6, <2>7
<1> QED
  BY <1>1, SplitInvariant, PTL
-----------------------------------------------------------------------------
(* The greedy division needs the fewest requests *)

\* Appending a range keeps the earlier ones greedy; the new one has to be.
LEMMA AppendGreedy ==
  ASSUME SplitInv, RangesGreedy, NEW past \in 1..numEvents, UNCHANGED input,
         chunkStart \in 0..numEvents,
         past < numEvents => Body(chunkStart, past + 1) > Limit,
         ranges' = Append(ranges, Between(chunkStart, past))
  PROVE  RangesGreedy'
<1>1. past \in 0..numEvents
  BY InputFacts DEF SplitInv
<1>2. /\ ranges \in Seq([first : 0..numEvents, past : 0..numEvents])
      /\ Between(chunkStart, past) \in [first : 0..numEvents, past : 0..numEvents]
  BY <1>1 DEF SplitInv, TypeOK, Between
<1>3. /\ Len(ranges') = Len(ranges) + 1 /\ Len(ranges) \in Nat
      /\ \A k \in 1..Len(ranges) : ranges'[k] = ranges[k]
      /\ ranges'[Len(ranges) + 1] = Between(chunkStart, past)
  BY <1>2, SeqAppend
<1>4. /\ numEvents' = numEvents /\ offset' = offset /\ envelope' = envelope
  BY DEF input
<1> SUFFICES ASSUME NEW k \in 1..Len(ranges'), ranges'[k].past < numEvents
             PROVE  Body(ranges'[k].first, ranges'[k].past + 1) > Limit
  BY <1>4 DEF RangesGreedy, Body
<1>5. CASE k \in 1..Len(ranges)
  BY <1>3, <1>5 DEF RangesGreedy
<1>6. CASE k = Len(ranges) + 1
  BY <1>3, <1>6 DEF Between
<1> QED
  BY <1>3, <1>5, <1>6

LEMMA GreedyStep ==
  ASSUME SplitInv, RangesGreedy, [Next]_vars
  PROVE  RangesGreedy'
<1>1. TypeOK /\ ScanKnows
  BY DEF SplitInv
<1>2. /\ numEvents \in Nat \ {0} /\ envelope \in Nat /\ Limit \in Nat
      /\ chunkStart \in Nat /\ chunkStart <= index /\ index \in Nat /\ index <= numEvents
      /\ chunkSize \in Nat
  BY <1>1, InputFacts DEF TypeOK
<1>3. CASE KeepWhole
  BY <1>2, <1>3 DEF KeepWhole, RangesGreedy, Between, input
<1>4. CASE Cut
  <2>1. /\ index < numEvents /\ ~FitsChunk /\ UNCHANGED input
        /\ ranges' = Append(ranges, Between(chunkStart, index))
        /\ pc = "scanning"
    BY <1>4 DEF Cut
  <2>2. /\ index \in 0..numEvents /\ index + 1 \in 0..numEvents
        /\ chunkStart \in 0..numEvents
    BY <1>2, <2>1
  <2>3. /\ offset[index] \in Nat /\ offset[index + 1] \in Nat
        /\ offset[chunkStart] \in Nat /\ offset[index] < offset[index + 1]
    BY <1>1, <1>2, <2>2, InputFacts
  <2>4. index # 0
    <3> SUFFICES ASSUME index = 0 PROVE FALSE
      OBVIOUS
    <3>1. envelope + Size(index) <= Limit
      BY <1>1, <1>2, <2>1, <2>3 DEF ScanKnows, Oversized, Size
    <3>2. Candidate = envelope + Size(index)
      BY <1>1, <1>2, <2>1, <2>3 DEF ScanKnows, Candidate, Separator, Size
    <3> QED
      BY <2>1, <3>1, <3>2 DEF FitsChunk
  <2>5. chunkStart < index /\ index \in 1..numEvents
    BY <1>1, <1>2, <2>1, <2>4 DEF ScanKnows
  <2>6. Candidate = Body(chunkStart, index + 1)
    <3>1. chunkSize = Body(chunkStart, index)
      BY <1>1, <2>1, <2>4 DEF ScanKnows
    <3>2. Separator = 1
      BY <1>2, <2>5 DEF Separator
    <3> QED
      BY <1>2, <2>3, <3>1, <3>2 DEF Candidate, Size, Body
  <2>7. Body(chunkStart, index + 1) > Limit
    BY <1>2, <2>1, <2>3, <2>6 DEF FitsChunk, Body
  <2> QED
    BY <2>1, <2>2, <2>5, <2>7, AppendGreedy
<1>5. CASE CloseLast
  <2>1. /\ numEvents \in 1..numEvents /\ chunkStart \in 0..numEvents /\ UNCHANGED input
        /\ ranges' = Append(ranges, Between(chunkStart, numEvents))
        /\ ~(numEvents < numEvents)
    BY <1>2, <1>5 DEF CloseLast
  <2> QED
    BY <2>1, AppendGreedy
<1>6. CASE UNCHANGED <<input, ranges>>
  BY <1>6 DEF RangesGreedy, Body, input
<1> QED
  BY <1>3, <1>4, <1>5, <1>6
     DEF Next, RefuseEnvelope, RefuseEvent, StartScan, Extend, WriteChunk, WriteFails,
         Finished, vars

\* The first events of two chunks are in different chunks of every division
\* within the limit: what is between them does not fit into one body.
LEMMA FirstsApart ==
  ASSUME SplitInv, RangesGreedy,
         NEW f \in Splits(1..numEvents), WithinLimit(f),
         NEW j \in 1..Len(ranges), NEW k \in 1..Len(ranges), j < k
  PROVE  f[ranges[j].first + 1] # f[ranges[k].first + 1]
<1> DEFINE a == ranges[j].first
           b == ranges[j].past
           c == ranges[k].first
<1>1. /\ ranges[j] \in [first : 0..numEvents, past : 0..numEvents]
      /\ ranges[k] \in [first : 0..numEvents, past : 0..numEvents]
  BY SeqElement DEF SplitInv, TypeOK
<1>2. a < b /\ b <= c /\ c < ranges[k].past
  BY DEF SplitInv, TypeOK, RangesTile
<1>3. TypeOK /\ numEvents \in Nat /\ Limit \in Nat
  BY InputFacts DEF SplitInv
<1>4. /\ a \in 0..numEvents /\ b \in 0..numEvents /\ c \in 0..numEvents
      /\ ranges[k].past \in 0..numEvents
  BY <1>1
<1>5. b < numEvents
  BY <1>2, <1>3, <1>4
<1>6. Body(a, b + 1) > Limit
  BY <1>5 DEF RangesGreedy
<1> HIDE DEF a, b, c
<1>7. /\ b + 1 \in 0..numEvents /\ c + 1 \in 0..numEvents
      /\ a <= a /\ a < b + 1 /\ b + 1 <= c + 1
  BY <1>2, <1>3, <1>4, <1>5
<1>8. Body(a, b + 1) <= Body(a, c + 1)
  BY <1>3, <1>4, <1>7, BodyGrows
<1>9. Body(a, b + 1) \in Int /\ Body(a, c + 1) \in Int
  BY <1>3, <1>4, <1>7, InputFacts
<1>10. ~(Body(a, c + 1) <= Limit)
  BY <1>3, <1>6, <1>8, <1>9
<1>11. /\ a + 1 \in 1..numEvents /\ c + 1 \in 1..numEvents /\ a + 1 <= c + 1
       /\ (a + 1) - 1 = a
  BY <1>2, <1>3, <1>4, <1>7
<1>12. f[a + 1] # f[c + 1]
  BY <1>10, <1>11 DEF WithinLimit
<1> QED
  BY <1>12 DEF a, c

\* Sending a payload in the greedy chunks takes the fewest requests that any
\* division within the limit takes: every chunk of it starts in another chunk
\* of the other one.
THEOREM GreedyIsFewest == Spec => []FewestChunks
<1>1. Init => RangesGreedy
  BY DEF Init, RangesGreedy
<1>2. SplitInv /\ RangesGreedy => FewestChunks
  <2> SUFFICES ASSUME SplitInv, RangesGreedy,
                      NEW f \in Splits(1..numEvents), WithinLimit(f)
               PROVE  Len(ranges) <= Cardinality({f[e] : e \in 1..numEvents})
    BY DEF FewestChunks
  <2> DEFINE S == 1..numEvents
             T == {f[e] : e \in 1..numEvents}
             K == 1..Len(ranges)
             g == [k \in K |-> f[ranges[k].first + 1]]
  <2>1. numEvents \in Nat /\ Len(ranges) \in Nat
    BY InputFacts DEF SplitInv, TypeOK
  <2>2. \A k \in K : ranges[k].first + 1 \in 1..numEvents
    <3> SUFFICES ASSUME NEW k \in K PROVE ranges[k].first + 1 \in 1..numEvents
      OBVIOUS
    <3>1. ranges[k] \in [first : 0..numEvents, past : 0..numEvents]
      BY SeqElement DEF SplitInv, TypeOK
    <3>2. ranges[k].first < ranges[k].past
      BY DEF SplitInv, TypeOK
    <3> QED
      BY <2>1, <3>1, <3>2
  <2>3. g \in [K -> T]
    BY <2>2
  <2>4. \A j, k \in K : j < k => g[j] # g[k]
    BY FirstsApart
  <2>5. \A j, k \in K : g[j] = g[k] => j = k
    <3> HIDE DEF g
    <3> QED
      BY <2>1, <2>4
  <2>6. g \in Injection(K, T)
    BY <2>3, <2>5 DEF Injection, IsInjective
  <2>7. IsFiniteSet(T)
    <3>1. T \subseteq S
      BY DEF Splits
    <3>2. IsFiniteSet(S)
      BY <2>1, FS_Interval
    <3> HIDE DEF S, T
    <3> QED
      BY <3>1, <3>2, FS_Subset
  <2>8. Cardinality(K) <= Cardinality(T)
    <3> HIDE DEF K, T, g
    <3> QED
      BY <2>6, <2>7, FS_Injection
  <2>9. Cardinality(K) = Len(ranges)
    <3> DEFINE n == Len(ranges)
    <3> HIDE DEF n, S, T, g
    <3>1. 1 \in Int /\ n \in Int /\ n \in Nat
      BY <2>1 DEF n
    <3>2. Cardinality(1..n) = IF 1 > n THEN 0 ELSE n - 1 + 1
      BY <3>1, FS_Interval
    <3>3. Cardinality(1..n) = n
      BY <3>1, <3>2
    <3> QED
      BY <3>3 DEF n
  <2> QED
    BY <2>8, <2>9
<1> QED
  BY <1>1, <1>2, GreedyStep, SplitInvariant, PTL DEF Spec
=============================================================================
