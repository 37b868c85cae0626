--------------------------- MODULE TelemetryProofs ---------------------------
(***************************************************************************)
(* What holds of telemetry and coverage files for every set of files,      *)
(* streams, facts, invocations, synchronisations and faults: nothing a     *)
(* tracer wrote is lost, facts stay with the file they were placed on, and *)
(* what is accepted more often than it was attached is accounted for.      *)
(***************************************************************************)
EXTENDS Telemetry, FiniteSetTheorems, TLAPS

Present(p) == disk[p] # NoFile
Stored == [batch : BOOLEAN, marked : BOOLEAN, holds : SUBSET Items]
Modes == {"none", "append", "synthetic"}

Shapes ==
  /\ disk \in [Paths -> Stored \cup {NoFile}]
  /\ seen \subseteq Paths /\ IsFiniteSet(seen) /\ version \in 1..MaxVersion
  /\ running \in BOOLEAN /\ keep \in BOOLEAN
  /\ delivered \in [Items -> Nat] /\ attached \in [Items -> Nat] /\ again \in [Items -> Nat]
  /\ \A p \in DOMAIN directives :
       /\ directives[p].mode \in Modes /\ directives[p].facts \subseteq Facts
       /\ directives[p].mode = "none" => directives[p].facts = {}
  /\ DOMAIN sent \subseteq {p \in DOMAIN directives : p \in Paths /\ Present(p)}
  /\ \A p \in DOMAIN sent : sent[p] \in Seq(BOOLEAN) /\ Len(sent[p]) <= Len(Requests(p))
  /\ ~running => DOMAIN sent = {}
  /\ accepted \subseteq Items \X Paths /\ placed \subseteq Items \X Paths

\* A file that was not replaced holds what its tracer wrote.
FilesHold ==
  \A p \in Paths : Present(p) =>
    p \in seen /\ (~disk[p].marked => disk[p].holds = {Own(p)})

\* The plan gives nothing to coverage files.
PlanForTelemetry ==
  \A p \in DOMAIN sent : directives[p].mode # "none" => Stream[p].kind = "telemetry"

\* What was accepted in this invocation is known.
AcceptedCounted ==
  \A p \in DOMAIN sent : \A i \in DeliveredOf(p) : <<i, p>> \in accepted

\* The items that requests for a file may contain in this invocation, and
\* later ones if it stays.
Given(p) == IF p \in DOMAIN sent THEN FactItems(p) ELSE {}
Due(p) == disk[p].holds \cup Given(p)

AcceptedNow(p) == IF p \in DOMAIN sent THEN DeliveredOf(p) ELSE {}

\* The files that may still bring an item to the intake.
Awaiting(i) == {p \in Paths : Present(p) /\ i \in Due(p) /\ i \notin AcceptedNow(p)}

\* Acceptances that have happened and those that may come are covered by the
\* times an item was attached and those its file had to stay with it.
Accounted ==
  \A i \in Items : delivered[i] + Cardinality(Awaiting(i)) <= attached[i] + again[i]

\* The facts placed on a file are where FactsKept says; if they are still to
\* be sent, the file's own content was accepted before.
PlacedWell(i, p) ==
  \/ <<i, p>> \in accepted \/ again[Own(p)] > 0
  \/ Present(p) /\ i \in disk[p].holds
  \/ p \in DOMAIN sent /\ i \in FactItems(p) /\ 1 \in Succeeded(p)

PlacedKnown == \A i \in Items, p \in Paths : <<i, p>> \in placed => PlacedWell(i, p)

\* What the tracer wrote is delivered or in its own file.
ContentKept ==
  \A p \in seen : <<Own(p), p>> \in accepted \/ (Present(p) /\ Own(p) \in disk[p].holds)

TelemetryInv ==
  /\ Shapes /\ FilesHold /\ PlanForTelemetry /\ AcceptedCounted
  /\ Accounted /\ PlacedKnown /\ ContentKept

-----------------------------------------------------------------------------
(* Counting                                                                *)

LEMMA NoMore ==
  ASSUME NEW S, IsFiniteSet(S), NEW T, T \subseteq S
  PROVE  Cardinality(T) \in Nat /\ Cardinality(S) \in Nat /\ Cardinality(T) <= Cardinality(S)
BY FS_Subset, FS_CardinalityType

LEMMA OneMore ==
  ASSUME NEW S, IsFiniteSet(S), NEW x, NEW T, T \subseteq S \cup {x}
  PROVE  /\ Cardinality(T) \in Nat /\ Cardinality(S) \in Nat
         /\ Cardinality(T) <= Cardinality(S) + 1
<1>1. IsFiniteSet(S \cup {x}) /\ Cardinality(S) \in Nat
  BY FS_AddElement, FS_CardinalityType
<1>2. Cardinality(S \cup {x}) <= Cardinality(S) + 1
  BY <1>1, FS_AddElement
<1>3. /\ Cardinality(T) \in Nat /\ Cardinality(S \cup {x}) \in Nat
      /\ Cardinality(T) <= Cardinality(S \cup {x})
  BY <1>1, NoMore
<1> QED
  BY <1>1, <1>2, <1>3

LEMMA OneLess ==
  ASSUME NEW S, IsFiniteSet(S), NEW x \in S, NEW T, T \subseteq S \ {x}
  PROVE  /\ Cardinality(T) \in Nat /\ Cardinality(S) \in Nat
         /\ Cardinality(T) + 1 <= Cardinality(S)
<1>1. IsFiniteSet(S \ {x}) /\ Cardinality(S) \in Nat
  BY FS_RemoveElement, FS_CardinalityType
<1>2. Cardinality(S \ {x}) = Cardinality(S) - 1
  BY FS_RemoveElement
<1>3. /\ Cardinality(T) \in Nat /\ Cardinality(T) <= Cardinality(S \ {x})
  BY <1>1, NoMore
<1> QED
  BY <1>1, <1>2, <1>3

LEMMA PlusCounts ==
  ASSUME NEW count \in [Items -> Nat], NEW items
  PROVE  /\ Plus(count, items) \in [Items -> Nat]
         /\ \A i \in Items : /\ count[i] \in Nat
                             /\ i \in items => Plus(count, items)[i] = count[i] + 1
                             /\ i \notin items => Plus(count, items)[i] = count[i]
<1>1. \A i \in Items : Plus(count, items)[i] = count[i] + IF i \in items THEN 1 ELSE 0
  BY DEF Plus
<1>2. \A i \in Items : count[i] \in Nat
  OBVIOUS
<1>3. \A i \in Items : count[i] + (IF i \in items THEN 1 ELSE 0) \in Nat
  BY <1>2
<1>4. Plus(count, items) \in [Items -> Nat]
  BY <1>3 DEF Plus
<1> QED
  BY <1>1, <1>2, <1>4

LEMMA AgainGrows ==
  ASSUME Shapes, NEW items, again' = Plus(again, items)
  PROVE  /\ again' \in [Items -> Nat]
         /\ \A i \in Items : i \in items => again'[i] = again[i] + 1
         /\ \A i \in Items : i \notin items => again'[i] = again[i]
         /\ \A i \in Items : again[i] > 0 \/ i \in items => again'[i] > 0
<1>1. again \in [Items -> Nat]
  BY DEF Shapes
<1>2. /\ Plus(again, items) \in [Items -> Nat]
      /\ \A i \in Items : /\ again[i] \in Nat
                          /\ i \in items => Plus(again, items)[i] = again[i] + 1
                          /\ i \notin items => Plus(again, items)[i] = again[i]
  BY <1>1, PlusCounts
<1>3. /\ again' \in [Items -> Nat]
      /\ \A i \in Items : /\ again[i] \in Nat
                          /\ i \in items => again'[i] = again[i] + 1
                          /\ i \notin items => again'[i] = again[i]
  BY <1>2
<1> QED
  BY <1>3

LEMMA AwaitingFinite == Shapes /\ FilesHold => \A i : IsFiniteSet(Awaiting(i))
<1> SUFFICES ASSUME Shapes, FilesHold, NEW i PROVE IsFiniteSet(Awaiting(i))
  OBVIOUS
<1>1. Awaiting(i) \subseteq seen
  BY DEF Awaiting, FilesHold
<1> QED
  BY <1>1, FS_Subset DEF Shapes

-----------------------------------------------------------------------------
(* Requests                                                                *)

LEMMA OwnIsItem == \A p \in Paths : Own(p) \in Items
BY TelemetryAssumption DEF Own, Items

\* What the requests of a file are, by the directive it heeds.
LEMMA RequestForms ==
  ASSUME NEW p
  PROVE  /\ Heeded(p).mode = "append" =>
              /\ Len(Requests(p)) = 1 /\ DOMAIN Requests(p) = {1}
              /\ Requests(p)[1].holds = disk[p].holds \cup FactItems(p)
              /\ Requests(p)[1].batch = disk[p].batch
         /\ Heeded(p).mode = "synthetic" =>
              /\ Len(Requests(p)) = 2 /\ DOMAIN Requests(p) = {1, 2}
              /\ Requests(p)[1].holds = disk[p].holds
              /\ Requests(p)[2].holds = FactItems(p)
              /\ Requests(p)[1].batch = disk[p].batch /\ Requests(p)[2].batch = TRUE
         /\ Heeded(p).mode \notin {"append", "synthetic"} =>
              /\ Len(Requests(p)) = 1 /\ DOMAIN Requests(p) = {1}
              /\ Requests(p)[1].holds = disk[p].holds
              /\ Requests(p)[1].batch = disk[p].batch
<1>1. CASE Heeded(p).mode = "append"
  <2>1. Requests(p) = <<[batch |-> disk[p].batch, holds |-> disk[p].holds \cup FactItems(p)]>>
    BY <1>1 DEF Requests
  <2> QED
    BY <1>1, <2>1
<1>2. CASE Heeded(p).mode = "synthetic"
  <2>1. Requests(p) = <<[batch |-> disk[p].batch, holds |-> disk[p].holds],
                        [batch |-> TRUE, holds |-> FactItems(p)]>>
    BY <1>2 DEF Requests
  <2> QED
    BY <1>2, <2>1
<1>3. CASE Heeded(p).mode \notin {"append", "synthetic"}
  <2>1. Requests(p) = <<[batch |-> disk[p].batch, holds |-> disk[p].holds]>>
    BY <1>3 DEF Requests
  <2> QED
    BY <1>3, <2>1
<1> QED
  BY <1>1, <1>2, <1>3

\* The directive of a file at work: facts go to a file that was not replaced.
LEMMA HeededForms ==
  ASSUME Shapes, FilesHold, NEW p \in DOMAIN sent
  PROVE  /\ p \in Paths /\ Present(p) /\ disk[p] \in Stored
         /\ Heeded(p).mode \in Modes
         /\ FactItems(p) \subseteq Items /\ Own(p) \notin FactItems(p)
         /\ Heeded(p).mode = "none" => FactItems(p) = {}
         /\ Heeded(p).mode # "none" => disk[p].holds = {Own(p)} /\ ~disk[p].marked
<1>1. p \in Paths /\ p \in DOMAIN directives /\ Present(p) /\ disk[p] \in Stored
  BY DEF Shapes, Present
<1>2. CASE Takes(p)
  <2>1. Heeded(p) = directives[p]
    BY <1>2 DEF Heeded
  <2>2. ~disk[p].marked /\ disk[p].holds = {Own(p)}
    BY <1>1, <1>2 DEF Takes, FilesHold
  <2>3. \A v \in 1..MaxVersion : \A f \in Facts : <<v, f>> \in Items /\ <<v, f>> # Own(p)
    BY TelemetryAssumption DEF Items, Own
  <2>4. FactItems(p) \subseteq Items /\ Own(p) \notin FactItems(p)
    BY <1>1, <2>1, <2>3 DEF FactItems, Shapes
  <2> QED
    BY <1>1, <2>1, <2>2, <2>4 DEF Shapes, FactItems
<1>3. CASE ~Takes(p)
  <2>1. Heeded(p).mode = "none" /\ Heeded(p).facts = {}
    BY <1>3 DEF Heeded, NoDirective
  <2> QED
    BY <1>1, <2>1 DEF FactItems, Modes
<1> QED
  BY <1>2, <1>3

\* The items of a request are those of the file and the facts given to it.
LEMMA RequestItems ==
  ASSUME Shapes, FilesHold, NEW p \in DOMAIN sent, NEW n \in DOMAIN Requests(p)
  PROVE  /\ Requests(p)[n].holds \subseteq disk[p].holds \cup FactItems(p)
         /\ Requests(p)[n].holds \subseteq Items /\ Requests(p)[n].holds \subseteq Due(p)
         /\ Requests(p)[n].batch \in BOOLEAN
         /\ n = 1 \/ (n = 2 /\ Heeded(p).mode = "synthetic")
<1>1. /\ disk[p].holds \subseteq Items /\ disk[p].batch \in BOOLEAN
      /\ FactItems(p) \subseteq Items /\ Heeded(p).mode \in Modes
  BY HeededForms DEF Stored
<1>2. /\ Requests(p)[n].holds \subseteq disk[p].holds \cup FactItems(p)
      /\ Requests(p)[n].batch \in BOOLEAN
      /\ n = 1 \/ (n = 2 /\ Heeded(p).mode = "synthetic")
  <2>1. CASE Heeded(p).mode = "append"
    BY <1>1, <2>1, RequestForms
  <2>2. CASE Heeded(p).mode = "synthetic"
    <3>1. n = 1 \/ n = 2
      BY <2>2, RequestForms
    <3> QED
      BY <1>1, <2>2, <3>1, RequestForms
  <2>3. CASE Heeded(p).mode = "none"
    BY <1>1, <2>3, RequestForms
  <2> QED
    BY <1>1, <2>1, <2>2, <2>3 DEF Modes
<1> QED
  BY <1>1, <1>2 DEF Due, Given

\* Two requests of one file have nothing in common.
LEMMA RequestsDisjoint ==
  ASSUME Shapes, FilesHold, NEW p \in DOMAIN sent, NEW n \in DOMAIN Requests(p),
         NEW m \in DOMAIN Requests(p), n # m
  PROVE  Requests(p)[n].holds \cap Requests(p)[m].holds = {}
<1>1. Heeded(p).mode = "synthetic"
  <2>1. Heeded(p).mode # "synthetic" => DOMAIN Requests(p) = {1}
    BY RequestForms
  <2> QED
    BY <2>1
<1>2. Requests(p)[1].holds = {Own(p)} /\ Requests(p)[2].holds = FactItems(p)
  BY <1>1, HeededForms, RequestForms
<1>3. Own(p) \notin FactItems(p)
  BY HeededForms
<1>4. (n = 1 /\ m = 2) \/ (n = 2 /\ m = 1)
  <2>1. DOMAIN Requests(p) = {1, 2}
    BY <1>1, RequestForms
  <2> QED
    BY <2>1
<1>5. Requests(p)[1].holds \cap Requests(p)[2].holds = {}
  BY <1>2, <1>3
<1> QED
  BY <1>4, <1>5

\* The file's own items are in its first request, the facts in the last.
LEMMA FirstAndLast ==
  ASSUME Shapes, FilesHold, NEW p \in DOMAIN sent
  PROVE  /\ 1 \in DOMAIN Requests(p) /\ disk[p].holds \subseteq Requests(p)[1].holds
         /\ \E n \in DOMAIN Requests(p) : FactItems(p) \subseteq Requests(p)[n].holds
         /\ \A n \in DOMAIN Requests(p) : n # 1 => FactItems(p) \subseteq Requests(p)[n].holds
         /\ FactItems(p) # {} => disk[p].holds = {Own(p)}
<1>1. CASE Heeded(p).mode = "append"
  <2>1. DOMAIN Requests(p) = {1} /\ Requests(p)[1].holds = disk[p].holds \cup FactItems(p)
    BY <1>1, RequestForms
  <2> QED
    BY <1>1, <2>1, HeededForms
<1>2. CASE Heeded(p).mode = "synthetic"
  <2>1. /\ DOMAIN Requests(p) = {1, 2} /\ Requests(p)[1].holds = disk[p].holds
        /\ Requests(p)[2].holds = FactItems(p)
    BY <1>2, RequestForms
  <2> QED
    BY <1>2, <2>1, HeededForms
<1>3. CASE Heeded(p).mode = "none"
  <2>1. DOMAIN Requests(p) = {1} /\ Requests(p)[1].holds = disk[p].holds
    BY <1>3, RequestForms
  <2>2. FactItems(p) = {}
    BY <1>3, HeededForms
  <2> QED
    BY <2>1, <2>2
<1> QED
  BY <1>1, <1>2, <1>3, HeededForms DEF Modes

LEMMA RequestCount == \A p : /\ Len(Requests(p)) \in {1, 2}
                             /\ DOMAIN Requests(p) = 1..Len(Requests(p))
<1> SUFFICES ASSUME NEW p
             PROVE  Len(Requests(p)) \in {1, 2} /\ DOMAIN Requests(p) = 1..Len(Requests(p))
  OBVIOUS
<1>1. 1..1 = {1} /\ 1..2 = {1, 2}
  OBVIOUS
<1>2. \/ Len(Requests(p)) = 1 /\ DOMAIN Requests(p) = {1}
      \/ Len(Requests(p)) = 2 /\ DOMAIN Requests(p) = {1, 2}
  BY RequestForms
<1> QED
  BY <1>1, <1>2

LEMMA RequestLengths == \A p : Len(Requests(p)) \in {1, 2}
BY RequestCount

LEMMA RequestLengthsNext == (\A p : Len(Requests(p)) \in {1, 2})'
BY RequestLengths, PTL

LEMMA SentShape ==
  ASSUME Shapes, NEW p \in DOMAIN sent
  PROVE  /\ sent[p] \in Seq(BOOLEAN) /\ Len(sent[p]) \in Nat
         /\ DOMAIN sent[p] = 1..Len(sent[p]) /\ DOMAIN sent[p] \subseteq DOMAIN Requests(p)
         /\ AllSent(p) => DOMAIN sent[p] = DOMAIN Requests(p)
         /\ Succeeded(p) \subseteq DOMAIN sent[p]
<1>1. sent[p] \in Seq(BOOLEAN) /\ Len(sent[p]) <= Len(Requests(p)) /\ Len(sent[p]) \in Nat
  BY DEF Shapes
<1>2. DOMAIN sent[p] = 1..Len(sent[p])
  BY <1>1
<1>3. DOMAIN Requests(p) = 1..Len(Requests(p)) /\ Len(Requests(p)) \in Nat
  BY RequestCount
<1>4. DOMAIN sent[p] \subseteq DOMAIN Requests(p)
  BY <1>1, <1>2, <1>3
<1>5. AllSent(p) => DOMAIN sent[p] = DOMAIN Requests(p)
  BY <1>2, <1>3 DEF AllSent
<1> QED
  BY <1>1, <1>2, <1>4, <1>5 DEF Succeeded

\* What was accepted of a file in this invocation are items it was given.
LEMMA DeliveredItems ==
  ASSUME Shapes, FilesHold, NEW p \in DOMAIN sent
  PROVE  DeliveredOf(p) \subseteq Items
<1> SUFFICES ASSUME NEW i \in DeliveredOf(p) PROVE i \in Items
  OBVIOUS
<1>1. PICK n \in Succeeded(p) : i \in Requests(p)[n].holds
  BY DEF DeliveredOf
<1>2. n \in DOMAIN Requests(p)
  BY SentShape
<1> QED
  BY <1>1, <1>2, RequestItems

\* Requests depend on the file, the plan and the synchronisation only, and
\* what was accepted on the outcomes, too.
LEMMA RequestsStay ==
  ASSUME NEW p, disk'[p] = disk[p], directives' = directives, version' = version
  PROVE  /\ Requests(p)' = Requests(p) /\ Heeded(p)' = Heeded(p)
         /\ FactItems(p)' = FactItems(p)
BY DEF Requests, Heeded, Takes, FactItems

LEMMA OutcomesStay ==
  ASSUME NEW p, disk'[p] = disk[p], directives' = directives, version' = version,
         sent'[p] = sent[p]
  PROVE  Succeeded(p)' = Succeeded(p) /\ DeliveredOf(p)' = DeliveredOf(p)
<1>1. Succeeded(p)' = Succeeded(p)
  BY DEF Succeeded
<1>2. Requests(p)' = Requests(p)
  BY RequestsStay
<1> QED
  BY <1>1, <1>2 DEF DeliveredOf

-----------------------------------------------------------------------------
(* Beginning                                                               *)

LEMMA InitTelemetry == Init => TelemetryInv
<1> SUFFICES ASSUME Init PROVE TelemetryInv
  OBVIOUS
<1>1. DOMAIN sent = {} /\ DOMAIN directives = {}
  BY DEF Init
<1>2. /\ disk = [p \in Paths |-> NoFile] /\ seen = {} /\ accepted = {} /\ placed = {}
      /\ \A i \in Items : delivered[i] = 0 /\ attached[i] = 0 /\ again[i] = 0
  BY DEF Init
<1>3. Shapes
  <2>1. /\ disk \in [Paths -> Stored \cup {NoFile}]
        /\ delivered \in [Items -> Nat] /\ attached \in [Items -> Nat] /\ again \in [Items -> Nat]
    BY DEF Init
  <2>2. version \in 1..MaxVersion /\ IsFiniteSet(seen)
    BY <1>2, TelemetryAssumption, FS_EmptySet DEF Init
  <2> QED
    BY <1>1, <1>2, <2>1, <2>2 DEF Init, Shapes
<1>4. FilesHold /\ PlanForTelemetry /\ AcceptedCounted /\ PlacedKnown /\ ContentKept
  BY <1>1, <1>2
     DEF FilesHold, PlanForTelemetry, AcceptedCounted, PlacedKnown, ContentKept, Present
<1>5. Accounted
  <2>1. \A i : Awaiting(i) = {}
    BY <1>2 DEF Awaiting, Present
  <2> QED
    BY <1>2, <2>1, FS_EmptySet DEF Accounted
<1> QED
  BY <1>3, <1>4, <1>5 DEF TelemetryInv

LEMMA WriteKeepsTelemetry ==
  ASSUME TelemetryInv, NEW p \in Paths, Write(p)
  PROVE  TelemetryInv'
<1> USE DEF TelemetryInv
<1>1. /\ UNCHANGED <<version, running, keep, directives, sent, delivered, accepted, placed, again>>
      /\ seen' = seen \cup {p} /\ p \notin seen /\ ~running
      /\ attached' = Plus(attached, {Own(p)})
      /\ disk' = [disk EXCEPT ![p] = [batch |-> Stream[p].batch, marked |-> FALSE,
                                      holds |-> {Own(p)}]]
  BY DEF Write, intake
<1>2. DOMAIN sent = {} /\ DOMAIN sent' = {}
  BY <1>1 DEF Shapes
<1>3. /\ disk'[p] = [batch |-> Stream[p].batch, marked |-> FALSE, holds |-> {Own(p)}]
      /\ \A q \in Paths \ {p} : disk'[q] = disk[q]
  BY <1>1 DEF Shapes
<1>4. disk'[p] \in Stored /\ disk'[p] # NoFile
  <2>1. {Own(p)} \in SUBSET Items /\ Stream[p].batch \in BOOLEAN
    BY OwnIsItem, TelemetryAssumption
  <2>2. disk'[p] \in Stored
    BY <1>3, <2>1 DEF Stored
  <2> QED
    BY <2>2, TelemetryAssumption DEF Stored
<1>5. /\ attached' \in [Items -> Nat]
      /\ attached'[Own(p)] = attached[Own(p)] + 1
      /\ \A i \in Items \ {Own(p)} : attached'[i] = attached[i]
  <2>1. attached \in [Items -> Nat] /\ Own(p) \in Items
    BY OwnIsItem DEF Shapes
  <2> DEFINE own == {Own(p)}
  <2>2. attached' = Plus(attached, own)
    BY <1>1
  <2>3. Own(p) \in own /\ \A i \in Items \ {Own(p)} : i \notin own
    OBVIOUS
  <2> HIDE DEF own
  <2> QED
    BY <2>1, <2>2, <2>3, PlusCounts
<1>6. Shapes'
  <2>1. IsFiniteSet(seen') /\ seen' \subseteq Paths
    BY <1>1, FS_AddElement DEF Shapes
  <2> QED
    BY <1>1, <1>2, <1>4, <1>5, <2>1 DEF Shapes
<1>7. FilesHold'
  BY <1>1, <1>3, <1>4 DEF FilesHold, Present
<1>8. PlanForTelemetry' /\ AcceptedCounted'
  BY <1>2 DEF PlanForTelemetry, AcceptedCounted
<1>9. Accounted'
  <2> SUFFICES ASSUME NEW i \in Items
               PROVE  delivered[i] + Cardinality(Awaiting(i)') <= attached'[i] + again[i]
    BY <1>1 DEF Accounted
  <2>1. IsFiniteSet(Awaiting(i))
    BY AwaitingFinite
  <2>2. delivered[i] + Cardinality(Awaiting(i)) <= attached[i] + again[i]
    BY DEF Accounted
  <2>3. delivered[i] \in Nat /\ attached[i] \in Nat /\ again[i] \in Nat
    BY DEF Shapes
  <2>4. \A q : Given(q) = {} /\ Given(q)' = {} /\ AcceptedNow(q) = {}
    BY <1>2 DEF Given, AcceptedNow
  <2>5. Awaiting(i)' \subseteq Awaiting(i) \cup {p}
    BY <1>3, <2>4 DEF Awaiting, Present, Due
  <2>6. CASE i = Own(p)
    BY <1>5, <2>1, <2>2, <2>3, <2>5, <2>6, OneMore
  <2>7. CASE i # Own(p)
    <3>1. Awaiting(i)' \subseteq Awaiting(i)
      BY <1>3, <2>4, <2>5, <2>7 DEF Awaiting, Due
    <3> QED
      BY <1>5, <2>1, <2>2, <2>3, <2>7, <3>1, NoMore
  <2> QED
    BY <2>6, <2>7
<1>10. PlacedKnown'
  <2>1. Present(p) => FALSE
    BY <1>1 DEF FilesHold
  <2> QED
    BY <1>1, <1>2, <1>3, <2>1 DEF PlacedKnown, PlacedWell, Present
<1>11. ContentKept'
  <2>1. Present(p)' /\ Own(p) \in disk'[p].holds
    BY <1>3, <1>4 DEF Present
  <2>2. ASSUME NEW q \in seen
        PROVE  <<Own(q), q>> \in accepted \/ (Present(q)' /\ Own(q) \in disk'[q].holds)
    BY <1>1, <1>3 DEF ContentKept, Shapes, Present
  <2> QED
    BY <1>1, <2>1, <2>2 DEF ContentKept
<1> QED
  BY <1>6, <1>7, <1>8, <1>9, <1>10, <1>11

LEMMA RenewKeepsTelemetry ==
  ASSUME TelemetryInv, Renew
  PROVE  TelemetryInv'
<1> USE DEF TelemetryInv
<1>1. /\ UNCHANGED <<disk, seen, running, keep, directives, sent, delivered, accepted, placed,
                     attached, again>>
      /\ version' \in 1..MaxVersion /\ ~running
  BY TelemetryAssumption DEF Renew, Shapes, intake
<1>2. DOMAIN sent = {} /\ DOMAIN sent' = {}
  BY <1>1 DEF Shapes
<1>3. Shapes'
  BY <1>1, <1>2 DEF Shapes, Present
<1>4. FilesHold' /\ PlanForTelemetry' /\ AcceptedCounted' /\ ContentKept'
  BY <1>1, <1>2 DEF FilesHold, PlanForTelemetry, AcceptedCounted, ContentKept, Present
<1>5. PlacedKnown'
  BY <1>1, <1>2 DEF PlacedKnown, PlacedWell, Present
<1>6. Accounted'
  <2>1. \A q : Given(q) = {} /\ Given(q)' = {} /\ AcceptedNow(q) = {} /\ AcceptedNow(q)' = {}
    BY <1>2 DEF Given, AcceptedNow
  <2>2. \A i : Awaiting(i)' = Awaiting(i)
    BY <1>1, <2>1 DEF Awaiting, Present, Due
  <2> QED
    BY <1>1, <2>2 DEF Accounted
<1> QED
  BY <1>3, <1>4, <1>5, <1>6

\* Facts are of one language of their service.
LEMMA OneLanguage ==
  ASSUME Shapes, FilesHold, NEW fact, NEW a \in LanguagesOf(fact), NEW b \in LanguagesOf(fact)
  PROVE  a = b
<1> DEFINE speakers == {s \in Sources : Stream[s].service = fact.service}
           languages == {Stream[p].language : p \in speakers}
<1>1. LanguagesOf(fact) = IF Cardinality(languages) <= 1 THEN languages
                          ELSE languages \cap {fact.runtime}
  BY DEF LanguagesOf
<1>2. IsFiniteSet(languages)
  <2>1. speakers \subseteq seen
    BY DEF Sources, FilesHold, Present
  <2>2. IsFiniteSet(speakers)
    BY <2>1, FS_Subset DEF Shapes
  <2> DEFINE f == [s \in speakers |-> Stream[s].language]
  <2>3. f \in Surjection(speakers, languages)
    BY DEF Surjection
  <2> HIDE DEF speakers, languages, f
  <2> QED
    BY <2>2, <2>3, FS_Surjection
<1> HIDE DEF languages
<1>3. CASE Cardinality(languages) <= 1
  <2>1. a \in languages /\ b \in languages
    BY <1>1, <1>3
  <2>2. Cardinality(languages) \in Nat
    BY <1>2, FS_CardinalityType
  <2>3. Cardinality(languages) = 0 => languages = {}
    BY <1>2, FS_EmptySet
  <2>4. Cardinality(languages) = 1
    BY <1>3, <2>1, <2>2, <2>3
  <2>5. \E x : languages = {x}
    BY <1>2, <2>4, FS_Singleton
  <2> QED
    BY <2>1, <2>5
<1>4. CASE ~(Cardinality(languages) <= 1)
  BY <1>1, <1>4
<1> QED
  BY <1>3, <1>4

\* A plan gives facts to one file.
LEMMA OneAnchor ==
  ASSUME Shapes, FilesHold, NEW fact, NEW p, NEW q,
         fact \in Directive(p).facts, fact \in Directive(q).facts
  PROVE  p = q
<1>1. \A r : fact \in Directive(r).facts =>
        /\ fact \in FactsOf(Stream[r].service, Stream[r].language)
        /\ r = Anchor(Group(Stream[r].service, Stream[r].language))
  BY DEF Directive, NoDirective, Messages
<1>2. \A r : fact \in Directive(r).facts =>
        Stream[r].service = fact.service /\ Stream[r].language \in LanguagesOf(fact)
  BY <1>1 DEF FactsOf
<1>3. Stream[p].language = Stream[q].language /\ Stream[p].service = Stream[q].service
  BY <1>2, OneLanguage
<1> QED
  BY <1>1, <1>3

LEMMA BeginKeepsTelemetry ==
  ASSUME TelemetryInv, Begin
  PROVE  TelemetryInv'
<1> USE DEF TelemetryInv
<1> DEFINE takers == {p \in Paths : Present(p) /\ Takes(p) /\ Own(p) \in disk[p].holds}
           items == {version} \X UNION {Directive(p).facts : p \in takers}
<1>1. /\ UNCHANGED <<disk, seen, version, delivered, accepted, placed, again>>
      /\ running' = TRUE /\ ~running /\ keep' \in BOOLEAN
      /\ sent' = [p \in {q \in Paths : Present(q)} |-> <<>>]
      /\ directives' = [p \in {q \in Paths : Present(q)} |-> Directive(p)]
  BY DEF Begin, Present, intake
<1>2. attached' = Plus(attached, items)
  <2>1. takers = {p \in {q \in Paths : disk[q] # NoFile} : Takes(p) /\ Own(p) \in disk[p].holds}
    BY DEF Present
  <2> HIDE DEF takers
  <2> QED
    BY <2>1 DEF Begin
<1>3. DOMAIN sent = {}
  BY <1>1 DEF Shapes
<1>4. ASSUME NEW p \in DOMAIN sent'
      PROVE  /\ p \in Paths /\ Present(p) /\ sent'[p] = <<>>
             /\ Succeeded(p)' = {} /\ DeliveredOf(p)' = {}
  <2>1. p \in Paths /\ Present(p) /\ sent'[p] = <<>>
    BY <1>1
  <2>2. Succeeded(p)' = {}
    BY <2>1 DEF Succeeded
  <2> QED
    BY <2>1, <2>2 DEF DeliveredOf
<1>5. \A p : /\ Directive(p).mode \in Modes /\ Directive(p).facts \subseteq Facts
             /\ Directive(p).mode = "none" => Directive(p).facts = {}
             /\ Directive(p).mode # "none" => Stream[p].kind = "telemetry"
  BY DEF Directive, NoDirective, Messages, Modes, Sources, FactsOf
<1> HIDE DEF items
<1>6. /\ attached' \in [Items -> Nat]
      /\ \A i \in Items : i \in items => attached'[i] = attached[i] + 1
      /\ \A i \in Items : i \notin items => attached'[i] = attached[i]
  BY <1>2, PlusCounts DEF Shapes
<1>7. Shapes'
  <2>1. \A p \in DOMAIN sent' : sent'[p] \in Seq(BOOLEAN) /\ Len(sent'[p]) <= Len(Requests(p)')
    <3> SUFFICES ASSUME NEW p \in DOMAIN sent'
                 PROVE  sent'[p] \in Seq(BOOLEAN) /\ Len(sent'[p]) <= Len(Requests(p)')
      OBVIOUS
    <3>1. Len(Requests(p)') \in {1, 2}
      BY RequestLengthsNext
    <3>2. sent'[p] = <<>>
      BY <1>4
    <3>3. sent'[p] \in Seq(BOOLEAN) /\ Len(sent'[p]) = 0
      BY <3>2
    <3> QED
      BY <3>1, <3>3
  <2>2. \A p \in DOMAIN directives' :
          /\ directives'[p].mode \in Modes /\ directives'[p].facts \subseteq Facts
          /\ directives'[p].mode = "none" => directives'[p].facts = {}
    BY <1>1, <1>5
  <2>3. DOMAIN sent' \subseteq {p \in DOMAIN directives' : p \in Paths /\ Present(p)'}
    BY <1>1 DEF Present
  <2> QED
    BY <1>1, <1>6, <2>1, <2>2, <2>3 DEF Shapes
<1>8. FilesHold' /\ ContentKept'
  BY <1>1 DEF FilesHold, ContentKept, Present
<1>9. PlanForTelemetry'
  BY <1>1, <1>5 DEF PlanForTelemetry
<1>10. AcceptedCounted'
  BY <1>4 DEF AcceptedCounted
<1>11. PlacedKnown'
  BY <1>1, <1>3 DEF PlacedKnown, PlacedWell, Present
<1>12. Accounted'
  <2> SUFFICES ASSUME NEW i \in Items
               PROVE  delivered[i] + Cardinality(Awaiting(i)') <= attached'[i] + again[i]
    BY <1>1 DEF Accounted
  <2>1. IsFiniteSet(Awaiting(i))
    BY AwaitingFinite
  <2>2. delivered[i] + Cardinality(Awaiting(i)) <= attached[i] + again[i]
    BY DEF Accounted
  <2>3. delivered[i] \in Nat /\ attached[i] \in Nat /\ again[i] \in Nat
    BY DEF Shapes
  <2>4. \A p : Given(p) = {} /\ AcceptedNow(p) = {} /\ AcceptedNow(p)' = {}
    BY <1>3, <1>4 DEF Given, AcceptedNow
  <2>5. ASSUME NEW p \in Awaiting(i)', p \notin Awaiting(i)
        PROVE  /\ i[1] = version /\ i[2] \in Directive(p).facts
               /\ p \in takers
    <3>1. p \in Paths /\ Present(p) /\ i \in Given(p)' /\ p \in DOMAIN sent'
      BY <1>1, <2>4, <2>5 DEF Awaiting, Present, Due, Given
    <3>2. i \in FactItems(p)'
      BY <3>1 DEF Given
    <3>3. i[1] = version /\ i[2] \in Heeded(p)'.facts
      BY <1>1, <3>2 DEF FactItems
    <3>4. Takes(p)' /\ Heeded(p)' = directives'[p]
      BY <3>3 DEF Heeded, NoDirective
    <3>5. Takes(p) /\ disk[p].holds = {Own(p)}
      BY <1>1, <3>1, <3>4 DEF Takes, FilesHold
    <3> QED
      BY <1>1, <3>1, <3>3, <3>4, <3>5
  <2>6. CASE \E p : p \in Awaiting(i)' /\ p \notin Awaiting(i)
    <3>1. PICK p : p \in Awaiting(i)' /\ p \notin Awaiting(i)
      BY <2>6
    <3>2. Awaiting(i)' \subseteq Awaiting(i) \cup {p}
      BY <2>5, <3>1, OneAnchor
    <3>3. i \in items
      <4>1. i = <<i[1], i[2]>>
        BY DEF Items
      <4>2. i[1] = version /\ i[2] \in Directive(p).facts /\ p \in takers
        BY <2>5, <3>1
      <4>3. i[2] \in UNION {Directive(q).facts : q \in takers}
        BY <4>2
      <4>4. items = {version} \X UNION {Directive(q).facts : q \in takers}
        BY DEF items
      <4> HIDE DEF takers
      <4> QED
        BY <4>1, <4>2, <4>3, <4>4
    <3>4. attached'[i] = attached[i] + 1
      BY <1>6, <3>3
    <3>5. /\ Cardinality(Awaiting(i)') \in Nat /\ Cardinality(Awaiting(i)) \in Nat
          /\ Cardinality(Awaiting(i)') <= Cardinality(Awaiting(i)) + 1
      BY <2>1, <3>2, OneMore
    <3> QED
      BY <2>2, <2>3, <3>4, <3>5
  <2>7. CASE ~\E p : p \in Awaiting(i)' /\ p \notin Awaiting(i)
    <3>1. Awaiting(i)' \subseteq Awaiting(i)
      BY <2>7
    <3>2. attached'[i] \in Nat /\ attached[i] <= attached'[i]
      BY <1>6, <2>3
    <3>3. /\ Cardinality(Awaiting(i)') \in Nat /\ Cardinality(Awaiting(i)) \in Nat
          /\ Cardinality(Awaiting(i)') <= Cardinality(Awaiting(i))
      BY <2>1, <3>1, NoMore
    <3> QED
      BY <2>2, <2>3, <3>2, <3>3
  <2> QED
    BY <2>6, <2>7
<1> QED
  BY <1>7, <1>8, <1>9, <1>10, <1>11, <1>12

-----------------------------------------------------------------------------
(* Files at work                                                           *)

\* The request that is sent next.
LEMMA NextRequest ==
  ASSUME Shapes, FilesHold, NEW p \in Paths, Sending(p)
  PROVE  /\ p \in DOMAIN sent /\ running
         /\ Len(sent[p]) + 1 \in DOMAIN Requests(p) /\ Len(sent[p]) + 1 \notin DOMAIN sent[p]
         /\ Body(p) \subseteq Items /\ Body(p) \subseteq Due(p)
         /\ Body(p) \cap DeliveredOf(p) = {}
         /\ disk[p].holds \subseteq Body(p) \/ FactItems(p) \subseteq Body(p)
         /\ Len(sent[p]) + 1 # 1 => FactItems(p) \subseteq Body(p)
         /\ FactItems(p) # {} => disk[p].holds = {Own(p)}
<1> DEFINE n == Len(sent[p]) + 1
<1>1. p \in DOMAIN sent /\ running /\ Len(sent[p]) < Len(Requests(p))
  BY DEF Sending, Active
<1>2. n \in DOMAIN Requests(p) /\ n \notin DOMAIN sent[p]
  BY <1>1, SentShape, RequestCount
<1>3. Body(p) = Requests(p)[n].holds
  BY DEF Body
<1> HIDE DEF n
<1>4. Body(p) \cap DeliveredOf(p) = {}
  <2>1. \A m \in Succeeded(p) : m \in DOMAIN Requests(p) /\ m # n
    BY <1>1, <1>2, SentShape
  <2>2. \A m \in Succeeded(p) : Requests(p)[m].holds \cap Body(p) = {}
    BY <1>1, <1>2, <1>3, <2>1, RequestsDisjoint
  <2> QED
    BY <2>2 DEF DeliveredOf
<1>5. Body(p) \subseteq Items /\ Body(p) \subseteq Due(p)
  BY <1>1, <1>2, <1>3, RequestItems
<1>6. /\ n # 1 => FactItems(p) \subseteq Body(p)
      /\ n = 1 => disk[p].holds \subseteq Body(p)
      /\ FactItems(p) # {} => disk[p].holds = {Own(p)}
  BY <1>1, <1>2, <1>3, FirstAndLast
<1> QED
  BY <1>1, <1>2, <1>4, <1>5, <1>6 DEF n

\* What the acceptance of a request changes.
LEMMA Accepting ==
  ASSUME Shapes, FilesHold, NEW p \in Paths, Sending(p), Accepts(p)
  PROVE  /\ delivered' \in [Items -> Nat]
         /\ \A i \in Items : i \in Body(p) => delivered'[i] = delivered[i] + 1
         /\ \A i \in Items : i \notin Body(p) => delivered'[i] = delivered[i]
         /\ accepted \subseteq accepted' /\ accepted' \subseteq Items \X Paths
         /\ \A i \in Body(p) : <<i, p>> \in accepted'
         /\ placed' \subseteq Items \X Paths
         /\ \A i, q : <<i, q>> \in placed' =>
              <<i, q>> \in placed \/ (q = p /\ i \in FactItems(p))
<1>1. delivered \in [Items -> Nat] /\ delivered' = Plus(delivered, Body(p))
  BY DEF Shapes, Accepts
<1>2. /\ delivered' \in [Items -> Nat]
      /\ \A i \in Items : i \in Body(p) => delivered'[i] = delivered[i] + 1
      /\ \A i \in Items : i \notin Body(p) => delivered'[i] = delivered[i]
  BY <1>1, PlusCounts
<1>3. Body(p) \subseteq Items /\ FactItems(p) \subseteq Items
  BY NextRequest, HeededForms
<1>4. accepted' = accepted \cup (Body(p) \X {p}) /\ placed' = placed \cup (FactItems(p) \X {p})
  BY DEF Accepts
<1> QED
  BY <1>2, <1>3, <1>4 DEF Shapes

\* The next request of p and its outcome.
LEMMA SendKeepsTelemetry ==
  ASSUME TelemetryInv, NEW p \in Paths, Send(p)
  PROVE  TelemetryInv'
<1> USE DEF TelemetryInv
<1> DEFINE n == Len(sent[p]) + 1
<1>1. Sending(p) /\ UNCHANGED <<disk, seen, version, running, keep, directives, attached, again>>
  BY DEF Send, planned
<1>2. PICK ok \in BOOLEAN :
        /\ sent' = [sent EXCEPT ![p] = Append(@, ok)]
        /\ IF ok THEN Accepts(p) ELSE UNCHANGED intake
  BY DEF Send
<1>3. /\ p \in DOMAIN sent /\ running /\ Len(sent[p]) < Len(Requests(p))
      /\ n \in DOMAIN Requests(p) /\ n \notin DOMAIN sent[p]
      /\ Body(p) = Requests(p)[n].holds
  BY <1>1, NextRequest DEF Sending, Body
<1>4. /\ sent[p] \in Seq(BOOLEAN) /\ Len(sent[p]) \in Nat
      /\ DOMAIN sent[p] = 1..Len(sent[p]) /\ Len(Requests(p)) \in Nat
  BY <1>3, SentShape, RequestCount
<1>5. /\ DOMAIN sent' = DOMAIN sent /\ sent'[p] = Append(sent[p], ok)
      /\ \A q \in DOMAIN sent \ {p} : sent'[q] = sent[q]
  BY <1>2, <1>3
<1>6. \A q : Requests(q)' = Requests(q) /\ FactItems(q)' = FactItems(q)
  BY <1>1, RequestsStay
<1>7. Succeeded(p)' = Succeeded(p) \cup (IF ok THEN {n} ELSE {})
  <2>1. DOMAIN sent'[p] = DOMAIN sent[p] \cup {n}
    BY <1>4, <1>5
  <2>2. sent'[p][n] = ok /\ \A i \in DOMAIN sent[p] : sent'[p][i] = sent[p][i]
    BY <1>4, <1>5
  <2> QED
    BY <1>3, <2>1, <2>2 DEF Succeeded
<1>8. DeliveredOf(p)' = DeliveredOf(p) \cup (IF ok THEN Body(p) ELSE {})
  BY <1>3, <1>6, <1>7 DEF DeliveredOf
<1>9. \A q \in DOMAIN sent \ {p} : Succeeded(q)' = Succeeded(q) /\ DeliveredOf(q)' = DeliveredOf(q)
  BY <1>1, <1>5, OutcomesStay
<1>10. /\ delivered' \in [Items -> Nat]
       /\ \A i \in Items : ok /\ i \in Body(p) => delivered'[i] = delivered[i] + 1
       /\ \A i \in Items : ~(ok /\ i \in Body(p)) => delivered'[i] = delivered[i]
       /\ accepted \subseteq accepted' /\ accepted' \subseteq Items \X Paths
       /\ ok => \A i \in Body(p) : <<i, p>> \in accepted'
       /\ placed' \subseteq Items \X Paths
       /\ \A i, q : <<i, q>> \in placed' =>
            <<i, q>> \in placed \/ (q = p /\ i \in FactItems(p) /\ ok)
  <2>1. CASE ok
    BY <1>1, <1>2, <2>1, Accepting
  <2>2. CASE ~ok
    BY <1>2, <2>2 DEF Shapes, intake
  <2> QED
    BY <2>1, <2>2
<1>11. Shapes'
  <2>1. Append(sent[p], ok) \in Seq(BOOLEAN) /\ Len(Append(sent[p], ok)) = Len(sent[p]) + 1
    BY <1>4
  <2>2. Len(sent'[p]) <= Len(Requests(p)')
    BY <1>3, <1>4, <1>5, <1>6, <2>1
  <2>3. \A q \in DOMAIN sent' : sent'[q] \in Seq(BOOLEAN) /\ Len(sent'[q]) <= Len(Requests(q)')
    BY <1>5, <1>6, <2>1, <2>2 DEF Shapes
  <2> HIDE DEF n
  <2> QED
    BY <1>1, <1>3, <1>5, <1>10, <2>3 DEF Shapes, Present
<1> HIDE DEF n
<1>12. FilesHold' /\ PlanForTelemetry'
  BY <1>1, <1>5 DEF FilesHold, PlanForTelemetry, Present
<1>13. AcceptedCounted'
  <2> SUFFICES ASSUME NEW q \in DOMAIN sent, NEW i \in DeliveredOf(q)' PROVE <<i, q>> \in accepted'
    BY <1>5 DEF AcceptedCounted
  <2>1. CASE i \in DeliveredOf(q)
    BY <1>10, <2>1 DEF AcceptedCounted
  <2>2. CASE i \notin DeliveredOf(q)
    <3>1. q = p
      BY <1>9, <2>2
    <3> QED
      BY <1>8, <1>10, <2>2, <3>1
  <2> QED
    BY <2>1, <2>2
<1>14. /\ \A q : Due(q)' = Due(q) /\ Present(q)' = Present(q)
       /\ \A q : q # p => AcceptedNow(q)' = AcceptedNow(q)
       /\ AcceptedNow(p) = DeliveredOf(p) /\ AcceptedNow(p)' = DeliveredOf(p)'
  BY <1>1, <1>3, <1>5, <1>6, <1>9 DEF Due, Given, Present, AcceptedNow
<1>15. Accounted'
  <2> SUFFICES ASSUME NEW i \in Items
               PROVE  delivered'[i] + Cardinality(Awaiting(i)') <= attached[i] + again[i]
    BY <1>1 DEF Accounted
  <2>1. IsFiniteSet(Awaiting(i))
    BY AwaitingFinite
  <2>2. delivered[i] + Cardinality(Awaiting(i)) <= attached[i] + again[i]
    BY DEF Accounted
  <2>3. delivered[i] \in Nat /\ attached[i] \in Nat /\ again[i] \in Nat
    BY DEF Shapes
  <2>4. CASE ok /\ i \in Body(p)
    <3>1. Body(p) \subseteq Due(p) /\ Body(p) \cap DeliveredOf(p) = {} /\ Present(p)
      BY <1>1, <1>3, NextRequest DEF Shapes
    <3>2. p \in Awaiting(i)
      BY <1>14, <2>4, <3>1 DEF Awaiting
    <3>3. Awaiting(i)' \subseteq Awaiting(i) \ {p}
      BY <1>8, <1>14, <2>4 DEF Awaiting
    <3>4. /\ Cardinality(Awaiting(i)') \in Nat /\ Cardinality(Awaiting(i)) \in Nat
          /\ Cardinality(Awaiting(i)') + 1 <= Cardinality(Awaiting(i))
      BY <2>1, <3>2, <3>3, OneLess
    <3>5. delivered'[i] = delivered[i] + 1
      BY <1>10, <2>4
    <3> QED
      BY <2>2, <2>3, <3>4, <3>5
  <2>5. CASE ~(ok /\ i \in Body(p))
    <3>1. i \in DeliveredOf(p)' <=> i \in DeliveredOf(p)
      BY <1>8, <2>5
    <3>2. Awaiting(i)' = Awaiting(i)
      BY <1>14, <3>1 DEF Awaiting
    <3>3. delivered'[i] = delivered[i]
      BY <1>10, <2>5
    <3> QED
      BY <2>2, <3>2, <3>3
  <2> QED
    BY <2>4, <2>5
<1>16. PlacedKnown'
  <2> SUFFICES ASSUME NEW i \in Items, NEW q \in Paths, <<i, q>> \in placed'
               PROVE  PlacedWell(i, q)'
    BY DEF PlacedKnown
  <2>1. CASE <<i, q>> \in placed
    <3>1. PlacedWell(i, q)
      BY <2>1 DEF PlacedKnown
    <3>2. q \in DOMAIN sent /\ 1 \in Succeeded(q) => 1 \in Succeeded(q)'
      BY <1>7, <1>9
    <3> QED
      BY <1>1, <1>5, <1>6, <1>10, <1>14, <3>1, <3>2 DEF PlacedWell
  <2>2. CASE <<i, q>> \notin placed
    <3>1. q = p /\ i \in FactItems(p) /\ ok
      BY <1>10, <2>2
    <3>2. CASE n = 1
      BY <1>3, <1>5, <1>6, <1>7, <3>1, <3>2 DEF PlacedWell
    <3>3. CASE n # 1
      <4>1. FactItems(p) \subseteq Body(p)
        BY <1>1, <3>3, NextRequest DEF n
      <4> QED
        BY <1>10, <3>1, <4>1 DEF PlacedWell
    <3> QED
      BY <3>2, <3>3
  <2> QED
    BY <2>1, <2>2
<1>17. ContentKept'
  BY <1>1, <1>10, <1>14 DEF ContentKept
<1> QED
  BY <1>11, <1>12, <1>13, <1>15, <1>16, <1>17

\* An accepted request whose answer is lost.
LEMMA AnswerLostKeepsTelemetry ==
  ASSUME TelemetryInv, NEW p \in Paths, AnswerLost(p)
  PROVE  TelemetryInv'
<1> USE DEF TelemetryInv
<1>1. /\ Sending(p) /\ Accepts(p) /\ again' = Plus(again, Body(p))
      /\ UNCHANGED <<disk, seen, version, running, keep, directives, attached, sent>>
  BY DEF AnswerLost, planned
<1>2. /\ delivered' \in [Items -> Nat]
      /\ \A i \in Items : i \in Body(p) => delivered'[i] = delivered[i] + 1
      /\ \A i \in Items : i \notin Body(p) => delivered'[i] = delivered[i]
      /\ accepted \subseteq accepted' /\ accepted' \subseteq Items \X Paths
      /\ \A i \in Body(p) : <<i, p>> \in accepted'
      /\ placed' \subseteq Items \X Paths
      /\ \A i, q : <<i, q>> \in placed' =>
           <<i, q>> \in placed \/ (q = p /\ i \in FactItems(p))
  BY <1>1, Accepting
<1>3. /\ again' \in [Items -> Nat]
      /\ \A i \in Items : i \in Body(p) => again'[i] = again[i] + 1
      /\ \A i \in Items : i \notin Body(p) => again'[i] = again[i]
      /\ \A i \in Items : again[i] > 0 \/ i \in Body(p) => again'[i] > 0
  <2> DEFINE body == Body(p)
  <2>1. again' = Plus(again, body)
    BY <1>1
  <2> HIDE DEF body
  <2>2. /\ again' \in [Items -> Nat]
        /\ \A i \in Items : i \in body => again'[i] = again[i] + 1
        /\ \A i \in Items : i \notin body => again'[i] = again[i]
        /\ \A i \in Items : again[i] > 0 \/ i \in body => again'[i] > 0
    BY <2>1, AgainGrows
  <2> QED
    BY <2>2 DEF body
<1>4. \A q : /\ Requests(q)' = Requests(q) /\ FactItems(q)' = FactItems(q)
             /\ Succeeded(q)' = Succeeded(q) /\ DeliveredOf(q)' = DeliveredOf(q)
  BY <1>1, RequestsStay, OutcomesStay
<1>5. Shapes'
  BY <1>1, <1>2, <1>3, <1>4 DEF Shapes, Present
<1>6. FilesHold' /\ PlanForTelemetry'
  BY <1>1 DEF FilesHold, PlanForTelemetry, Present
<1>7. AcceptedCounted' /\ ContentKept'
  BY <1>1, <1>2, <1>4 DEF AcceptedCounted, ContentKept, Present
<1>8. Accounted'
  <2> SUFFICES ASSUME NEW i \in Items
               PROVE  delivered'[i] + Cardinality(Awaiting(i)') <= attached[i] + again'[i]
    BY <1>1 DEF Accounted
  <2>1. Awaiting(i)' = Awaiting(i)
    BY <1>1, <1>4 DEF Awaiting, Present, Due, Given, AcceptedNow
  <2>2. delivered[i] + Cardinality(Awaiting(i)) <= attached[i] + again[i]
    BY DEF Accounted
  <2>3. /\ delivered[i] \in Nat /\ attached[i] \in Nat /\ again[i] \in Nat
        /\ Cardinality(Awaiting(i)) \in Nat
    BY AwaitingFinite, FS_CardinalityType DEF Shapes
  <2>4. \/ delivered'[i] = delivered[i] + 1 /\ again'[i] = again[i] + 1
        \/ delivered'[i] = delivered[i] /\ again'[i] = again[i]
    BY <1>2, <1>3
  <2> QED
    BY <2>1, <2>2, <2>3, <2>4
<1>9. PlacedKnown'
  <2> SUFFICES ASSUME NEW i \in Items, NEW q \in Paths, <<i, q>> \in placed'
               PROVE  PlacedWell(i, q)'
    BY DEF PlacedKnown
  <2>1. CASE <<i, q>> \in placed
    <3>1. PlacedWell(i, q)
      BY <2>1 DEF PlacedKnown
    <3>2. again[Own(q)] > 0 => again'[Own(q)] > 0
      BY <1>3, OwnIsItem
    <3> QED
      BY <1>1, <1>2, <1>4, <3>1, <3>2 DEF PlacedWell, Present
  <2>2. CASE <<i, q>> \notin placed
    <3>1. q = p /\ i \in FactItems(p)
      BY <1>2, <2>2
    <3>2. FactItems(p) \subseteq Body(p) \/ Own(p) \in Body(p)
      BY <1>1, <3>1, NextRequest
    <3>3. Own(p) \in Body(p) => again'[Own(p)] > 0
      BY <1>3, OwnIsItem DEF Shapes
    <3> QED
      BY <1>2, <3>1, <3>2, <3>3 DEF PlacedWell
  <2> QED
    BY <2>1, <2>2
<1> QED
  BY <1>5, <1>6, <1>7, <1>8, <1>9

\* The invocation ends.
LEMMA EndKeepsTelemetry ==
  ASSUME TelemetryInv, End \/ UNCHANGED vars
  PROVE  TelemetryInv'
<1> USE DEF TelemetryInv
<1>1. /\ UNCHANGED <<disk, seen, version, keep, directives, sent, delivered, accepted, placed,
                     attached, again>>
      /\ running' \in BOOLEAN /\ (~running' => DOMAIN sent = {})
  BY DEF End, vars, planned, intake, Shapes
<1>2. \A q : /\ Requests(q)' = Requests(q) /\ FactItems(q)' = FactItems(q)
             /\ Succeeded(q)' = Succeeded(q) /\ DeliveredOf(q)' = DeliveredOf(q)
  BY <1>1, RequestsStay, OutcomesStay
<1>3. Shapes'
  BY <1>1, <1>2 DEF Shapes, Present
<1>4. FilesHold' /\ PlanForTelemetry' /\ AcceptedCounted' /\ ContentKept'
  BY <1>1, <1>2 DEF FilesHold, PlanForTelemetry, AcceptedCounted, ContentKept, Present
<1>5. PlacedKnown'
  BY <1>1, <1>2 DEF PlacedKnown, PlacedWell, Present
<1>6. Accounted'
  <2>1. \A i : Awaiting(i)' = Awaiting(i)
    BY <1>1, <1>2 DEF Awaiting, Present, Due, Given, AcceptedNow
  <2> QED
    BY <1>1, <2>1 DEF Accounted
<1> QED
  BY <1>3, <1>4, <1>5, <1>6

-----------------------------------------------------------------------------
(* Settling a file                                                         *)

\* The file stays with what was accepted of it; B is what was accepted before
\* an exception.
Kept(p, B) ==
  /\ disk' = disk /\ again' = Plus(again, DeliveredOf(p) \cup B)
  /\ \/ B = {} /\ UNCHANGED intake
     \/ Sending(p) /\ Accepts(p) /\ B = Body(p)

Removed(p) ==
  /\ AllSent(p) /\ Rejected(p) = {}
  /\ disk' = [disk EXCEPT ![p] = NoFile] /\ UNCHANGED <<again, intake>>

Replaced(p) ==
  /\ AllSent(p) /\ UNCHANGED <<again, intake>>
  /\ \E n \in Rejected(p) : Rejected(p) = {n} /\ Persist(p, n)

Settling(p) ==
  PostRaises(p) \/ PassOver(p) \/ CleanUp(p) \/ RetainTelemetry(p) \/ RetainCoverage(p)

LEMMA NothingKept ==
  ASSUME TelemetryInv, NEW p, DeliveredOf(p) = {}, again' = again, disk' = disk, UNCHANGED intake
  PROVE  Kept(p, {})
<1>1. again \in [Items -> Nat]
  BY DEF TelemetryInv, Shapes
<1>2. Plus(again, {}) = again
  <2>1. \A i \in Items : again[i] + (IF i \in {} THEN 1 ELSE 0) = again[i]
    BY <1>1
  <2> QED
    BY <1>1, <2>1 DEF Plus
<1>3. DeliveredOf(p) \cup {} = {}
  OBVIOUS
<1> QED
  BY <1>2, <1>3 DEF Kept

LEMMA StaysIsKept ==
  ASSUME NEW p, Stays(p), UNCHANGED intake
  PROVE  Kept(p, {})
<1>1. DeliveredOf(p) \cup {} = DeliveredOf(p)
  OBVIOUS
<1> QED
  BY <1>1 DEF Stays, Kept

\* However a file is settled, it stays as it was and what was accepted of it
\* is known to be sent again; or everything was accepted and it is deleted; or
\* it becomes the one request that was rejected.
LEMMA SettlingForms ==
  ASSUME TelemetryInv, NEW p \in Paths, Settling(p)
  PROVE  /\ p \in DOMAIN sent /\ Settle(p)
         /\ UNCHANGED <<seen, version, running, keep, directives, attached>>
         /\ (\E B : Kept(p, B)) \/ Removed(p) \/ Replaced(p)
<1> USE DEF TelemetryInv
<1>1. CASE PostRaises(p)
  <2>1. /\ p \in DOMAIN sent /\ Settle(p) /\ Sending(p) /\ UNCHANGED disk
        /\ UNCHANGED <<seen, version, running, keep, directives, attached>>
    BY <1>1 DEF PostRaises, Sending, Active, planned
  <2>2. CASE UNCHANGED intake /\ again' = Plus(again, DeliveredOf(p))
    BY <2>1, <2>2, StaysIsKept DEF Stays
  <2>3. CASE Accepts(p) /\ again' = Plus(again, DeliveredOf(p) \cup Body(p))
    BY <2>1, <2>3 DEF Kept
  <2> QED
    BY <1>1, <2>1, <2>2, <2>3 DEF PostRaises
<1>2. CASE PassOver(p)
  <2>1. DeliveredOf(p) = {}
    BY <1>2 DEF PassOver, DeliveredOf, Succeeded
  <2> QED
    BY <1>2, <2>1, NothingKept DEF PassOver, Active, planned
<1>3. CASE CleanUp(p)
  <2>1. /\ p \in DOMAIN sent /\ Settle(p) /\ UNCHANGED intake
        /\ UNCHANGED <<seen, version, running, keep, directives, attached>>
    BY <1>3 DEF CleanUp, AllSent, Active, planned
  <2>2. CASE Stays(p)
    BY <2>1, <2>2, StaysIsKept
  <2>3. CASE ~Stays(p)
    BY <1>3, <2>1, <2>3 DEF CleanUp, Removed
  <2> QED
    BY <2>2, <2>3
<1>4. CASE RetainTelemetry(p)
  <2>1. /\ p \in DOMAIN sent /\ Settle(p) /\ AllSent(p) /\ UNCHANGED intake
        /\ UNCHANGED <<seen, version, running, keep, directives, attached>>
    BY <1>4 DEF RetainTelemetry, AllSent, Active, planned
  <2>2. CASE Stays(p)
    BY <2>1, <2>2, StaysIsKept
  <2>3. CASE ~Stays(p)
    <3>1. /\ Cardinality(Rejected(p)) = 1 /\ again' = again
          /\ \E n \in Rejected(p) : Persist(p, n)
      BY <1>4, <2>3 DEF RetainTelemetry
    <3>2. PICK n \in Rejected(p) : Persist(p, n)
      BY <3>1
    <3>3. IsFiniteSet(Rejected(p))
      <4>1. IsFiniteSet(DOMAIN sent[p])
        <5>1. DOMAIN sent[p] = 1..Len(sent[p]) /\ Len(sent[p]) \in Nat
          BY <2>1, SentShape
        <5> QED
          BY <5>1, FS_Interval
      <4> QED
        BY <4>1, FS_Subset DEF Rejected
    <3>4. Rejected(p) = {n}
      BY <3>1, <3>2, <3>3, FS_Singleton
    <3> QED
      BY <2>1, <3>1, <3>2, <3>4 DEF Replaced
  <2> QED
    BY <2>2, <2>3
<1>5. CASE RetainCoverage(p)
  <2>1. /\ p \in DOMAIN sent /\ AllSent(p) /\ Rejected(p) # {} /\ Stream[p].kind = "coverage"
    BY <1>5 DEF RetainCoverage, AllSent, Active
  <2>2. Heeded(p).mode = "none"
    BY <2>1 DEF PlanForTelemetry, Heeded, NoDirective
  <2>3. DOMAIN sent[p] = {1}
    <3>1. DOMAIN Requests(p) = {1}
      BY <2>2, RequestForms
    <3> QED
      BY <2>1, <3>1, SentShape
  <2>4. Succeeded(p) = {}
    BY <2>1, <2>3 DEF Rejected, Succeeded
  <2>5. DeliveredOf(p) = {}
    BY <2>4 DEF DeliveredOf
  <2> QED
    BY <1>5, <2>1, <2>5, NothingKept DEF RetainCoverage, planned
<1> QED
  BY <1>1, <1>2, <1>3, <1>4, <1>5 DEF Settling

\* What settling p leaves of the other files.
LEMMA SettlingFrame ==
  ASSUME Shapes, NEW p \in DOMAIN sent, Settle(p), directives' = directives, version' = version
  PROVE  /\ DOMAIN sent' = DOMAIN sent \ {p} /\ DOMAIN sent' \subseteq Paths \ {p}
         /\ \A q \in DOMAIN sent' : sent'[q] = sent[q]
         /\ \A q \in DOMAIN sent' : disk'[q] = disk[q] =>
              /\ Requests(q)' = Requests(q) /\ FactItems(q)' = FactItems(q)
              /\ Succeeded(q)' = Succeeded(q) /\ DeliveredOf(q)' = DeliveredOf(q)
<1>1. DOMAIN sent' = DOMAIN sent \ {p} /\ \A q \in DOMAIN sent' : sent'[q] = sent[q]
  BY DEF Settle
<1>2. DOMAIN sent' \subseteq Paths \ {p}
  BY <1>1 DEF Shapes
<1> QED
  BY <1>1, <1>2, RequestsStay, OutcomesStay

\* When the first request of p was accepted, the facts given to it are
\* accepted too, or they are in the only request that was not.
LEMMA FirstAccepted ==
  ASSUME Shapes, FilesHold, NEW p \in DOMAIN sent, 1 \in Succeeded(p)
  PROVE  disk[p].holds \subseteq DeliveredOf(p)
<1>1. disk[p].holds \subseteq Requests(p)[1].holds
  BY FirstAndLast
<1> QED
  BY <1>1 DEF DeliveredOf

\* The file stays as it was.
LEMMA KeptKeepsTelemetry ==
  ASSUME TelemetryInv, NEW p \in Paths, p \in DOMAIN sent, Settle(p), NEW B, Kept(p, B),
         UNCHANGED <<seen, version, running, keep, directives, attached>>
  PROVE  TelemetryInv'
<1> USE DEF TelemetryInv
<1> DEFINE kept == DeliveredOf(p) \cup B
<1>1. /\ DOMAIN sent' = DOMAIN sent \ {p}
      /\ \A q \in DOMAIN sent' :
           /\ sent'[q] = sent[q] /\ Requests(q)' = Requests(q) /\ FactItems(q)' = FactItems(q)
           /\ Succeeded(q)' = Succeeded(q) /\ DeliveredOf(q)' = DeliveredOf(q)
  BY SettlingFrame DEF Kept
<1>2. /\ delivered' \in [Items -> Nat]
      /\ \A i \in Items : i \in B => delivered'[i] = delivered[i] + 1
      /\ \A i \in Items : i \notin B => delivered'[i] = delivered[i]
      /\ accepted \subseteq accepted' /\ accepted' \subseteq Items \X Paths
      /\ placed' \subseteq Items \X Paths
      /\ \A i \in B : <<i, p>> \in accepted'
      /\ \A i, q : <<i, q>> \in placed' =>
           \/ <<i, q>> \in placed
           \/ q = p /\ i \in FactItems(p) /\ (i \in B \/ Own(p) \in B)
  <2>1. CASE B = {} /\ UNCHANGED intake
    BY <2>1 DEF Shapes, intake
  <2>2. CASE Sending(p) /\ Accepts(p) /\ B = Body(p)
    <3>1. \A i \in FactItems(p) : i \in Body(p) \/ Own(p) \in Body(p)
      BY <2>2, NextRequest
    <3> QED
      BY <2>2, <3>1, Accepting
  <2> QED
    BY <2>1, <2>2 DEF Kept
<1>3. disk' = disk /\ again' = Plus(again, kept)
  BY DEF Kept
<1> HIDE DEF kept
<1>4. /\ again' \in [Items -> Nat]
      /\ \A i \in Items : i \in kept => again'[i] = again[i] + 1
      /\ \A i \in Items : i \notin kept => again'[i] = again[i]
      /\ \A i \in Items : again[i] > 0 \/ i \in kept => again'[i] > 0
  BY <1>3, AgainGrows
<1>5. \A q : Present(q)' = Present(q)
  BY <1>3 DEF Present
<1>6. Shapes'
  BY <1>1, <1>2, <1>3, <1>4, <1>5 DEF Shapes
<1>7. FilesHold' /\ PlanForTelemetry' /\ AcceptedCounted' /\ ContentKept'
  BY <1>1, <1>2, <1>3, <1>5 DEF FilesHold, PlanForTelemetry, AcceptedCounted, ContentKept
<1>8. Accounted'
  <2> SUFFICES ASSUME NEW i \in Items
               PROVE  delivered'[i] + Cardinality(Awaiting(i)') <= attached[i] + again'[i]
    BY DEF Accounted
  <2>1. IsFiniteSet(Awaiting(i))
    BY AwaitingFinite
  <2>2. delivered[i] + Cardinality(Awaiting(i)) <= attached[i] + again[i]
    BY DEF Accounted
  <2>3. delivered[i] \in Nat /\ attached[i] \in Nat /\ again[i] \in Nat
    BY DEF Shapes
  <2>4. /\ p \notin DOMAIN sent'
        /\ \A q \in Paths \ {p} : Due(q)' = Due(q) /\ AcceptedNow(q)' = AcceptedNow(q)
        /\ Due(p)' \subseteq Due(p) /\ AcceptedNow(p) = DeliveredOf(p)
    BY <1>1, <1>3 DEF Due, Given, AcceptedNow
  <2>5. Awaiting(i)' \subseteq Awaiting(i) \cup {p}
    BY <1>5, <2>4 DEF Awaiting
  <2>6. i \notin DeliveredOf(p) => Awaiting(i)' \subseteq Awaiting(i)
    BY <1>5, <2>4 DEF Awaiting
  <2>7. B \cap DeliveredOf(p) = {}
    BY NextRequest DEF Kept
  <2>8. CASE i \in DeliveredOf(p)
    <3>1. delivered'[i] = delivered[i]
      BY <1>2, <2>7, <2>8
    <3>2. again'[i] = again[i] + 1
      BY <1>4, <2>8 DEF kept
    <3>3. /\ Cardinality(Awaiting(i)') \in Nat /\ Cardinality(Awaiting(i)) \in Nat
          /\ Cardinality(Awaiting(i)') <= Cardinality(Awaiting(i)) + 1
      BY <2>1, <2>5, OneMore
    <3> QED
      BY <2>2, <2>3, <3>1, <3>2, <3>3
  <2>9. CASE i \notin DeliveredOf(p)
    <3>1. \/ delivered'[i] = delivered[i] + 1 /\ again'[i] = again[i] + 1
          \/ delivered'[i] = delivered[i] /\ again'[i] = again[i]
      BY <1>2, <1>4, <2>9 DEF kept
    <3>2. /\ Cardinality(Awaiting(i)') \in Nat /\ Cardinality(Awaiting(i)) \in Nat
          /\ Cardinality(Awaiting(i)') <= Cardinality(Awaiting(i))
      BY <2>1, <2>6, <2>9, NoMore
    <3> QED
      BY <2>2, <2>3, <3>1, <3>2
  <2> QED
    BY <2>8, <2>9
<1>9. PlacedKnown'
  <2> SUFFICES ASSUME NEW i \in Items, NEW q \in Paths, <<i, q>> \in placed'
               PROVE  PlacedWell(i, q)'
    BY DEF PlacedKnown
  <2>1. CASE q = p /\ i \in FactItems(p) /\ (i \in B \/ Own(p) \in B)
    <3>1. i \in B => PlacedWell(i, q)'
      BY <1>2, <2>1 DEF PlacedWell
    <3>2. Own(p) \in B => again'[Own(q)] > 0
      BY <1>4, <2>1, OwnIsItem DEF kept
    <3> QED
      BY <2>1, <3>1, <3>2 DEF PlacedWell
  <2>2. CASE <<i, q>> \in placed
    <3>1. PlacedWell(i, q)
      BY <2>2 DEF PlacedKnown
    <3>2. again[Own(q)] > 0 => again'[Own(q)] > 0
      BY <1>4, OwnIsItem
    <3>3. CASE q = p /\ i \in FactItems(p) /\ 1 \in Succeeded(p)
      <4>1. Own(p) \in DeliveredOf(p)
        BY <3>3, FirstAccepted, FirstAndLast
      <4>2. again'[Own(p)] > 0
        BY <1>4, <4>1, OwnIsItem DEF kept
      <4> QED
        BY <3>3, <4>2 DEF PlacedWell
    <3>4. CASE ~(q = p /\ i \in FactItems(p) /\ 1 \in Succeeded(p))
      BY <1>1, <1>2, <1>3, <1>5, <3>1, <3>2, <3>4 DEF PlacedWell
    <3> QED
      BY <3>3, <3>4
  <2> QED
    BY <1>2, <2>1, <2>2
<1> QED
  BY <1>6, <1>7, <1>8, <1>9

\* The file is deleted.
LEMMA RemovedKeepsTelemetry ==
  ASSUME TelemetryInv, NEW p \in Paths, p \in DOMAIN sent, Settle(p), Removed(p),
         UNCHANGED <<seen, version, running, keep, directives, attached>>
  PROVE  TelemetryInv'
<1> USE DEF TelemetryInv
<1>1. /\ disk'[p] = NoFile /\ \A q \in Paths \ {p} : disk'[q] = disk[q]
      /\ disk' \in [Paths -> Stored \cup {NoFile}]
      /\ UNCHANGED <<delivered, accepted, placed, again>>
  BY DEF Shapes, Removed, intake
<1>2. DOMAIN sent' = DOMAIN sent \ {p} /\ DOMAIN sent' \subseteq Paths \ {p}
  BY SettlingFrame
<1>3. \A q \in DOMAIN sent' :
           /\ sent'[q] = sent[q] /\ Requests(q)' = Requests(q) /\ FactItems(q)' = FactItems(q)
           /\ Succeeded(q)' = Succeeded(q) /\ DeliveredOf(q)' = DeliveredOf(q)
  BY <1>1, <1>2, SettlingFrame
<1>4. /\ ~Present(p)'
      /\ \A q \in Paths \ {p} : /\ Present(q)' = Present(q) /\ Due(q)' = Due(q)
                               /\ AcceptedNow(q)' = AcceptedNow(q)
  BY <1>1, <1>2, <1>3 DEF Present, Due, Given, AcceptedNow
<1>5. disk[p].holds \subseteq DeliveredOf(p) /\ FactItems(p) \subseteq DeliveredOf(p)
  <2>1. Succeeded(p) = DOMAIN Requests(p)
    BY SentShape DEF Removed, Rejected
  <2>2. PICK n \in DOMAIN Requests(p) : FactItems(p) \subseteq Requests(p)[n].holds
    BY FirstAndLast
  <2>3. 1 \in Succeeded(p) /\ FactItems(p) \subseteq DeliveredOf(p)
    BY <2>1, <2>2, FirstAndLast DEF DeliveredOf
  <2> QED
    BY <2>3, FirstAccepted
<1>6. \A i \in DeliveredOf(p) : <<i, p>> \in accepted
  BY DEF AcceptedCounted
<1>7. Shapes'
  BY <1>1, <1>2, <1>3, <1>4 DEF Shapes
<1>8. FilesHold' /\ PlanForTelemetry' /\ AcceptedCounted'
  BY <1>1, <1>2, <1>3, <1>4 DEF FilesHold, PlanForTelemetry, AcceptedCounted
<1>9. Accounted'
  <2> SUFFICES ASSUME NEW i \in Items
               PROVE  delivered[i] + Cardinality(Awaiting(i)') <= attached[i] + again[i]
    BY <1>1 DEF Accounted
  <2>1. Awaiting(i)' \subseteq Awaiting(i)
    BY <1>4 DEF Awaiting
  <2>2. /\ Cardinality(Awaiting(i)') \in Nat /\ Cardinality(Awaiting(i)) \in Nat
        /\ Cardinality(Awaiting(i)') <= Cardinality(Awaiting(i))
    BY <2>1, AwaitingFinite, NoMore
  <2>3. delivered[i] \in Nat /\ attached[i] \in Nat /\ again[i] \in Nat
    BY DEF Shapes
  <2> QED
    BY <2>2, <2>3 DEF Accounted
<1>10. ContentKept'
  <2> SUFFICES ASSUME NEW q \in seen
               PROVE  <<Own(q), q>> \in accepted \/ (Present(q)' /\ Own(q) \in disk'[q].holds)
    BY <1>1 DEF ContentKept
  <2>1. CASE q = p
    BY <1>5, <1>6, <2>1 DEF ContentKept
  <2>2. CASE q # p
    BY <1>1, <1>4, <2>2 DEF ContentKept, Shapes
  <2> QED
    BY <2>1, <2>2
<1>11. PlacedKnown'
  <2> SUFFICES ASSUME NEW i \in Items, NEW q \in Paths, <<i, q>> \in placed
               PROVE  PlacedWell(i, q)'
    BY <1>1 DEF PlacedKnown
  <2>1. PlacedWell(i, q)
    BY DEF PlacedKnown
  <2>2. CASE q # p
    BY <1>1, <1>2, <1>3, <1>4, <2>1, <2>2 DEF PlacedWell
  <2>3. CASE q = p
    BY <1>1, <1>5, <1>6, <2>1, <2>3 DEF PlacedWell
  <2> QED
    BY <2>2, <2>3
<1> QED
  BY <1>7, <1>8, <1>9, <1>10, <1>11

\* The file becomes the only request that was rejected.
LEMMA ReplacedFile ==
  ASSUME Shapes, FilesHold, NEW p \in DOMAIN sent, Replaced(p)
  PROVE  \E n \in DOMAIN Requests(p) :
           /\ Succeeded(p) = DOMAIN Requests(p) \ {n}
           /\ disk'[p].holds = Requests(p)[n].holds /\ disk'[p].marked = TRUE
           /\ disk'[p] \in Stored /\ disk'[p] # NoFile
           /\ \A q \in Paths \ {p} : disk'[q] = disk[q]
           /\ disk' \in [Paths -> Stored \cup {NoFile}]
           /\ DeliveredOf(p) \cap disk'[p].holds = {}
<1>1. PICK n \in Rejected(p) : Rejected(p) = {n} /\ Persist(p, n)
  BY DEF Replaced
<1>2. n \in DOMAIN Requests(p) /\ Succeeded(p) = DOMAIN Requests(p) \ {n}
  BY <1>1, SentShape DEF Replaced, Rejected
<1>3. p \in Paths
  BY DEF Shapes
<1>4. disk' = [disk EXCEPT ![p] = [batch |-> Requests(p)[n].batch, marked |-> TRUE,
                                   holds |-> Requests(p)[n].holds]]
  BY <1>1 DEF Persist
<1>5. /\ disk'[p] = [batch |-> Requests(p)[n].batch, marked |-> TRUE,
                     holds |-> Requests(p)[n].holds]
      /\ \A q \in Paths \ {p} : disk'[q] = disk[q]
  BY <1>3, <1>4 DEF Shapes
<1>6. disk'[p] \in Stored
  BY <1>2, <1>5, RequestItems DEF Stored
<1>7. disk'[p] # NoFile
  BY <1>6, TelemetryAssumption DEF Stored
<1>8. disk' \in [Paths -> Stored \cup {NoFile}]
  BY <1>3, <1>4, <1>5, <1>6 DEF Shapes
<1>9. DeliveredOf(p) \cap Requests(p)[n].holds = {}
  <2>1. \A m \in Succeeded(p) : Requests(p)[m].holds \cap Requests(p)[n].holds = {}
    BY <1>2, RequestsDisjoint
  <2> QED
    BY <2>1 DEF DeliveredOf
<1>10. disk'[p].holds = Requests(p)[n].holds /\ disk'[p].marked = TRUE
  BY <1>5
<1> QED
  BY <1>2, <1>5, <1>6, <1>7, <1>8, <1>9, <1>10

LEMMA ReplacedKeepsTelemetry ==
  ASSUME TelemetryInv, NEW p \in Paths, p \in DOMAIN sent, Settle(p), Replaced(p),
         UNCHANGED <<seen, version, running, keep, directives, attached>>
  PROVE  TelemetryInv'
<1> USE DEF TelemetryInv
<1>1. PICK n \in DOMAIN Requests(p) :
        /\ Succeeded(p) = DOMAIN Requests(p) \ {n}
        /\ disk'[p].holds = Requests(p)[n].holds /\ disk'[p].marked = TRUE
        /\ disk'[p] \in Stored /\ disk'[p] # NoFile
        /\ \A q \in Paths \ {p} : disk'[q] = disk[q]
        /\ disk' \in [Paths -> Stored \cup {NoFile}]
        /\ DeliveredOf(p) \cap disk'[p].holds = {}
  BY ReplacedFile
<1>2. /\ DOMAIN sent' = DOMAIN sent \ {p} /\ DOMAIN sent' \subseteq Paths \ {p}
      /\ UNCHANGED <<delivered, accepted, placed, again>>
  BY SettlingFrame DEF Replaced, intake
<1>3. \A q \in DOMAIN sent' :
           /\ sent'[q] = sent[q] /\ Requests(q)' = Requests(q) /\ FactItems(q)' = FactItems(q)
           /\ Succeeded(q)' = Succeeded(q) /\ DeliveredOf(q)' = DeliveredOf(q)
  BY <1>1, <1>2, SettlingFrame
<1>4. /\ Present(p) /\ Present(p)' /\ p \in seen
      /\ \A q \in Paths \ {p} : /\ Present(q)' = Present(q) /\ Due(q)' = Due(q)
                               /\ AcceptedNow(q)' = AcceptedNow(q)
  BY <1>1, <1>2, <1>3 DEF Present, Due, Given, AcceptedNow, Shapes, FilesHold
<1>5. disk'[p].holds \subseteq Due(p)
  BY <1>1, RequestItems
<1>6. \A i \in DeliveredOf(p) : <<i, p>> \in accepted
  BY DEF AcceptedCounted
<1>7. \A m \in DOMAIN Requests(p) : \A x \in Requests(p)[m].holds :
        x \in disk'[p].holds \/ <<x, p>> \in accepted
  <2> SUFFICES ASSUME NEW m \in DOMAIN Requests(p), NEW x \in Requests(p)[m].holds, m # n
               PROVE  x \in DeliveredOf(p)
    BY <1>1, <1>6
  <2> QED
    BY <1>1 DEF DeliveredOf
<1>8. \A x \in disk[p].holds \cup FactItems(p) : x \in disk'[p].holds \/ <<x, p>> \in accepted
  BY <1>7, FirstAndLast
<1>9. Shapes'
  BY <1>1, <1>2, <1>3, <1>4 DEF Shapes
<1>10. FilesHold'
  BY <1>1, <1>4 DEF FilesHold
<1>11. PlanForTelemetry' /\ AcceptedCounted'
  BY <1>2, <1>3 DEF PlanForTelemetry, AcceptedCounted
<1>12. Accounted'
  <2> SUFFICES ASSUME NEW i \in Items
               PROVE  delivered[i] + Cardinality(Awaiting(i)') <= attached[i] + again[i]
    BY <1>2 DEF Accounted
  <2>1. Due(p)' = disk'[p].holds /\ AcceptedNow(p) = DeliveredOf(p)
    BY <1>2 DEF Due, Given, AcceptedNow
  <2>2. Awaiting(i)' \subseteq Awaiting(i)
    BY <1>1, <1>4, <1>5, <2>1 DEF Awaiting
  <2>3. /\ Cardinality(Awaiting(i)') \in Nat /\ Cardinality(Awaiting(i)) \in Nat
        /\ Cardinality(Awaiting(i)') <= Cardinality(Awaiting(i))
    BY <2>2, AwaitingFinite, NoMore
  <2>4. delivered[i] \in Nat /\ attached[i] \in Nat /\ again[i] \in Nat
    BY DEF Shapes
  <2> QED
    BY <2>3, <2>4 DEF Accounted
<1>13. ContentKept'
  <2> SUFFICES ASSUME NEW q \in seen
               PROVE  <<Own(q), q>> \in accepted \/ (Present(q)' /\ Own(q) \in disk'[q].holds)
    BY <1>2 DEF ContentKept
  <2>1. CASE q = p
    BY <1>4, <1>8, <2>1 DEF ContentKept
  <2>2. CASE q # p
    BY <1>1, <1>4, <2>2 DEF ContentKept, Shapes
  <2> QED
    BY <2>1, <2>2
<1>14. PlacedKnown'
  <2> SUFFICES ASSUME NEW i \in Items, NEW q \in Paths, <<i, q>> \in placed
               PROVE  PlacedWell(i, q)'
    BY <1>2 DEF PlacedKnown
  <2>1. PlacedWell(i, q)
    BY DEF PlacedKnown
  <2>2. CASE q # p
    BY <1>1, <1>2, <1>3, <1>4, <2>1, <2>2 DEF PlacedWell
  <2>3. CASE q = p
    BY <1>2, <1>4, <1>8, <2>1, <2>3 DEF PlacedWell
  <2> QED
    BY <2>2, <2>3
<1> QED
  BY <1>9, <1>10, <1>11, <1>12, <1>13, <1>14

\* The process dies.
LEMMA CrashKeepsTelemetry ==
  ASSUME TelemetryInv, Crash
  PROVE  TelemetryInv'
<1> USE DEF TelemetryInv
<1> DEFINE lost(i) == {p \in DOMAIN sent : i \in DeliveredOf(p)}
<1>1. /\ UNCHANGED <<disk, seen, version, keep, directives, attached, delivered, accepted, placed>>
      /\ running' = FALSE /\ sent' = <<>>
      /\ again' = [i \in Items |-> again[i] + Cardinality(lost(i))]
  BY DEF Crash, intake
<1>2. DOMAIN sent' = {}
  BY <1>1
<1>3. \A i : IsFiniteSet(lost(i)) /\ Cardinality(lost(i)) \in Nat
  <2> SUFFICES ASSUME NEW i PROVE IsFiniteSet(lost(i))
    BY FS_CardinalityType
  <2>1. lost(i) \subseteq seen
    BY DEF Shapes, FilesHold
  <2> QED
    BY <2>1, FS_Subset DEF Shapes
<1>4. again \in [Items -> Nat]
  BY DEF Shapes
<1>5. \A i, p : p \in lost(i) <=> p \in DOMAIN sent /\ i \in DeliveredOf(p)
  OBVIOUS
<1> HIDE DEF lost
<1>6. /\ again' \in [Items -> Nat]
      /\ \A i \in Items : again'[i] = again[i] + Cardinality(lost(i)) /\ again[i] \in Nat
  BY <1>1, <1>3, <1>4
<1>7. \A i \in Items : again[i] > 0 => again'[i] > 0
  <2> SUFFICES ASSUME NEW i \in Items, again[i] > 0 PROVE again'[i] > 0
    OBVIOUS
  <2>1. Cardinality(lost(i)) \in Nat
    BY <1>3
  <2> QED
    BY <1>6, <2>1
<1>8. Shapes'
  BY <1>1, <1>2, <1>6 DEF Shapes, Present
<1>9. FilesHold' /\ PlanForTelemetry' /\ AcceptedCounted' /\ ContentKept'
  BY <1>1, <1>2 DEF FilesHold, PlanForTelemetry, AcceptedCounted, ContentKept, Present
<1>10. Accounted'
  <2> SUFFICES ASSUME NEW i \in Items
               PROVE  delivered[i] + Cardinality(Awaiting(i)') <= attached[i] + again'[i]
    BY <1>1 DEF Accounted
  <2> DEFINE both == Awaiting(i) \cup lost(i)
  <2>1. IsFiniteSet(Awaiting(i)) /\ IsFiniteSet(lost(i))
    BY <1>3, AwaitingFinite
  <2>2. Awaiting(i)' \subseteq both
    BY <1>1, <1>2, <1>5 DEF Awaiting, Present, Due, Given, AcceptedNow
  <2>3. /\ IsFiniteSet(both) /\ Cardinality(Awaiting(i)) \in Nat /\ Cardinality(lost(i)) \in Nat
        /\ Cardinality(both) <= Cardinality(Awaiting(i)) + Cardinality(lost(i))
    <3>1. IsFiniteSet(Awaiting(i) \cap lost(i))
      BY <2>1, FS_Subset
    <3>2. Cardinality(Awaiting(i) \cap lost(i)) \in Nat
      BY <3>1, FS_CardinalityType
    <3>3. Cardinality(Awaiting(i)) \in Nat /\ Cardinality(lost(i)) \in Nat
      BY <2>1, FS_CardinalityType
    <3>4. /\ IsFiniteSet(both)
          /\ Cardinality(both) = Cardinality(Awaiting(i)) + Cardinality(lost(i))
                                   - Cardinality(Awaiting(i) \cap lost(i))
      BY <2>1, FS_Union
    <3> QED
      BY <3>2, <3>3, <3>4
  <2> HIDE DEF both
  <2>4. /\ Cardinality(Awaiting(i)') \in Nat /\ Cardinality(both) \in Nat
        /\ Cardinality(Awaiting(i)') <= Cardinality(both)
    BY <2>2, <2>3, NoMore
  <2>5. delivered[i] + Cardinality(Awaiting(i)) <= attached[i] + again[i]
    BY DEF Accounted
  <2>6. delivered[i] \in Nat /\ attached[i] \in Nat /\ again[i] \in Nat
    BY DEF Shapes
  <2> QED
    BY <1>6, <2>3, <2>4, <2>5, <2>6
<1>11. PlacedKnown'
  <2> SUFFICES ASSUME NEW i \in Items, NEW q \in Paths, <<i, q>> \in placed
               PROVE  PlacedWell(i, q)'
    BY <1>1 DEF PlacedKnown
  <2>1. PlacedWell(i, q)
    BY DEF PlacedKnown
  <2>2. CASE q \in DOMAIN sent /\ i \in FactItems(q) /\ 1 \in Succeeded(q)
    <3>1. Own(q) \in DeliveredOf(q)
      BY <2>2, FirstAccepted, FirstAndLast
    <3>2. Cardinality(lost(Own(q))) # 0
      BY <1>3, <1>5, <2>2, <3>1, FS_EmptySet
    <3>3. again'[Own(q)] > 0
      BY <1>3, <1>6, <3>2, OwnIsItem
    <3> QED
      BY <3>3 DEF PlacedWell
  <2>3. CASE ~(q \in DOMAIN sent /\ i \in FactItems(q) /\ 1 \in Succeeded(q))
    BY <1>1, <1>7, <2>1, <2>3, OwnIsItem DEF PlacedWell, Present
  <2> QED
    BY <2>2, <2>3
<1> QED
  BY <1>8, <1>9, <1>10, <1>11

-----------------------------------------------------------------------------
(* The theorems                                                            *)

LEMMA NextKeepsTelemetry == TelemetryInv /\ [Next]_vars => TelemetryInv'
<1> SUFFICES ASSUME TelemetryInv, [Next]_vars PROVE TelemetryInv'
  OBVIOUS
<1>1. CASE \E p \in Paths : Write(p)
  BY <1>1, WriteKeepsTelemetry
<1>2. CASE Renew
  BY <1>2, RenewKeepsTelemetry
<1>3. CASE Begin
  BY <1>3, BeginKeepsTelemetry
<1>4. ASSUME NEW p \in Paths, Send(p) \/ AnswerLost(p) PROVE TelemetryInv'
  BY <1>4, SendKeepsTelemetry, AnswerLostKeepsTelemetry
<1>5. ASSUME NEW p \in Paths, Settling(p) PROVE TelemetryInv'
  <2>1. /\ p \in DOMAIN sent /\ Settle(p)
        /\ UNCHANGED <<seen, version, running, keep, directives, attached>>
        /\ (\E B : Kept(p, B)) \/ Removed(p) \/ Replaced(p)
    BY <1>5, SettlingForms
  <2>2. CASE \E B : Kept(p, B)
    BY <2>1, <2>2, KeptKeepsTelemetry
  <2>3. CASE Removed(p) \/ Replaced(p)
    BY <2>1, <2>3, RemovedKeepsTelemetry, ReplacedKeepsTelemetry
  <2> QED
    BY <2>1, <2>2, <2>3
<1>6. CASE End \/ UNCHANGED vars
  BY <1>6, EndKeepsTelemetry
<1>7. CASE Crash
  BY <1>7, CrashKeepsTelemetry
<1> QED
  BY <1>1, <1>2, <1>3, <1>4, <1>5, <1>6, <1>7 DEF Next, FileStep, Over, Settling

THEOREM TelemetryInvariant == Spec => []TelemetryInv
BY InitTelemetry, NextKeepsTelemetry, PTL DEF Spec

\* What a tracer wrote is delivered or still on disk, however often requests
\* are rejected or raise, answers are lost, files replaced, payloads kept, facts
\* renewed, writes fail and the process dies.
THEOREM TelemetryIsKept == Spec => []NoTelemetryLost
<1>1. TelemetryInv => NoTelemetryLost
  BY DEF TelemetryInv, ContentKept, NoTelemetryLost, Holds, Present
<1> QED
  BY <1>1, TelemetryInvariant, PTL

\* Facts of the Bazel rules placed on a file of which some request was accepted
\* are accepted with that file, retained in it, still at work, or the file had
\* to stay with the content that was accepted.
THEOREM FactsAreKept == Spec => []FactsKept
<1>1. TelemetryInv => FactsKept
  <2> SUFFICES ASSUME TelemetryInv, NEW entry \in placed
               PROVE  \/ entry \in accepted \/ Holds(entry[2], entry[1])
                      \/ entry[2] \in DOMAIN sent \/ again[Own(entry[2])] > 0
    BY DEF FactsKept
  <2>1. entry = <<entry[1], entry[2]>> /\ entry[1] \in Items /\ entry[2] \in Paths
    BY DEF TelemetryInv, Shapes
  <2>2. PlacedWell(entry[1], entry[2])
    BY <2>1 DEF TelemetryInv, PlacedKnown
  <2> QED
    BY <2>1, <2>2 DEF PlacedWell, Holds, Present
<1> QED
  BY <1>1, TelemetryInvariant, PTL

\* A tracer's content is accepted once, and the facts of a synchronisation once
\* for each plan that attached them to a file, whichever files they were sent
\* with; and once more for every time a file had to stay with them.
THEOREM TelemetrySentOnce == Spec => []SentOnce
<1>1. TelemetryInv => SentOnce
  <2> SUFFICES ASSUME TelemetryInv, NEW i \in Items
               PROVE  delivered[i] <= attached[i] + again[i]
    BY DEF SentOnce
  <2>1. delivered[i] \in Nat /\ attached[i] \in Nat /\ again[i] \in Nat
    BY DEF TelemetryInv, Shapes
  <2>2. Cardinality(Awaiting(i)) \in Nat
    BY AwaitingFinite, FS_CardinalityType DEF TelemetryInv
  <2> QED
    BY <2>1, <2>2 DEF TelemetryInv, Accounted
<1> QED
  BY <1>1, TelemetryInvariant, PTL
=============================================================================
