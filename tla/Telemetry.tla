------------------------------- MODULE Telemetry -------------------------------
(***************************************************************************)
(* Telemetry and coverage payload files through successive invocations:    *)
(* the plan that attaches the facts of the Bazel rules to tracer telemetry *)
(* (telemetry.py), and the pipelines that send the files and retain what   *)
(* was rejected (file_worker.py).                                          *)
(*                                                                         *)
(* A file is a path in the order of the plan.  What a body contains is a   *)
(* set of items: the tracer's own content of a file, <<0, path>>, and the  *)
(* facts files of one synchronisation, <<version, facts>>, whichever file  *)
(* they are sent with.  Retries are not counted (module FileUpload does):  *)
(* a request succeeds, fails, loses the answer to an accepted attempt, or  *)
(* leaves the pipeline by an exception.  Abstracted: metric series, the    *)
(* environment given to a stream, headers, sequence ids, timestamps.       *)
(***************************************************************************)
EXTENDS Naturals, Sequences, FiniteSets, FiniteSetsExt

CONSTANTS
  Paths,          \* payload files that tests may leave
  Stream,         \* path -> [kind, service, language, batch, list], as the
                  \*   tracer wrote it; list: the payload of a batch is one
  Facts,          \* facts files: [service, runtime, env, empty]
  NoFile,         \* no file at a path
  MaxRuns,        \* bound: invocations
  MaxFiles,       \* bound: files that the tests leave
  MaxVersion,     \* bound: synchronisations that renew the facts
  MaxFaults       \* bound: crashes, lost answers and failures to write or
                  \*   delete a file

Items == ({0} \X Paths) \cup ((1..MaxVersion) \X Facts)

ASSUME TelemetryAssumption ==
  /\ Paths \subseteq Nat /\ DOMAIN Stream = Paths
  /\ \A p \in Paths : /\ Stream[p].kind \in {"telemetry", "coverage"}
                      /\ Stream[p].batch \in BOOLEAN /\ Stream[p].list \in BOOLEAN
  /\ NoFile \notin [batch : BOOLEAN, marked : BOOLEAN, holds : SUBSET Items]
  /\ MaxRuns \in Nat /\ MaxFiles \in Nat
  /\ MaxVersion \in Nat \ {0} /\ MaxFaults \in Nat

VARIABLES
  disk,       \* path -> NoFile or [batch, marked, holds]
  seen,       \* paths the tests have written so far
  version,    \* the synchronisation the facts are of
  run,        \* invocations so far
  running,    \* one is running
  keep,       \* it keeps the payloads
  directives, \* its telemetry plan: path -> directive
  sent,       \* path -> the outcomes of its requests, for files not settled
  delivered,  \* item -> how often the intake has accepted it
  accepted,   \* <<item, path>>: accepted in a request of that file
  placed,     \* <<item, path>>: facts placed on a file of which a request
              \*   was accepted
  attached,   \* item -> how often it was given to a file: by the tracer, by
              \*   the plans
  again,      \* item -> how often its file had to stay after it was accepted
  faults      \* faults so far

intake == <<delivered, accepted, placed>>
planned == <<seen, version, run, running, keep, directives, attached>>
vars == <<disk, planned, sent, intake, again, faults>>

Own(p) == <<0, p>>
Plus(count, items) == [i \in Items |-> count[i] + IF i \in items THEN 1 ELSE 0]

Init ==
  /\ disk = [p \in Paths |-> NoFile] /\ seen = {}
  /\ version = 1 /\ run = 0 /\ running = FALSE /\ keep = FALSE
  /\ directives = <<>> /\ sent = <<>> /\ accepted = {} /\ placed = {}
  /\ delivered = [i \in Items |-> 0] /\ attached = [i \in Items |-> 0]
  /\ again = [i \in Items |-> 0] /\ faults = 0

-----------------------------------------------------------------------------
(* build_telemetry_plan                                                    *)

\* _load_sources: the telemetry files among the tasks, as they are on disk.
Sources == {p \in Paths : disk[p] # NoFile /\ Stream[p].kind = "telemetry"}
Group(service, language) ==
  {p \in Sources : Stream[p].service = service /\ Stream[p].language = language}

\* The runtime of the facts decides when a service has several languages.
LanguagesOf(fact) ==
  LET languages == {Stream[p].language : p \in {s \in Sources : Stream[s].service = fact.service}}
  IN  IF Cardinality(languages) <= 1 THEN languages ELSE languages \cap {fact.runtime}

FactsOf(service, language) ==
  {fact \in Facts : fact.service = service /\ language \in LanguagesOf(fact)}

Environments(facts) == {fact.env : fact \in facts} \ {""}

\* Facts with conflicting environments are not used at all.
Usable(facts) == Cardinality(Environments(facts)) <= 1

\* The last message batch of the group, or its last file: the chosen stream
\* is the one that holds it.
Anchor(group) ==
  LET batches == {p \in group : disk[p].batch}
  IN  Max(IF batches # {} THEN batches ELSE group)

NoDirective == [mode |-> "none", facts |-> {}]
Messages(facts, batch) ==
  [mode |-> IF batch THEN "append" ELSE "synthetic", facts |-> facts]

\* Mutant: the facts go to every file of the group.
DirectiveForAll(p) ==
  LET facts == FactsOf(Stream[p].service, Stream[p].language)
      full  == {fact \in facts : ~fact.empty}
  IN  IF p \in Sources /\ Usable(facts) /\ full # {}
      THEN Messages(full, disk[p].batch) ELSE NoDirective

\* What the plan says of one file: the anchor of a group takes the messages,
\* in its batch or beside it.
Directive(p) ==
  LET facts == FactsOf(Stream[p].service, Stream[p].language)
      full  == {fact \in facts : ~fact.empty}
  IN  IF /\ p \in Sources /\ Usable(facts) /\ full # {}
         /\ p = Anchor(Group(Stream[p].service, Stream[p].language))
      THEN Messages(full, disk[p].batch) ELSE NoDirective

-----------------------------------------------------------------------------
(* One invocation                                                          *)

\* A test leaves a payload file; a synchronisation renews the facts.
Write(p) ==
  /\ ~running /\ p \notin seen /\ Cardinality(seen) < MaxFiles
  /\ seen' = seen \cup {p} /\ attached' = Plus(attached, {Own(p)})
  /\ disk' = [disk EXCEPT ![p] = [batch |-> Stream[p].batch, marked |-> FALSE,
                                  holds |-> {Own(p)}]]
  /\ UNCHANGED <<version, run, running, keep, directives, sent, intake, again, faults>>

Renew ==
  /\ ~running /\ version < MaxVersion /\ version' = version + 1
  /\ UNCHANGED <<disk, seen, run, running, keep, directives, attached, sent, intake, again,
                 faults>>

\* A marked file, and a batch whose payload is no list, takes no messages.
Takes(p) == ~disk[p].marked /\ (Stream[p].batch => Stream[p].list)

\* The plan is built once, before the workers start.  Facts are attached to
\* files that still hold what their tracer wrote.
Begin ==
  /\ ~running /\ run < MaxRuns /\ run' = run + 1 /\ running' = TRUE
  /\ keep' \in BOOLEAN
  /\ LET files == {p \in Paths : disk[p] # NoFile}
         takers == {p \in files : Takes(p) /\ Own(p) \in disk[p].holds}
     IN  /\ sent' = [p \in files |-> <<>>]
         /\ directives' = [p \in files |-> Directive(p)]
         /\ attached' = Plus(attached, {version} \X UNION {Directive(p).facts : p \in takers})
  /\ UNCHANGED <<disk, seen, version, intake, again, faults>>

\* The directive as the worker of the file takes it.
Heeded(p) == IF Takes(p) THEN directives[p] ELSE NoDirective
FactItems(p) == {version} \X Heeded(p).facts

\* The requests of a file: its own body, with the facts if it is a batch, and
\* else a synthetic batch with the facts after it.
Requests(p) ==
  LET body(holds) == [batch |-> disk[p].batch, holds |-> holds]
  IN  CASE Heeded(p).mode = "append" -> <<body(disk[p].holds \cup FactItems(p))>>
        [] Heeded(p).mode = "synthetic" ->
             <<body(disk[p].holds), [batch |-> TRUE, holds |-> FactItems(p)]>>
        [] OTHER -> <<body(disk[p].holds)>>

Active(p) == running /\ p \in DOMAIN sent
Succeeded(p) == {i \in DOMAIN sent[p] : sent[p][i]}
Rejected(p) == DOMAIN sent[p] \ Succeeded(p)
DeliveredOf(p) == UNION {Requests(p)[i].holds : i \in Succeeded(p)}

Sending(p) == Active(p) /\ Len(sent[p]) < Len(Requests(p))
Body(p) == Requests(p)[Len(sent[p]) + 1].holds

\* The intake accepts the next request.
Accepts(p) ==
  /\ delivered' = Plus(delivered, Body(p))
  /\ accepted' = accepted \cup (Body(p) \X {p})
  /\ placed' = placed \cup (FactItems(p) \X {p})

\* The next request is sent, whatever became of the one before.
Send(p) ==
  /\ Sending(p)
  /\ \E ok \in BOOLEAN :
       /\ sent' = [sent EXCEPT ![p] = Append(@, ok)]
       /\ IF ok THEN Accepts(p) ELSE UNCHANGED intake
  /\ UNCHANGED <<disk, planned, again, faults>>

Settle(p) == sent' = [q \in DOMAIN sent \ {p} |-> sent[q]]

Fault == faults < MaxFaults /\ faults' = faults + 1

\* An attempt is accepted, its answer lost, and the request not yet settled.
AnswerLost(p) ==
  /\ Sending(p) /\ Fault /\ Accepts(p) /\ again' = Plus(again, Body(p))
  /\ UNCHANGED <<disk, planned, sent>>

\* An OSError or HttpTransportError leaves the loop; the handler makes it a
\* FAILED result, and the file stays as it was.
PostRaises(p) ==
  /\ Sending(p) /\ Settle(p)
  /\ \/ UNCHANGED intake /\ again' = Plus(again, DeliveredOf(p))
     \/ Accepts(p) /\ again' = Plus(again, DeliveredOf(p) \cup Body(p))
  /\ UNCHANGED <<disk, planned, faults>>

\* The file stays as it was: what was delivered will be sent again.
Stays(p) == again' = Plus(again, DeliveredOf(p)) /\ UNCHANGED disk

\* Nothing is sent: the file cannot be read or has no metadata, the prefix
\* filter skips it, or the run is dry.
PassOver(p) ==
  /\ Active(p) /\ sent[p] = <<>> /\ Settle(p)
  /\ UNCHANGED <<disk, planned, intake, again, faults>>

AllSent(p) == Active(p) /\ Len(sent[p]) = Len(Requests(p))

\* Every request succeeded: the file is deleted unless it is kept.
CleanUp(p) ==
  /\ AllSent(p) /\ Rejected(p) = {}
  /\ \/ keep /\ Stays(p) /\ UNCHANGED faults
     \/ ~keep /\ disk' = [disk EXCEPT ![p] = NoFile] /\ UNCHANGED <<again, faults>>
     \/ ~keep /\ Fault /\ Stays(p)
  /\ Settle(p)
  /\ UNCHANGED <<planned, intake>>

\* Mutant: the body is retained without the marker.
PersistUnmarked(p, i) ==
  disk' = [disk EXCEPT ![p] = [batch |-> Requests(p)[i].batch, marked |-> FALSE,
                            holds |-> Requests(p)[i].holds]]

\* _persist_failed_telemetry_request: the rejected body replaces the source,
\* marked.
Persist(p, i) ==
  disk' = [disk EXCEPT ![p] = [batch |-> Requests(p)[i].batch, marked |-> TRUE,
                            holds |-> Requests(p)[i].holds]]

\* Mutant: the source is replaced by the first request.
RetainFirst(p) ==
  /\ AllSent(p) /\ Rejected(p) # {} /\ Stream[p].kind = "telemetry"
  /\ IF keep \/ Succeeded(p) = {} THEN Stays(p) /\ UNCHANGED faults
     ELSE Persist(p, 1) /\ UNCHANGED <<again, faults>>
  /\ Settle(p)
  /\ UNCHANGED <<planned, intake>>

\* Mutant: the source is replaced by the last request.
RetainLast(p) ==
  /\ AllSent(p) /\ Rejected(p) # {} /\ Stream[p].kind = "telemetry"
  /\ IF keep \/ Succeeded(p) = {} THEN Stays(p) /\ UNCHANGED faults
     ELSE Persist(p, Len(sent[p])) /\ UNCHANGED <<again, faults>>
  /\ Settle(p)
  /\ UNCHANGED <<planned, intake>>

\* Some telemetry request failed.  The file stays when none succeeded;
\* otherwise it becomes the one that failed, if it can be written.
RetainTelemetry(p) ==
  /\ AllSent(p) /\ Rejected(p) # {} /\ Stream[p].kind = "telemetry"
  /\ IF keep \/ Succeeded(p) = {} THEN Stays(p) /\ UNCHANGED faults
     ELSE \/ Cardinality(Rejected(p)) = 1 /\ (\E i \in Rejected(p) : Persist(p, i))
             /\ UNCHANGED <<again, faults>>
          \/ Fault /\ Stays(p)
  /\ Settle(p)
  /\ UNCHANGED <<planned, intake>>

\* The one request of a coverage file failed.
RetainCoverage(p) ==
  /\ AllSent(p) /\ Rejected(p) # {} /\ Stream[p].kind = "coverage"
  /\ Settle(p) /\ UNCHANGED <<disk, planned, intake, again, faults>>

\* Every file is settled.
End ==
  /\ running /\ DOMAIN sent = {}
  /\ running' = FALSE
  /\ UNCHANGED <<disk, seen, version, run, keep, directives, attached, sent, intake, again,
                 faults>>

\* The process dies; files that were not settled stay.
Crash ==
  /\ running /\ DOMAIN sent # {} /\ Fault
  /\ running' = FALSE /\ sent' = <<>>
  /\ again' = [i \in Items |-> again[i] + Cardinality({p \in DOMAIN sent : i \in DeliveredOf(p)})]
  /\ UNCHANGED <<disk, seen, version, run, keep, directives, attached, intake>>

Over == ~running /\ run = MaxRuns /\ UNCHANGED vars

FileStep ==
  \E p \in Paths :
    \/ Send(p) \/ AnswerLost(p) \/ PostRaises(p) \/ PassOver(p)
    \/ CleanUp(p) \/ RetainTelemetry(p) \/ RetainCoverage(p)

Next == (\E p \in Paths : Write(p)) \/ Renew \/ Begin \/ FileStep \/ End \/ Crash \/ Over

Spec == Init /\ [][Next]_vars

-----------------------------------------------------------------------------
(* Properties                                                              *)

TypeOK ==
  /\ \A p \in Paths : disk[p] # NoFile =>
       /\ p \in seen /\ disk[p].marked \in BOOLEAN /\ disk[p].holds \subseteq Items
  /\ version \in 1..MaxVersion /\ run \in 0..MaxRuns /\ faults \in 0..MaxFaults
  /\ DOMAIN sent \subseteq {p \in DOMAIN directives : disk[p] # NoFile}
  /\ ~running => DOMAIN sent = {}
  /\ placed \cup accepted \subseteq Items \X Paths

Holds(p, i) == disk[p] # NoFile /\ i \in disk[p].holds

\* What a tracer wrote is delivered or still on disk, through rejected
\* requests, exceptions, replaced files, failed writes and crashes.
NoTelemetryLost == \A p \in seen : <<Own(p), p>> \in accepted \/ Holds(p, Own(p))

\* Facts placed on a file of which some request was accepted are accepted with
\* that file too, or are retained in it, unless it is still at work or had to
\* stay with the tracer's content that was accepted.
FactsKept ==
  \A entry \in placed : LET i == entry[1]  p == entry[2] IN
    \/ entry \in accepted \/ Holds(p, i)
    \/ p \in DOMAIN sent \/ again[Own(p)] > 0

\* A tracer's content is accepted once and a facts file once for each plan
\* that attached it, whichever files it was sent with and in whichever
\* invocation, and once more for every time a file had to stay with it: for
\* an answer lost, a file that could not be, or was asked not to be, removed
\* or replaced, an exception or a crash.
SentOnce == \A i \in Items : delivered[i] <= attached[i] + again[i]
=============================================================================
