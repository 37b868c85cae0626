------------------------------ MODULE Enrichment ------------------------------
(***************************************************************************)
(* What the uploader adds to the events of one test payload file, over the *)
(* invocations that handle it: contexts (resources.py), their selection    *)
(* and the merge into the events (enrichment.py), code owners.             *)
(*                                                                         *)
(* Enrichment changes the worker's copy.  The file gets it only after a    *)
(* partial success, when it is replaced by the failed chunks: the next     *)
(* invocation, with other contexts and rules, enriches those once more.    *)
(*                                                                         *)
(* A value is its origin, <<invocation, number of the context>>.  Every    *)
(* context of an invocation has the same keys; of the payload's metadata   *)
(* only "env" is kept (the runtime-id is in module FileUpload).            *)
(***************************************************************************)
EXTENDS CodeOwners

CONSTANTS
  Inputs,      \* what an invocation may be given, see LoadRefused
  Payloads,    \* files a test may leave: [repo, sidecar, events]
  Writes,      \* invocation -> the keys its contexts have as text and numbers
  Fingerprint, \* the key of a context that never goes into an event
  NoRepo,      \* no sidecar names the repository
  MaxRuns      \* bound: invocations

Nothing == <<0, 0>>
Producer == <<0, 1>>
Sidecar == <<0, 2>>
NoContext == <<0, 3>>

\* Contexts, places and rules are lists; an event is a record whose values a
\* test wrote, its source a path.
ASSUME EnrichmentAssumption ==
  /\ MaxRuns \in Nat
  /\ Fingerprint # "env"
  /\ \A given \in Inputs : \A all \in {given.entries, given.bundled} :
       /\ Len(all) \in Nat /\ DOMAIN all = 1..Len(all)
       /\ \A i \in DOMAIN all : all[i].usable \in BOOLEAN
  /\ \A given \in Inputs :
       /\ DOMAIN given.places \subseteq Nat
       /\ \A i \in DOMAIN given.places : RuleList(given.places[i].lines)
  /\ \A file \in Payloads : \A e \in DOMAIN file.events :
       LET event == file.events[e]
       IN  /\ event = [type |-> event.type, source |-> event.source, owners |-> event.owners,
                       meta |-> event.meta, metrics |-> event.metrics]
           /\ event.source.segs \in Seq(STRING)
           /\ event.meta \in [DOMAIN event.meta -> {Nothing, Producer}]
           /\ event.metrics \in [DOMAIN event.metrics -> {Nothing, Producer}]

VARIABLES
  payload,   \* the file as the test left it, and its sidecar
  disk,      \* the file: [env, events]; events is empty once it is deleted
  run,       \* the number of the current or last invocation
  chosen,    \* what each invocation was given
  copy,      \* the worker's copy, enriched or not yet
  stage,     \* "idle", "loaded" or "enriched"
  sent,      \* what the intake accepted: [run, id, env, event]
  kept       \* history: invocations after which the file held their copy

vars == <<payload, disk, run, chosen, copy, stage, sent, kept>>

Init ==
  /\ payload \in Payloads
  /\ disk = [env |-> Nothing, events |-> payload.events]
  /\ run = 0 /\ chosen = <<>> /\ copy = disk /\ stage = "idle"
  /\ sent = {} /\ kept = {}

-----------------------------------------------------------------------------
(* load_resources                                                          *)

\* given is [override, required, entries, bundled, places]: the override file
\* ("unset", "unreadable" or "readable"), runtime_selection, the contexts of
\* the command line and of the manifest, each [repo, usable], and the places
\* of CODEOWNERS.  Runtime contexts are all valid, or the invocation fails.
LoadRefused(given) ==
  \/ \E i \in DOMAIN given.entries :
       ~given.entries[i].usable \/ \E j \in 1..(i - 1) : given.entries[j].repo = given.entries[i].repo
  \/ given.required /\ given.entries = <<>>

\* The contexts to choose from; the unusable and the repeated ones of the
\* manifest are left out with a warning.
Offered(given) == IF given.entries # <<>> THEN given.entries ELSE given.bundled

Loaded(given) ==
  LET all == Offered(given)
  IN  {i \in DOMAIN all : /\ all[i].usable
                          /\ \A j \in 1..(i - 1) : all[j].usable => all[j].repo # all[i].repo}

\* Runtime contexts are sorted by their keys, which decides about nothing but
\* the primary one.
Primary(given) ==
  IF given.override = "readable" THEN 0
  ELSE IF Loaded(given) = {} THEN -1
  ELSE Min(Loaded(given))

\* Mutant: a single context is taken whatever the selection asks for.
SelectSingle(given, repo) ==
  IF given.override = "readable" \/ Cardinality(Loaded(given)) <= 1 THEN Primary(given)
  ELSE IF \E i \in Loaded(given) : Offered(given)[i].repo = repo
    THEN CHOOSE i \in Loaded(given) : Offered(given)[i].repo = repo
  ELSE -1

\* ContextPlan.select: the number of the context, 0 for the override.
Select(given, repo) ==
  IF given.override = "readable" \/ (~given.required /\ Cardinality(Loaded(given)) <= 1)
    THEN Primary(given)
  ELSE IF \E i \in Loaded(given) : Offered(given)[i].repo = repo
    THEN CHOOSE i \in Loaded(given) : Offered(given)[i].repo = repo
  ELSE -1

-----------------------------------------------------------------------------
(* enrich_test_payload                                                     *)

Context == LET i == Select(chosen[run], payload.repo)
           IN  IF i = -1 THEN NoContext ELSE <<run, i>>

\* The keys the selected context writes.
Written(kind) == IF Context = NoContext THEN {} ELSE Writes[run][kind] \ {Fingerprint}

\* Mutant: a key that is there stays.
MergeKept(old, keys) ==
  [k \in DOMAIN old |->
     IF old[k] # Nothing THEN old[k]
     ELSE IF k \in payload.sidecar THEN Sidecar ELSE IF k \in keys THEN Context ELSE Nothing]

\* _merge_flat_metadata, the context first and then the sidecar.
Merge(old, keys) ==
  [k \in DOMAIN old |->
     IF k \in payload.sidecar THEN Sidecar ELSE IF k \in keys THEN Context ELSE old[k]]

Rules == LoadRules(chosen[run].places)
HasContext == Primary(chosen[run]) # -1

\* enrich_payload_codeowners: spans and tagged events are left alone, and a
\* rule without owners gives no tag.
Own(event) ==
  IF event.type = "span" \/ event.owners # {} THEN event.owners
  ELSE Owners(Rules, event.source, HasContext)

EnrichEvent(event) ==
  [event EXCEPT !.meta = Merge(@, Written("text")),
                !.metrics = [k \in DOMAIN @ |-> IF k \in Written("number") THEN Context ELSE @[k]],
                !.owners = Own(event)]

\* The producer's environment, or the one of the first context that had one.
EnrichEnv(env) ==
  IF env = Nothing /\ Context # NoContext /\ "env" \in Writes[run]["text"] THEN Context ELSE env

-----------------------------------------------------------------------------
(* The invocations                                                         *)

Begin ==
  /\ stage = "idle" /\ disk.events # <<>> /\ run < MaxRuns
  /\ \E given \in Inputs :
       /\ chosen' = Append(chosen, given)
       /\ stage' = IF LoadRefused(given) THEN "idle" ELSE "loaded"
  /\ run' = run + 1 /\ copy' = disk
  /\ UNCHANGED <<payload, disk, sent, kept>>

Enrich ==
  /\ stage = "loaded" /\ stage' = "enriched"
  /\ copy' = [env |-> EnrichEnv(copy.env),
              events |-> [e \in DOMAIN copy.events |-> EnrichEvent(copy.events[e])]]
  /\ UNCHANGED <<payload, disk, run, chosen, sent, kept>>

Sent(accepted) ==
  sent \cup {[run |-> run, id |-> e, env |-> copy.env, event |-> copy.events[e]] : e \in accepted}

\* The intake accepts some chunks: all, and the file is deleted; some, and it
\* is replaced by the others; none, and it stays as it was.
Deliver ==
  /\ stage = "enriched" /\ stage' = "idle"
  /\ \E accepted \in SUBSET DOMAIN copy.events :
       LET left == DOMAIN copy.events \ accepted
       IN  /\ sent' = Sent(accepted)
           /\ disk' = IF accepted = {} THEN disk
                      ELSE [copy EXCEPT !.events = [e \in left |-> copy.events[e]]]
           /\ kept' = IF accepted # {} /\ left # {} THEN kept \cup {run} ELSE kept
  /\ copy' = disk'
  /\ UNCHANGED <<payload, run, chosen>>

\* The file is kept as it was although chunks may have been accepted: a crash,
\* a failing replacement, --keep-payloads.
Leave ==
  /\ stage # "idle" /\ stage' = "idle"
  /\ \E accepted \in SUBSET DOMAIN copy.events :
       /\ stage = "loaded" => accepted = {}
       /\ sent' = Sent(accepted)
  /\ copy' = disk
  /\ UNCHANGED <<payload, disk, run, chosen, kept>>

Finished ==
  /\ stage = "idle" /\ (run = MaxRuns \/ disk.events = <<>>)
  /\ UNCHANGED vars

Next == Begin \/ Enrich \/ Deliver \/ Leave \/ Finished

Spec == Init /\ [][Next]_vars

-----------------------------------------------------------------------------
(* Properties                                                              *)

\* The invocations whose enrichment an accepted event went through.
Through(c) == {r \in kept : r < c.run} \cup {c.run}

Given(r) == chosen[r]
ContextIn(r) == <<r, Select(Given(r), payload.repo)>>
WrittenIn(r, kind) ==
  IF ContextIn(r)[2] = -1 THEN {} ELSE Writes[r][kind] \ {Fingerprint}

\* The places of a value in an accepted event.
Values(c) ==
  {c.env} \cup {c.event.meta[k] : k \in DOMAIN c.event.meta}
          \cup {c.event.metrics[k] : k \in DOMAIN c.event.metrics}

\* An event carries values of the repository its sidecar names; those of
\* another one only from the override, or when without runtime selection a
\* single usable context is left, also if others were bundled but unusable.
OwnContext ==
  \A c \in sent : \A value \in Values(c) : value[1] > 0 =>
    LET given == Given(value[1])
        usable == {i \in DOMAIN Offered(given) : Offered(given)[i].usable}
    IN  IF given.override = "readable" THEN value[2] = 0
        ELSE /\ value[2] \in usable
             /\ \/ Offered(given)[value[2]].repo = payload.repo
                \/ /\ ~given.required
                   /\ \A i, j \in usable : Offered(given)[i].repo = Offered(given)[j].repo

\* Every value is explained: the sidecar's before all, else the one of the
\* last invocation that wrote the key there and whose copy the file got, else
\* the producer's.  The payload's environment is that of the first one.
TagsExplained ==
  \A c \in sent :
    LET writers(k, kind) == {r \in Through(c) : k \in WrittenIn(r, kind)}
        produced == payload.events[c.id]
    IN  /\ \A k \in DOMAIN produced.meta :
             c.event.meta[k] =
               IF k \in payload.sidecar THEN Sidecar
               ELSE IF writers(k, "text") = {} THEN produced.meta[k]
               ELSE ContextIn(Max(writers(k, "text")))
        /\ \A k \in DOMAIN produced.metrics :
             c.event.metrics[k] =
               IF writers(k, "number") = {} THEN produced.metrics[k]
               ELSE ContextIn(Max(writers(k, "number")))
        /\ c.env = IF writers("env", "text") = {} THEN Nothing
                   ELSE ContextIn(Min(writers("env", "text")))

\* The owners are the producer's, or what the rules of the first invocation
\* that found any and whose copy the file got mean for the source; a span has
\* none.  Later rules do not change them.
OwnersExplained ==
  \A c \in sent :
    LET produced == payload.events[c.id]
        meant(r) == OwnersByReference(LoadRules(Given(r).places), produced.source,
                                      Primary(Given(r)) # -1)
        found == {r \in Through(c) : meant(r) # {}}
    IN  c.event.owners =
          IF produced.type = "span" \/ produced.owners # {} \/ found = {} THEN produced.owners
          ELSE meant(Min(found))
=============================================================================
