------------------------------- MODULE Freshness -------------------------------
(***************************************************************************)
(* Which outputs an invocation may upload: the Build Event Protocol files  *)
(* as the doctor parses them (test_optimization_doctor.py), staging of the *)
(* artifacts they name, the plan built from them, and its use before and   *)
(* after the workers (freshness.py).                                       *)
(*                                                                         *)
(* A pair is <<label, output key>>.  A BEP is a set of events: a result    *)
(* [kind, label, cached, outputs] or a platform skip [kind, label]; each   *)
(* output is [key, remote, hint, carrier, fetch].  Abstracted: how keys    *)
(* are read from URIs, archive and download formats (a carrier may or may  *)
(* not materialise), and warnings.                                         *)
(***************************************************************************)
EXTENDS ExpectedTargets

CONSTANT NoKey  \* the output of an event cannot be mapped to a key

-----------------------------------------------------------------------------
(* Choosing the source                                                     *)

StagingRequested(c) ==
  \/ c.artifacts = "bep"
  \/ c.artifacts = "auto" /\ c.remoteArtifacts # "disabled"

FreshnessRequired(c) == c.mode = "required" \/ (c.mode = "auto" /\ c.ci)

Sources(c) ==
  {s \in {"bep", "execution_log"} :
     IF s = "bep" THEN c.bep # "absent" ELSE c.log # "absent"}

\* _select_source: the source asked for, or BEP before the execution log.
SelectSource(c) ==
  LET asked == IF c.source # "auto" THEN c.source
               ELSE IF "bep" \in Sources(c) THEN "bep" ELSE "execution_log"
  IN  IF c.mode = "disabled" THEN "none"
      ELSE IF asked \in Sources(c) THEN asked
      ELSE IF FreshnessRequired(c) THEN "refused" ELSE "none"

\* prepare_freshness: whether the BEP has to be read, and whether it may be
\* done without.
BepNeeded(c, source) == source = "bep" \/ StagingRequested(c)
BepOptional(c) == c.mode = "optional" /\ ~StagingRequested(c)

SourceRefused(c) ==
  \/ StagingRequested(c) /\ c.bep = "absent"
  \/ SelectSource(c) = "refused"
  \/ /\ BepNeeded(c, SelectSource(c))
     /\ IF c.bep = "missing" THEN ~BepOptional(c) ELSE ~c.doctor

-----------------------------------------------------------------------------
(* Reading the BEP                                                         *)

Results(events) == {e \in events : e.kind = "result"}
MappedPairs(e) == {<<e.label, o.key>> : o \in {out \in e.outputs : out.key # NoKey}}

\* References only a remote store has.  A log kept remotely does not count
\* next to a mapped test.outputs.
RemotePairs(e) ==
  IF e.cached THEN {}
  ELSE {<<e.label, o.key>> :
          o \in {out \in e.outputs : out.remote /\ (out.hint \/ MappedPairs(e) = {})}}

\* A reference that can be staged names a supported carrier, and a key when
\* it is remote.
References(events) ==
  UNION {{[label |-> e.label, cached |-> e.cached, key |-> o.key,
           remote |-> o.remote, hint |-> o.hint, fetch |-> o.fetch,
           stageable |-> o.carrier /\ (o.remote => o.key # NoKey)] :
            o \in e.outputs} : e \in Results(events)}

\* _parse_bep_freshness: what the events say of each pair and label.
ParseBep(events) ==
  LET executed == {e \in Results(events) : ~e.cached}
      local == {e \in executed : RemotePairs(e) = {}}
  IN  [eligible |-> UNION {MappedPairs(e) : e \in local},
       cached   |-> UNION {MappedPairs(e) : e \in Results(events) \ executed},
       remote   |-> UNION {RemotePairs(e) : e \in executed},
       unmapped |-> {e.label : e \in {x \in local : MappedPairs(x) = {}}},
       skipped  |-> {e.label : e \in events \ Results(events)},
       refs     |-> References(events)]

\* The events contradict each other: the BEP files overlap.
BepAmbiguous(events) ==
  LET facts == ParseBep(events)
  IN  \/ facts.eligible \cap facts.cached # {}
      \/ facts.skipped \cap {e.label : e \in Results(events)} # {}

-----------------------------------------------------------------------------
(* Staging the artifacts                                                   *)

\* _selected_bep_artifact_outputs: the references staging is to materialise.
Candidates(refs, remoteArtifacts) ==
  {r \in refs : /\ ~r.cached /\ r.stageable /\ r.key # NoKey
                /\ ~(r.remote /\ remoteArtifacts = "disabled")}

PairsOf(refs) == {<<r.label, r.key>> : r \in refs}

\* _dedupe_stageable_artifact_references: pairs with two distinct carriers.
AmbiguousCarriers(refs, remoteArtifacts) ==
  {p \in PairsOf(Candidates(refs, remoteArtifacts)) :
     Cardinality({<<r.remote, r.fetch>> :
       r \in {x \in Candidates(refs, remoteArtifacts) : <<x.label, x.key>> = p}}) > 1}

Stageable(refs, remoteArtifacts) ==
  PairsOf(Candidates(refs, remoteArtifacts)) \ AmbiguousCarriers(refs, remoteArtifacts)

\* _stage_bep_artifacts fails, once remote artifacts are required, unless
\* everything that was executed could be staged.
StagingFails(refs, remoteArtifacts, staged) ==
  /\ remoteArtifacts = "required"
  /\ \/ AmbiguousCarriers(refs, remoteArtifacts) # {}
     \/ \E r \in refs : ~r.cached /\ r.hint /\ (r.key = NoKey \/ (r.remote /\ ~r.stageable))
     \/ staged # Stageable(refs, remoteArtifacts)

\* _blocked_bep_artifact_labels: labels that must not fall back to local files.
Blocked(refs, remoteArtifacts) ==
  IF remoteArtifacts # "download" THEN {}
  ELSE {r.label : r \in {x \in refs : ~x.cached /\ x.hint /\ x.key = NoKey}}

\* _apply_staged_bep_artifacts_to_freshness.
StagedConflict(facts, staged) == staged \cap facts.cached # {}
ApplyStaged(facts, staged) ==
  [facts EXCEPT !.eligible = @ \cup staged, !.remote = @ \ staged]

-----------------------------------------------------------------------------
(* The plan                                                                *)

EmptyPlan ==
  [source |-> "none", enabled |-> FALSE, eligible |-> {}, cached |-> {},
   remote |-> {}, unmapped |-> {}, skipped |-> {}, blocked |-> {}, selected |-> {}]

\* _parse_execution_log: the pairs of the test actions that really ran.
ParseExecutionLog(entries) ==
  {<<e.label, e.key>> : e \in {x \in entries : ~x.cached}}

\* The plan keeps what concerns the expected targets, if there are any.
Expected(pairs, targets) == {p \in pairs : targets = {} \/ p[1] \in targets}
ExpectedLabels(labels, targets) == {l \in labels : targets = {} \/ l \in targets}

\* _build_plan from the execution log.  What staging selected and blocked is
\* not part of this plan.
LogPlan(entries, targets) ==
  [EmptyPlan EXCEPT !.source = "execution_log", !.enabled = TRUE,
                    !.eligible = Expected(ParseExecutionLog(entries), targets)]

\* _build_plan from the BEP, which is also read when only staging asks for it.
BepPlan(source, facts, targets, remoteArtifacts, staging) ==
  [source   |-> source,
   enabled  |-> source = "bep",
   eligible |-> Expected(facts.eligible, targets),
   cached   |-> Expected(facts.cached, targets),
   remote   |-> Expected(facts.remote, targets),
   unmapped |-> ExpectedLabels(facts.unmapped, targets),
   skipped  |-> ExpectedLabels(facts.skipped, targets),
   blocked  |-> IF staging THEN Blocked(facts.refs, remoteArtifacts) ELSE {},
   selected |-> IF staging THEN PairsOf(Candidates(facts.refs, remoteArtifacts)) ELSE {}]

PlanRefused(c, plan) ==
  /\ plan.remote # {}
  /\ c.mode = "required" \/ c.remoteArtifacts = "required"

-----------------------------------------------------------------------------
(* Using the plan                                                          *)

\* application._no_expected_payloads: every expected target is cached or
\* skipped, and nothing else is known.
NoExpectedPayloads(plan, targets) ==
  /\ targets # {}
  /\ {p[1] : p \in plan.cached} \cup plan.skipped = targets
  /\ plan.eligible = {} /\ plan.remote = {} /\ plan.unmapped = {}

\* Mutant: a fresh output makes every output of its target eligible.
AdmissionByLabel(plan, mode, label, key) ==
  IF label \in plan.blocked THEN "skip"
  ELSE IF ~plan.enabled \/ label \in {p[1] : p \in plan.eligible} THEN "take"
  ELSE IF label = NoLabel /\ plan.source = "bep" /\ mode = "required" THEN "refuse"
  ELSE "skip"

\* filter_discovery_for_freshness, for one output with payload files.
Admission(plan, mode, label, key) ==
  IF label \in plan.blocked THEN "skip"
  ELSE IF ~plan.enabled \/ <<label, key>> \in plan.eligible THEN "take"
  ELSE IF label = NoLabel /\ plan.source = "bep" /\ mode = "required" THEN "refuse"
  ELSE "skip"

Represented(plan) ==
  {p[1] : p \in plan.eligible \cup plan.cached \cup plan.remote} \cup plan.skipped

\* Mutant: one handled file accounts for every expected target.
AccountingOfAny(plan, targets, failOnError, handled) ==
  IF plan.source # "bep" THEN 0
  ELSE IF targets \ Represented(plan) # {} THEN 1
  ELSE IF ~failOnError THEN 0
  ELSE IF plan.eligible # {} /\ handled = {} THEN 1
  ELSE IF plan.remote # {} THEN 2 ELSE 0

\* validate_fresh_outputs_accounted: 0, or the exit code of its error, given
\* the pairs whose file has a result that is not a skip.
AccountingError(plan, targets, failOnError, handled) ==
  IF plan.source # "bep" THEN 0
  ELSE IF targets \ Represented(plan) # {} THEN 1
  ELSE IF ~failOnError THEN 0
  ELSE IF targets = {} THEN IF plan.eligible # {} /\ handled = {} THEN 1 ELSE 0
  ELSE IF {p[1] : p \in plan.eligible} \ {p[1] : p \in handled} # {} THEN 1
  ELSE IF plan.remote # {} THEN 2 ELSE 0
=============================================================================
