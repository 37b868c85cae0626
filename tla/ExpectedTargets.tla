---------------------------- MODULE ExpectedTargets ----------------------------
(***************************************************************************)
(* Which Bazel targets an invocation expects (expected_targets.py), and    *)
(* which discovered test.outputs directories belong to them.               *)
(*                                                                         *)
(* A label is a record of its package and name components; an output key   *)
(* is the sequence of its path components.  Abstracted: character rules of *)
(* labels beyond those kept in ValidLabel, and JSON decoding (a file is    *)
(* absent, unresolved, malformed, which includes unsorted, or read).       *)
(***************************************************************************)
EXTENDS Naturals, FiniteSets, SequencesExt

CONSTANTS
  AttemptDirs,  \* directory names that match _BAZEL_TEST_ATTEMPT_DIRECTORY
  NoLabel       \* None: the target of an output is not known

-----------------------------------------------------------------------------
(* The expected targets                                                    *)

\* _validate_label: a local label, fully expanded, with clean components.
ValidLabel(label) ==
  /\ ~label.external
  /\ label.name # <<>>
  /\ \A part \in ToSet(label.package \o label.name) : part \notin {"", ".", ".."}

\* Labels of one source: each valid, none twice.
CleanLabels(labels) ==
  /\ IsInjective(labels)
  /\ \A label \in ToSet(labels) : ValidLabel(label)

\* _load_target_file: the labels the configured file lists.
FileLabels(in) == IF in.file.state = "read" THEN in.file.labels ELSE <<>>

\* What the rule configures: the static list, or else the file's.
Configured(in) == ToSet(IF in.static # <<>> THEN in.static ELSE FileLabels(in))

\* Each way load_expected_targets refuses its inputs.
TargetsRefused(in) ==
  \/ ~CleanLabels(in.static)
  \/ in.file.state \in {"unresolved", "malformed"}
  \/ ~CleanLabels(FileLabels(in))
  \/ /\ in.file.state = "read" /\ in.static # <<>>
     /\ ToSet(in.static) # ToSet(FileLabels(in))
  \/ ~CleanLabels(in.runtime)
  \/ /\ in.runtime # <<>> /\ Configured(in) # {}
     /\ ToSet(in.runtime) # Configured(in)
  \/ in.runtime = <<>> /\ in.runtimeSelection

\* load_expected_targets: the runtime labels, or else the configured ones.
LoadExpectedTargets(in) ==
  IF in.runtime # <<>> THEN ToSet(in.runtime) ELSE Configured(in)

-----------------------------------------------------------------------------
(* The outputs of the expected targets                                     *)

TargetOutputParts(label) == label.package \o label.name

\* The path of the target, then attempt directories only, then test.outputs.
OutputBelongsToTarget(key, label) ==
  LET expected == TargetOutputParts(label)
  IN  /\ key # <<>> /\ Last(key) = "test.outputs"
      /\ IsPrefix(expected, key)
      /\ \A i \in Len(expected) + 1 .. Len(key) - 1 : key[i] \in AttemptDirs

\* The most specific targets an output belongs to.
Owners(key, targets) ==
  LET matches == {t \in targets : OutputBelongsToTarget(key, t)}
  IN  {t \in matches : \A u \in matches :
         Len(TargetOutputParts(u)) <= Len(TargetOutputParts(t))}

Owner(key, targets) == CHOOSE t \in Owners(key, targets) : TRUE

\* select_expected_outputs: refused when an output has two owners or a target
\* has no output.
SelectionRefused(keys, targets, allowMissing) ==
  \/ \E key \in keys : Cardinality(Owners(key, targets)) > 1
  \/ /\ ~allowMissing
     /\ \E t \in targets : \A key \in keys : t \notin Owners(key, targets)

\* The outputs kept, with the target their tasks are stamped with.
SelectExpectedOutputs(keys, targets) ==
  IF targets = {} THEN [key \in keys |-> NoLabel]
  ELSE [key \in {k \in keys : Owners(k, targets) # {}} |-> Owner(key, targets)]
=============================================================================
