----------------------------- MODULE MCInvocation -----------------------------
(***************************************************************************)
(* Instances of Invocation for TLC: two targets, the second with the name  *)
(* of a shard of the first, so that the output of one may be an attempt of *)
(* the other; BEPs of up to two events.                                    *)
(***************************************************************************)
EXTENDS Invocation, TLC

CONSTANTS none, nokey, nooutput

T1 == [external |-> FALSE, package |-> <<"p">>, name |-> <<"t">>]
T2 == [external |-> FALSE, package |-> <<"p">>, name |-> <<"t", "shard_1_of_2">>]
Twin == [external |-> FALSE, package |-> <<>>, name |-> <<"p", "t">>]
Foreign == [external |-> TRUE, package |-> <<"p">>, name |-> <<"t">>]
K1 == <<"p", "t", "test.outputs">>
K2 == <<"p", "t", "shard_1_of_2", "test.outputs">>

MCKeys == {K1, K2}
MCAttemptDirs == {"shard_1_of_2"}

NoFile == [state |-> "absent", labels |-> <<>>]
Reads(labels) == [state |-> "read", labels |-> labels]
Expect(static, listed, runtime, selection) ==
  [static |-> static, file |-> listed, runtime |-> runtime, runtimeSelection |-> selection]
Nothing == Expect(<<>>, NoFile, <<>>, FALSE)
One == Expect(<<T1>>, Reads(<<T1>>), <<>>, FALSE)
Both == Expect(<<>>, Reads(<<T1, T2>>), <<>>, FALSE)
Chosen == Expect(<<>>, NoFile, <<T2>>, TRUE)
Twins == Expect(<<T1, Twin>>, NoFile, <<>>, FALSE)
BadExpectations ==
  {Expect(<<T1, T1>>, NoFile, <<>>, FALSE), Expect(<<Foreign>>, NoFile, <<>>, FALSE),
   Expect(<<T1>>, Reads(<<T2>>), <<>>, FALSE), Expect(<<T1>>, Reads(<<>>), <<>>, FALSE),
   Expect(<<>>, [NoFile EXCEPT !.state = "unresolved"], <<>>, FALSE),
   Expect(<<>>, Reads(<<T1, T1>>), <<>>, FALSE), Expect(<<>>, NoFile, <<>>, TRUE),
   Expect(<<T1>>, NoFile, <<T2>>, FALSE), Expect(<<>>, NoFile, <<T2, T2>>, TRUE)}

\* The recommended CI configuration, and what differs from it.
CI == [expected |-> Both, source |-> "bep", mode |-> "required", ci |-> TRUE,
       bep |-> "readable", log |-> "absent", logEntries |-> {}, doctor |-> TRUE,
       artifacts |-> "bep", remoteArtifacts |-> "download", local |-> TRUE,
       failOnError |-> TRUE, dryRun |-> FALSE, credentials |-> TRUE]
LogEntries == {[label |-> T1, key |-> K1, cached |-> FALSE],
               [label |-> T2, key |-> K2, cached |-> TRUE]}
Logged == [CI EXCEPT !.source = "execution_log", !.mode = "optional",
                     !.artifacts = "auto", !.log = "readable",
                     !.logEntries = LogEntries]
LocalOnly == [CI EXCEPT !.source = "auto", !.mode = "auto", !.artifacts = "local",
                    !.remoteArtifacts = "disabled"]
Lenient == [LocalOnly EXCEPT !.mode = "optional", !.ci = FALSE, !.failOnError = FALSE]

MCConfigs ==
  {[CI EXCEPT !.expected = x] : x \in {Nothing, Both, Twins}}
  \cup {[CI EXCEPT !.remoteArtifacts = "required", !.mode = "disabled", !.artifacts = "auto",
                    !.local = FALSE],
        [LocalOnly EXCEPT !.mode = "optional", !.expected = One]}
  \cup {[Logged EXCEPT !.expected = One, !.local = FALSE], [Logged EXCEPT !.log = "missing"],
        [Logged EXCEPT !.bep = "absent"], [LocalOnly EXCEPT !.local = FALSE],
        Lenient, [Lenient EXCEPT !.expected = Nothing, !.dryRun = TRUE],
        [Lenient EXCEPT !.bep = "missing", !.expected = Chosen], [Lenient EXCEPT !.bep = "corrupt"]}

\* Configurations that fail before any output is looked at.
RefusedConfigs ==
  {[LocalOnly EXCEPT !.expected = x] : x \in BadExpectations}
  \cup {[CI EXCEPT !.bep = b] : b \in {"absent", "missing", "corrupt"}}
  \cup {[CI EXCEPT !.doctor = FALSE], [CI EXCEPT !.credentials = FALSE],
        [LocalOnly EXCEPT !.bep = "absent"],
        [LocalOnly EXCEPT !.source = "execution_log"]}

\* What the execution log says is fresh, with artifacts from the BEP.
LoggedConfigs == {[Logged EXCEPT !.expected = x] : x \in {Nothing, One}}

AllConfigs == MCConfigs \cup RefusedConfigs

\* What Bazel reports for a test.
Ref(key, remote, hint, fetch) ==
  [key |-> key, remote |-> remote, hint |-> hint, carrier |-> hint, fetch |-> fetch]
Result(label, cached, refs) ==
  [kind |-> "result", label |-> label, cached |-> cached, outputs |-> refs]
Kept(key) == Ref(key, FALSE, TRUE, "kept")
Remote(key) == Ref(key, TRUE, TRUE, "remote")
LogFile == Ref(nokey, TRUE, FALSE, "log")
LogOf(key) == Ref(key, TRUE, FALSE, "log")

Events ==
  {Result(T1, FALSE, {Kept(K1)}), Result(T1, FALSE, {Remote(K1), LogFile}),
   Result(T1, TRUE, {Kept(K1)}), Result(T1, FALSE, {LogFile}), Result(T1, FALSE, {LogOf(K1)}),
   Result(T1, FALSE, {}), Result(T1, FALSE, {Ref(nokey, TRUE, TRUE, "remote")}),
   Result(T2, FALSE, {Kept(K2)}), Result(T2, FALSE, {Remote(K2)}),
   Result(T1, FALSE, {Remote(K2)}),
   Result(T2, TRUE, {Kept(K2)}), [kind |-> "skip", label |-> T2]}

MCBeps == {e \in SUBSET Events : Cardinality(e) <= 2 /\ OneTargetPerKey(e)}

MCPayloadFiles == {"tests", "coverage"}
MCArtifacts == {{}, {"tests"}}

\* The local outputs under the two keys.  The metadata names a target or is
\* missing, and there are no, one or two files.
Tests == [meta |-> T1, files |-> {"tests"}]
Local(first, second) == [k \in MCKeys |-> IF k = K1 THEN first ELSE second]
MCLocalTrees ==
  {Local(nooutput, nooutput), Local(Tests, Tests),
   Local([Tests EXCEPT !.meta = none], nooutput), Local([Tests EXCEPT !.files = {}], Tests),
   Local([Tests EXCEPT !.files = MCPayloadFiles], nooutput)}
=============================================================================
