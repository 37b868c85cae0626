----------------------------- MODULE MCTelemetry -----------------------------
(***************************************************************************)
(* An instance of Telemetry for TLC: of one service, a single message of a *)
(* java process, a batch of another one, a batch of a python process whose *)
(* payload is no list, and a coverage file; facts of the java side, of     *)
(* which one names no environment, and facts of a service that left no     *)
(* telemetry.                                                              *)
(***************************************************************************)
EXTENDS Telemetry, TLC

CONSTANT nofile

Written(kind, language, batch, list) ==
  [kind |-> kind, service |-> "s", language |-> language, batch |-> batch, list |-> list]

FourPaths == 1..4
FourStreams ==
  <<Written("telemetry", "java", FALSE, FALSE), Written("telemetry", "java", TRUE, TRUE),
    Written("telemetry", "python", TRUE, FALSE), Written("coverage", "java", FALSE, FALSE)>>

FactsFile(service, env) == [service |-> service, runtime |-> "java", env |-> env, empty |-> FALSE]
ThreeFacts == {FactsFile("s", "ci"), FactsFile("s", ""), FactsFile("other", "prod")}
=============================================================================
