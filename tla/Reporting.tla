------------------------------- MODULE Reporting -------------------------------
(***************************************************************************)
(* The aggregate report of an invocation (reporting.py) and the public     *)
(* document made from it.  A report is what the workers returned: a status *)
(* per processed file and the number of files that were never entered;     *)
(* "partial" is a failed file some of whose requests succeeded.  Files are *)
(* counted one by one, outputs skipped by freshness as outputs.  One       *)
(* payload type stands for the three; times, warnings, the wording and the *)
(* older counters of telemetry, which count requests, are left out.        *)
(***************************************************************************)
EXTENDS Naturals, FiniteSets

FailedStatuses == {"failed", "partial"}
FileResults == {"succeeded", "skipped"} \cup FailedStatuses

\* AggregateReport.create: one result per task, by construction a function.
Aggregate(results, cancelled) == [results |-> results, cancelled |-> cancelled]

EmptyReport == Aggregate(<<>>, 0)

StatusCount(report, statuses) ==
  Cardinality({k \in DOMAIN report.results : report.results[k] \in statuses})

ResultName(report, exit) ==
  IF exit = 0 THEN "success"
  ELSE IF StatusCount(report, {"succeeded", "partial"}) > 0 THEN "partial_failure"
  ELSE "failure"

Statistics(report, discovered) ==
  LET processed == Cardinality(DOMAIN report.results)
  IN  [discovered |-> discovered, processed |-> processed,
       eligible |-> processed + report.cancelled,
       succeeded |-> StatusCount(report, {"succeeded"}),
       failed |-> StatusCount(report, FailedStatuses),
       skipped |-> StatusCount(report, {"skipped"}), cancelled |-> report.cancelled]

\* _legacy_payload_type_counts, where processed means successful.
LegacyCounts(report) ==
  [processed |-> StatusCount(report, {"succeeded"}),
   failed |-> StatusCount(report, FailedStatuses),
   skipped |-> StatusCount(report, {"skipped"})]

\* schema_v1_report, given what the invocation adds to the report.  A file that
\* succeeded had a request attempted, unless in a dry run.
Document(report, exit, reason, dryRun, context) ==
  LET legacy == LegacyCounts(report)
  IN  [status |-> IF exit = 0 THEN "ok" ELSE "fail", reason |-> reason,
       result |-> ResultName(report, exit),
       files |-> Statistics(report, context.discovered),
       context |-> context,
       uploaded |-> IF ~dryRun THEN legacy.processed ELSE 0,
       failures |-> legacy.failed]

\* _result_reason, when no stage of the invocation has left a reason.
ResultReason(exit, dryRun, attempted, context) ==
  IF context.outputs = 0 THEN "no_test_outputs_found"
  ELSE IF context.discovered = 0 THEN "no_payload_json_found"
  ELSE IF exit # 0 /\ attempted THEN "upload_failed_http"
  ELSE IF exit # 0 THEN "payload_enrichment_failed"
  ELSE IF dryRun THEN "upload_skipped_dry_run" ELSE "ok"
=============================================================================
