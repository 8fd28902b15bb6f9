------------------------------- MODULE CloudRun -------------------------------
(***************************************************************************)
(* The Grafana Cloud backend (internal/provider/cloud): one test run of    *)
(* the cloud, as GrafanaCloudProvider sees it through two APIs. The v6 API *)
(* starts, retrieves and aborts the run; once it has a verdict on the      *)
(* thresholds, five queries of the v5 API fetch its metrics one by one.    *)
(* The cloud is not part of the repository: what it does is read off       *)
(* mapToRunState and parseAggregateValue, which expects that the metrics   *)
(* of a run may not be there yet.                                          *)
(*                                                                         *)
(* An id is a text in the configuration; here a number, which is 0 for a   *)
(* text that is none.                                                      *)
(***************************************************************************)
EXTENDS Integers, Sequences

CONSTANTS
  IDs,         \* the test and stack ids that may be configured
  MaxInt32,    \* the largest id
  CloudFaults  \* what may go wrong, a subset of AllCloudFaults

AllCloudFaults == {"requestError", "queryError"}

ASSUME IDsAssumption         == IDs \subseteq Nat /\ MaxInt32 \in Nat
ASSUME CloudFaultsAssumption == CloudFaults \subseteq AllCloudFaults

ParseID(text) == {text} \cap 1 .. MaxInt32

Statuses == {"created", "queued", "initializing", "running", "processing_metrics",
             "completed", "aborted"}
Results  == {"nil", "passed", "failed", "error"}

\* The fields of a RunResult and the queries they are from, in their order.
Query == << [field |-> "HTTPReqFailed", metric |-> "http_req_failed",   func |-> "rate"],
            [field |-> "P50",           metric |-> "http_req_duration", func |-> "0.50"],
            [field |-> "P95",           metric |-> "http_req_duration", func |-> "0.95"],
            [field |-> "P99",           metric |-> "http_req_duration", func |-> "0.99"],
            [field |-> "HTTPReqs",      metric |-> "http_reqs",         func |-> "rate"] >>

Fields == {Query[i].field : i \in DOMAIN Query}

VARIABLES
  testID, stackID,  \* of the configuration
  (* the cloud *)
  status,    \* the status type of the run; "none" before it is started
  result,    \* its result
  measured,  \* the queries there is data for
  (* GetRunResult *)
  query,     \* the v5 query it is at; 0 when there is none
  building,  \* the RunResult that is being filled in
  reported   \* the last RunResult, or error

cloudVars == <<testID, stackID, status, result, measured, query, building, reported>>

\* A RunResult. A field is 0 or holds the value that a query gave, which is
\* represented by the place of the query.
Verdict(state) == [state |-> state, metrics |-> [f \in Fields |-> 0]]

NoResult == Verdict("none")
NoAnswer == Verdict("error")

CloudInit ==
  /\ testID \in IDs
  /\ stackID \in IDs
  /\ status = "none"
  /\ result = "nil"
  /\ measured = {}
  /\ query = 0
  /\ building = NoResult
  /\ reported = NoResult

-----------------------------------------------------------------------------
(* The calls. A run that was not started cannot be named in one.           *)

MayRequest == ParseID(stackID) # {}

\* TriggerRun.
LoadTestsStart ==
  /\ status = "none"
  /\ ParseID(testID) # {}
  /\ MayRequest
  /\ \/ status' = "created"
     \/ "requestError" \in CloudFaults /\ UNCHANGED status
  /\ UNCHANGED <<testID, stackID, result, measured, query, building, reported>>

\* Takes the metrics to be there when the run is over.
BugMapToRunState(s, r) ==
  CASE s = "processing_metrics" -> "Passed"
    [] s = "aborted" -> "Aborted"
    [] s = "completed" /\ r \in {"passed", "failed"} ->
         IF r = "passed" THEN "Passed" ELSE "Failed"
    [] s = "completed" -> "Errored"
    [] OTHER -> "Running"

\* The status decides, and the result of a run that is completed.
MapToRunState(s, r) ==
  CASE s = "completed" /\ r = "passed" -> "Passed"
    [] s = "completed" /\ r = "failed" -> "Failed"
    [] s = "aborted" -> "Aborted"
    [] s \in Statuses \ {"completed", "aborted"} -> "Running"
    [] OTHER -> "Errored"

\* GetRunResult up to the queries, if there are any.
TestRunsRetrieve ==
  LET state == MapToRunState(status, result)
  IN  /\ status # "none"
      /\ query = 0
      /\ \/ /\ MayRequest
            /\ IF state \in {"Passed", "Failed"}
               THEN query' = 1 /\ building' = Verdict(state) /\ UNCHANGED reported
               ELSE reported' = Verdict(state) /\ UNCHANGED <<query, building>>
         \/ /\ ~MayRequest \/ "requestError" \in CloudFaults
            /\ reported' = NoAnswer
            /\ UNCHANGED <<query, building>>
      /\ UNCHANGED <<testID, stackID, status, result, measured>>

\* The value QueryAggregateMetric returns: 0 when there is no data yet.
AggregateValue(i) == IF i \in measured THEN i ELSE 0

\* Writes a percentile to the field of the next one.
BugFilled(b, i, v) == [b EXCEPT !.metrics[Query[IF i = 3 THEN 4 ELSE i].field] = v]

\* b with the value of query i.
Filled(b, i, v) == [b EXCEPT !.metrics[Query[i].field] = v]

\* populateAggregateMetrics: a query that fails leaves its field as it is.
QueryAggregateMetric ==
  /\ query \in DOMAIN Query
  /\ \E filled \in {Filled(building, query, AggregateValue(query))}
                     \cup (IF "queryError" \in CloudFaults THEN {building} ELSE {}) :
       IF query < Len(Query)
       THEN query' = query + 1 /\ building' = filled /\ UNCHANGED reported
       ELSE query' = 0 /\ building' = NoResult /\ reported' = filled
  /\ UNCHANGED <<testID, stackID, status, result, measured>>

InFlight == status \notin {"none", "completed", "aborted"}

\* StopRun, which has no effect on a run that is over.
TestRunsAbort ==
  /\ MayRequest
  /\ InFlight
  /\ status' = "aborted"
  /\ result' \in {"nil", "error"}
  /\ UNCHANGED <<testID, stackID, measured, query, building, reported>>

-----------------------------------------------------------------------------
(* The cloud.                                                              *)

Successors(s) ==
  CASE s = "created"            -> {"queued", "initializing", "aborted"}
    [] s = "queued"             -> {"initializing", "aborted"}
    [] s = "initializing"       -> {"running", "aborted"}
    [] s = "running"            -> {"processing_metrics", "aborted"}
    [] s = "processing_metrics" -> {"completed"}
    [] OTHER                    -> {}

\* The run goes on, or is aborted by its thresholds, a limit or a user.
CloudMoves ==
  /\ status' \in Successors(status)
  /\ result' \in CASE status' = "completed" -> {"passed", "failed", "error"}
                   [] status' = "aborted"   -> {"nil", "failed", "error"}
                   [] OTHER                 -> {result}
  /\ UNCHANGED <<testID, stackID, measured, query, building, reported>>

\* The metrics of a run, its partial ones too, come in at any time.
DataArrives ==
  /\ status \notin {"none", "created", "queued", "initializing"}
  /\ \E i \in DOMAIN Query \ measured : measured' = measured \cup {i}
  /\ UNCHANGED <<testID, stackID, status, result, query, building, reported>>

CloudNext ==
  \/ LoadTestsStart \/ TestRunsRetrieve \/ QueryAggregateMetric \/ TestRunsAbort
  \/ CloudMoves \/ DataArrives

CloudSpec == CloudInit /\ [][CloudNext]_cloudVars

-----------------------------------------------------------------------------
(* Safety.                                                                 *)

(***************************************************************************)
(* "After terminal state, all fields reflect final values" (provider.go):  *)
(* what an answer with a verdict says in a field is what the query of that *)
(* field gave for the run, when it was completed with that very verdict;   *)
(* or it is 0, whichever of the queries fail or find no data. The queries  *)
(* come one by one after the verdict was read. That a 0 may stand for a    *)
(* missing value, no caller can tell. What the same comment says of a run  *)
(* in flight is in PartialMetricsWhileRunning.                             *)
(***************************************************************************)
MetricsOfTheRun ==
  \A i \in DOMAIN Query :
    LET v == reported.metrics[Query[i].field]
    IN  (reported.state \in {"Passed", "Failed"} /\ v # 0) =>
          /\ v = i
          /\ i \in measured
          /\ status = "completed"
          /\ MapToRunState(status, result) = reported.state

(***************************************************************************)
(* What the plugins are checked against is what this backend does: it is   *)
(* the Provider, for a run that is over when the cloud says so.            *)
(***************************************************************************)
CloudState ==
  CASE status = "none"      -> "Absent"
    [] status = "aborted"   -> "Aborted"
    [] status = "completed" -> CASE result = "passed" -> "Passed"
                                 [] result = "failed" -> "Failed"
                                 [] OTHER             -> "Errored"
    [] OTHER -> "Running"

run == "run"

Abstract == INSTANCE Provider WITH
  RunID    <- {run},
  NoRun    <- "none",
  Backend  <- "grafana-cloud",
  Faults   <- {"triggerError", "triggerLost", "pollError", "stopError"},
  runState <- [r \in {run} |-> CloudState],
  stored   <- IF status = "none" THEN {} ELSE {run},
  incomplete <- {}

(***************************************************************************)
(* Every step of the cloud and of the calls is one of the abstract backend *)
(* or none, and GetRunResult answers what that would answer at the end of  *)
(* the call, although the status is read before the metrics and a run may  *)
(* be stopped meanwhile.                                                   *)
(***************************************************************************)
CloudImplementsProvider ==
  /\ Abstract!ProviderTypeOK
  /\ [][ \/ Abstract!TriggerRun(run)
         \/ Abstract!RunEnds(run)
         \/ Abstract!StopRun(run) ]_(Abstract!providerVars)
  /\ [][ reported' # reported =>
           reported'.state \in Abstract!GetRunResult(run) \cup {"error"} ]_cloudVars

(***************************************************************************)
(* cloud.go, on GetRunResult: "Returns partial metrics during active runs  *)
(* (State == Running)", here of a run the cloud has metrics of. Checked by *)
(* a run of its own, which finds it violated.                              *)
(***************************************************************************)
PartialMetricsWhileRunning ==
  [][ (reported' # reported /\ reported'.state = "Running" /\ measured # {})
        => \E f \in Fields : reported'.metrics[f] # 0 ]_cloudVars

=============================================================================
