--------------------------- MODULE CloudRun_proofs ---------------------------
(***************************************************************************)
(* Proofs about the Grafana Cloud backend, for all ids and every set of    *)
(* faults.                                                                 *)
(***************************************************************************)
EXTENDS CloudRun, TLAPS

(***************************************************************************)
(* The inductive invariant. GetRunResult reads the status before the five  *)
(* queries, and what it reports has the state of that first read. This is  *)
(* right because it queries for nothing but a run that is over, which      *)
(* keeps its status, and because the data of a run is not lost again.      *)
(***************************************************************************)
Judged == status = "completed" /\ result \in {"passed", "failed"}

\* A RunResult whose fields are missing or their own.
Own(b) ==
  /\ b = [state |-> b.state, metrics |-> b.metrics]
  /\ b.metrics = [f \in Fields |-> b.metrics[f]]
  /\ \A i \in DOMAIN Query : b.metrics[Query[i].field] \in {0, i}

CloudTypeOK ==
  /\ status \in Statuses \cup {"none"}
  /\ result \in Results
  /\ query \in {0} \cup DOMAIN Query

\* The fields of b hold the data ms, of a run that was judged to be in state s.
Answered(b, ms, judged, s) ==
  \A i \in DOMAIN Query :
    b.metrics[Query[i].field] # 0 => i \in ms /\ judged /\ b.state = s

QueryInv ==
  /\ Own(building) /\ Own(reported)
  /\ query # 0 => Judged /\ building.state = CloudState
  /\ Answered(building, measured, Judged, CloudState)
  /\ Answered(reported, measured, Judged, CloudState)

CInv == CloudTypeOK /\ QueryInv

-----------------------------------------------------------------------------
(* The results.                                                            *)

LEMMA Queries ==
  /\ DOMAIN Query = 1 .. 5 /\ Len(Query) = 5
  /\ \A i \in DOMAIN Query : Query[i].field \in Fields
  /\ \A i, j \in DOMAIN Query : Query[i].field = Query[j].field => i = j
BY DEF Query, Fields

LEMMA VerdictsAreOwn ==
  ASSUME NEW s
  PROVE  /\ Own(Verdict(s)) /\ Verdict(s).state = s
         /\ \A i \in DOMAIN Query : Verdict(s).metrics[Query[i].field] = 0
BY Queries DEF Own, Verdict

LEMMA VerdictsAnswered ==
  ASSUME NEW t, NEW ms, NEW j, NEW s
  PROVE  Answered(Verdict(t), ms, j, s)
BY VerdictsAreOwn DEF Answered

LEMMA FilledIsOwn ==
  ASSUME NEW b, Own(b), NEW i \in DOMAIN Query, NEW v \in {0, i}
  PROVE  Own(Filled(b, i, v)) /\ Filled(b, i, v).state = b.state
<1> DEFINE ms == [b.metrics EXCEPT ![Query[i].field] = v]
<1>1. Filled(b, i, v) = [state |-> b.state, metrics |-> ms]
  BY DEF Filled, Own
<1>2. ms = [f \in Fields |-> ms[f]]
  BY DEF Own
<1>3. \A j \in DOMAIN Query : ms[Query[j].field] \in {0, j}
  BY Queries DEF Own
<1> HIDE DEF ms
<1> QED BY <1>1, <1>2, <1>3 DEF Own

\* The state that is reported is the state of the run.
LEMMA StateOfRun ==
  ASSUME status \in Statuses, result \in Results
  PROVE  MapToRunState(status, result) = CloudState
BY DEF MapToRunState, CloudState, Statuses, Results

LEMMA JudgedStates ==
  ASSUME CloudTypeOK
  PROVE  Judged <=> CloudState \in {"Passed", "Failed"}
BY DEF CloudTypeOK, Judged, CloudState, Statuses, Results

-----------------------------------------------------------------------------
(* The inductive invariant holds.                                          *)

LEMMA InitCInv == CloudInit => CInv
BY VerdictsAreOwn, VerdictsAnswered
   DEF CloudInit, CInv, CloudTypeOK, QueryInv, NoResult, Statuses, Results

\* A run that is over keeps its status and its result.
LEMMA JudgedStays ==
  ASSUME CloudTypeOK, [CloudNext]_cloudVars
  PROVE  /\ CloudTypeOK'
         /\ Judged => UNCHANGED <<status, result>>
         /\ measured \subseteq measured'
<1>0. measured \subseteq measured'
  BY DEF CloudNext, LoadTestsStart, TestRunsRetrieve, QueryAggregateMetric,
         TestRunsAbort, CloudMoves, DataArrives, cloudVars
<1> SUFFICES CloudTypeOK' /\ (Judged => UNCHANGED <<status, result>>)
  BY <1>0
<1>1. CASE LoadTestsStart
  BY <1>1 DEF LoadTestsStart, CloudTypeOK, Judged, Statuses
<1>2. CASE TestRunsRetrieve
  BY <1>2, Queries DEF TestRunsRetrieve, CloudTypeOK
<1>3. CASE QueryAggregateMetric
  BY <1>3, Queries DEF QueryAggregateMetric, CloudTypeOK
<1>4. CASE TestRunsAbort
  BY <1>4 DEF TestRunsAbort, InFlight, CloudTypeOK, Judged, Statuses, Results
<1>5. CASE CloudMoves
  <2>1. /\ status' \in Successors(status) /\ UNCHANGED query
        /\ result' \in {"passed", "failed", "error", "nil", result}
    BY <1>5 DEF CloudMoves
  <2>2. status' \in Statuses /\ status # "completed"
    BY <2>1 DEF Successors, Statuses
  <2> QED BY <2>1, <2>2 DEF CloudTypeOK, Judged, Results
<1>6. CASE DataArrives \/ UNCHANGED cloudVars
  BY <1>6 DEF DataArrives, cloudVars, CloudTypeOK
<1> QED BY <1>1, <1>2, <1>3, <1>4, <1>5, <1>6 DEF CloudNext

\* What was answered of a run stays the answer.
LEMMA AnsweredStays ==
  ASSUME CloudTypeOK, [CloudNext]_cloudVars
  PROVE  \A b : Answered(b, measured, Judged, CloudState)
                 => Answered(b, measured', Judged', CloudState')
<1>1. Judged => Judged' /\ CloudState' = CloudState
  BY JudgedStays DEF Judged, CloudState
<1> QED BY <1>1, JudgedStays DEF Answered

LEMMA NextCInv == CInv /\ [CloudNext]_cloudVars => CInv'
<1> SUFFICES ASSUME CInv, [CloudNext]_cloudVars PROVE CInv'
  OBVIOUS
<1>0. CloudTypeOK' /\ (Judged => UNCHANGED <<status, result>>)
  BY JudgedStays DEF CInv
<1>1. Judged => Judged' /\ CloudState' = CloudState
  BY <1>0 DEF Judged, CloudState
<1>a. \A b : Answered(b, measured, Judged, CloudState)
               => Answered(b, measured', Judged', CloudState')
  BY AnsweredStays DEF CInv
<1>2. CASE TestRunsRetrieve
  <2> DEFINE s == MapToRunState(status, result)
  <2>1. UNCHANGED <<status, result>> /\ s = CloudState /\ query = 0
    BY <1>2, StateOfRun DEF TestRunsRetrieve, CInv, CloudTypeOK
  <2>2. CloudState' = CloudState /\ Judged' = Judged
    BY <2>1 DEF CloudState, Judged
  <2>3. \/ s \in {"Passed", "Failed"} /\ building' = Verdict(s) /\ UNCHANGED reported
        \/ query' = query /\ building' = building
           /\ \E t : reported' = Verdict(t)
    BY <1>2 DEF TestRunsRetrieve, NoAnswer
  <2>4. s \in {"Passed", "Failed"} => Judged
    BY <2>1, JudgedStates DEF CInv
  <2> HIDE DEF s
  <2>5. /\ Answered(building', measured', Judged', CloudState')
        /\ Answered(reported', measured', Judged', CloudState')
    BY <1>a, <2>3, VerdictsAnswered DEF CInv, QueryInv
  <2> QED BY <1>0, <2>1, <2>2, <2>3, <2>4, <2>5, VerdictsAreOwn DEF CInv, QueryInv
<1>3. CASE QueryAggregateMetric
  <2>1. PICK filled \in {Filled(building, query, AggregateValue(query)), building} :
          \/ building' = filled /\ UNCHANGED reported
          \/ query' = 0 /\ building' = NoResult /\ reported' = filled
    BY <1>3 DEF QueryAggregateMetric
  <2>2. query \in DOMAIN Query /\ query # 0 /\ Judged
    BY <1>3, Queries DEF QueryAggregateMetric, CInv, QueryInv
  <2>3. Own(filled) /\ filled.state = building.state
    BY <2>1, <2>2, FilledIsOwn DEF CInv, QueryInv, AggregateValue
  <2>4. Own(NoResult)
    BY VerdictsAreOwn DEF NoResult
  <2>5. \A i \in DOMAIN Query : filled.metrics[Query[i].field] # 0 => i \in measured
    <3> SUFFICES ASSUME NEW i \in DOMAIN Query, filled.metrics[Query[i].field] # 0,
                        filled = Filled(building, query, AggregateValue(query))
                 PROVE  i \in measured
      BY <2>1 DEF CInv, QueryInv, Answered
    <3>1. CASE i = query
      <4>1. filled.metrics[Query[i].field] = AggregateValue(i)
        BY <3>1, <2>2, Queries DEF Filled, CInv, QueryInv, Own
      <4> QED BY <4>1 DEF AggregateValue
    <3>2. CASE i # query
      <4>1. filled.metrics[Query[i].field] = building.metrics[Query[i].field]
        BY <3>2, <2>2, Queries DEF Filled, CInv, QueryInv, Own
      <4> QED BY <4>1 DEF CInv, QueryInv, Answered
    <3> QED BY <3>1, <3>2
  <2>6. filled.state = CloudState
    BY <2>2, <2>3, <1>3, Queries DEF CInv, QueryInv, QueryAggregateMetric
  <2>7. Answered(filled, measured, Judged, CloudState)
    BY <2>2, <2>5, <2>6 DEF Answered
  <2>8. /\ Answered(building', measured', Judged', CloudState')
        /\ Answered(reported', measured', Judged', CloudState')
    BY <1>a, <2>1, <2>7, VerdictsAnswered DEF CInv, QueryInv, NoResult
  <2> QED BY <1>0, <1>1, <2>1, <2>2, <2>3, <2>4, <2>8 DEF CInv, QueryInv
<1>4. CASE LoadTestsStart \/ TestRunsAbort \/ CloudMoves \/ DataArrives \/ UNCHANGED cloudVars
  <2>1. UNCHANGED <<query, building, reported>>
    BY <1>4 DEF LoadTestsStart, TestRunsAbort, CloudMoves, DataArrives, cloudVars
  <2> QED BY <1>0, <1>1, <1>a, <2>1 DEF CInv, QueryInv
<1> QED BY <1>2, <1>3, <1>4 DEF CloudNext

LEMMA CloudSpecCInv == CloudSpec => []CInv
BY InitCInv, NextCInv, PTL DEF CloudSpec

(* What a verdict is reported with are the values that the queries gave of *)
(* the run in that very verdict, each in its own field or missing,         *)
(* whichever queries fail or find no data.                                 *)
THEOREM MetricsAreTheRuns == CloudSpec => []MetricsOfTheRun
<1>1. CInv => MetricsOfTheRun
  <2> SUFFICES ASSUME CInv, NEW i \in DOMAIN Query,
                      reported.state \in {"Passed", "Failed"},
                      reported.metrics[Query[i].field] # 0
               PROVE  /\ reported.metrics[Query[i].field] = i
                      /\ i \in measured
                      /\ status = "completed"
                      /\ MapToRunState(status, result) = reported.state
    BY DEF MetricsOfTheRun
  <2>1. reported.metrics[Query[i].field] = i
    BY DEF CInv, QueryInv, Own
  <2>2. i \in measured /\ Judged /\ reported.state = CloudState
    BY DEF CInv, QueryInv, Answered
  <2>3. MapToRunState(status, result) = CloudState
    BY <2>2, StateOfRun DEF CInv, CloudTypeOK, Judged, Statuses
  <2> QED BY <2>1, <2>2, <2>3 DEF Judged
<1> QED BY <1>1, CloudSpecCInv, PTL

-----------------------------------------------------------------------------
(* The backend is the Provider that the plugins are checked against.       *)

USE DEF Abstract!Running, Abstract!Passed, Abstract!Failed, Abstract!Errored,
        Abstract!Aborted, Abstract!Absent, Abstract!Ended

\* The state of a run, in flight and when it is over.
LEMMA CloudStates ==
  ASSUME CloudTypeOK
  PROVE  /\ status = "none" <=> CloudState = "Absent"
         /\ InFlight => CloudState = "Running"
         /\ CloudState \in {"Absent", "Running", "Passed", "Failed", "Errored", "Aborted"}
BY DEF CloudTypeOK, CloudState, InFlight

LEMMA CloudStatesNext ==
  /\ status' = "created" => CloudState' = "Running"
  /\ status' = "aborted" => CloudState' = "Aborted"
  /\ status' = "completed" => CloudState' \in {"Passed", "Failed", "Errored"}
  /\ status' \notin {"none", "aborted", "completed"} => CloudState' = "Running"
BY DEF CloudState

LEMMA CloudTypeAbstract == CInv => Abstract!ProviderTypeOK
<1> SUFFICES ASSUME CInv PROVE Abstract!ProviderTypeOK
  OBVIOUS
<1>1. /\ CloudState \in {"Absent", "Running", "Passed", "Failed", "Errored", "Aborted"}
      /\ status = "none" <=> CloudState = "Absent"
  BY CloudStates DEF CInv
<1> QED BY <1>1 DEF Abstract!ProviderTypeOK, Abstract!RunState

\* The abstract steps, in terms of the abstract state.
LEMMA CloudSteps ==
  /\ ( /\ CloudState = "Absent" /\ CloudState' = "Running"
       /\ status = "none" /\ status' # "none" ) => Abstract!TriggerRun(run)
  /\ ( /\ CloudState = "Running" /\ CloudState' \in {"Passed", "Failed", "Errored", "Aborted"}
       /\ status # "none" /\ status' # "none" ) => Abstract!RunEnds(run)
  /\ ( /\ CloudState = "Running" /\ CloudState' = "Aborted"
       /\ status # "none" /\ status' # "none" ) => Abstract!StopRun(run)
  /\ ( CloudState' = CloudState /\ (status = "none" <=> status' = "none") )
     => UNCHANGED Abstract!providerVars
BY DEF run, Abstract!TriggerRun, Abstract!Fresh, Abstract!RunEnds, Abstract!Verdicts,
       Abstract!StopRun, Abstract!Killed, Abstract!K6Operator, Abstract!GrafanaCloud,
       Abstract!providerVars

LEMMA StepsAbstract ==
  ASSUME CInv, [CloudNext]_cloudVars
  PROVE  \/ Abstract!TriggerRun(run) \/ Abstract!RunEnds(run) \/ Abstract!StopRun(run)
         \/ UNCHANGED Abstract!providerVars
<1>1. CASE UNCHANGED <<status, result>>
  <2>1. CloudState' = CloudState
    BY <1>1 DEF CloudState
  <2> QED BY <1>1, <2>1, CloudSteps
<1>2. CASE LoadTestsStart
  <2>1. CASE status' = "created"
    BY <1>2, <2>1, CloudStates, CloudStatesNext, CloudSteps DEF LoadTestsStart, CInv
  <2> QED BY <1>1, <1>2, <2>1 DEF LoadTestsStart
<1>3. CASE TestRunsAbort
  <2>1. CloudState = "Running" /\ CloudState' = "Aborted" /\ status # "none" /\ status' # "none"
    BY <1>3, CloudStates, CloudStatesNext DEF TestRunsAbort, InFlight, CInv
  <2> QED BY <2>1, CloudSteps
<1>4. CASE CloudMoves
  <2>1. status' \in Successors(status)
    BY <1>4 DEF CloudMoves
  <2>2. InFlight /\ status' # "none"
    BY <2>1 DEF CInv, CloudTypeOK, Successors, InFlight
  <2>3. CloudState = "Running" /\ status # "none"
    BY <2>2, CloudStates DEF CInv, InFlight
  <2>4. CloudState' \in {"Running", "Passed", "Failed", "Errored", "Aborted"}
    BY <2>2, CloudStatesNext
  <2> QED BY <2>2, <2>3, <2>4, CloudSteps
<1>5. CASE TestRunsRetrieve \/ QueryAggregateMetric \/ DataArrives \/ UNCHANGED cloudVars
  BY <1>1, <1>5 DEF TestRunsRetrieve, QueryAggregateMetric, DataArrives, cloudVars
<1> QED BY <1>2, <1>3, <1>4, <1>5 DEF CloudNext

\* What is reported is the state of the run when it is, or an error.
LEMMA ReportsAgree ==
  ASSUME CInv, CloudNext, reported' # reported
  PROVE  reported'.state \in Abstract!GetRunResult(run) \cup {"error"}
<1>1. CASE reported'.state = CloudState /\ status # "none"
  <2>1. CloudState # "Ended"
    BY CloudStates DEF CInv
  <2> QED BY <1>1, <2>1 DEF Abstract!GetRunResult, run
<1>2. CASE TestRunsRetrieve
  <2>1. status # "none" /\ MapToRunState(status, result) = CloudState
    BY <1>2, StateOfRun DEF TestRunsRetrieve, CInv, CloudTypeOK
  <2>2. reported' \in {Verdict(MapToRunState(status, result)), Verdict("error")}
    BY <1>2 DEF TestRunsRetrieve, NoAnswer
  <2> QED BY <1>1, <2>1, <2>2, VerdictsAreOwn
<1>3. CASE QueryAggregateMetric
  <2>1. query \in DOMAIN Query /\ query # 0
    BY <1>3, Queries DEF QueryAggregateMetric
  <2>2. Judged /\ Own(building) /\ building.state = CloudState
    BY <2>1 DEF CInv, QueryInv
  <2>3. reported' \in {Filled(building, query, AggregateValue(query)), building}
    BY <1>3 DEF QueryAggregateMetric
  <2>4. reported'.state = CloudState
    BY <2>1, <2>2, <2>3, FilledIsOwn DEF AggregateValue
  <2> QED BY <1>1, <2>2, <2>4 DEF Judged
<1> QED
  BY <1>2, <1>3 DEF CloudNext, LoadTestsStart, TestRunsAbort, CloudMoves, DataArrives

(* The Grafana Cloud backend implements the Provider the two plugins are   *)
(* checked against, in its steps and in what GetRunResult answers.         *)
THEOREM CloudIsProvider == CloudSpec => CloudImplementsProvider
<1> DEFINE Step == \/ Abstract!TriggerRun(run)
                   \/ Abstract!RunEnds(run)
                   \/ Abstract!StopRun(run)
           Report == reported' # reported =>
                       reported'.state \in Abstract!GetRunResult(run) \cup {"error"}
<1>1. CloudInit => Abstract!ProviderTypeOK
  BY InitCInv, CloudTypeAbstract
<1>2. CInv /\ [CloudNext]_cloudVars => [Step]_(Abstract!providerVars)
  BY StepsAbstract
<1>3. CInv /\ [CloudNext]_cloudVars => [Report]_cloudVars
  BY ReportsAgree
<1> QED BY <1>1, <1>2, <1>3, CloudSpecCInv, PTL DEF CloudSpec, CloudImplementsProvider

=============================================================================
