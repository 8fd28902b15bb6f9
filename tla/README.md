# A formal model of the Argo Rollouts k6 plugin

TLA+ modules, TLC runs and TLAPS proofs about the two plugins of this
repository (a step plugin and a metric plugin for Argo Rollouts that run k6 load
tests) and the backends they run them on. Paths are relative to `src/`.

`tlc -config StepOperator.cfg MCStepPlugin` checks one run (the full list is
below), `tlapm StepPlugin_proofs.tla` one module of proofs.

## The system

    rollouts controller --Run/Terminate/Abort-->              K6StepPlugin     --+
       keeps stepState in the Rollout's status                                   |
                                                                                 +--> Router --> GrafanaCloudProvider --HTTP--> Grafana Cloud k6
    analysis controller --Run/Resume/Terminate/GarbageCollect--> K6MetricProvider --+         +-> K6OperatorProvider  --API--> TestRun CR, runner pods
       keeps the measurements in the AnalysisRun's status

Both plugins are RPC servers started by a controller. **Neither keeps anything
between two calls.** What a plugin must remember it hands to the controller in
its answer, and what it did to the backend stays even if that answer is never
stored. Most of what is hard about this code follows from that sentence.

| Component | State | Operations | Talks to | Hard behaviour | What makes it correct |
|---|---|---|---|---|---|
| Step plugin, `internal/step/step.go` | `stepState` (run id, triggeredAt, finalStatus, cleanupDone), kept by the controller | `Run`, `Terminate`, `Abort` | Router: `TriggerRun`, `GetRunResult`, `StopRun`, `Cleanup` | an answer lost after the run was triggered; an error that drops the status; replays of a finished step; the deadline against the verdict; a stop that arrives during a `Run` | success only after a pass, or on the word of the pods that are left; one run per stored id; a run once attached is never swapped; failures stay failures; nothing left in flight; the deadline ends the step; cleanup never hits a run in flight |
| Metric plugin, `internal/metric/metric.go` | `runId` in each measurement's metadata, kept by the controller | `Run`, `Resume`, `Terminate`, `GarbageCollect` | Router, the same four calls | any error finishes a measurement; an unsupported metric is found only after the run was started; collection takes all measurements, retained ones too | success only after a pass, or on the word of the pods that are left; one load at a time; no load after the end; no CR forgotten; terminations arrive; verdicts are reported |
| Provider interface and Router, `internal/provider/provider.go`, `router.go` | the fixed map of backends | dispatch on `cfg.Provider` | the two backends | an unknown name is refused only by the calls, so that a step retries it for ever and a metric is an error at once | both backends do what the plugins assume of the interface |
| k6-operator backend, `internal/provider/operator/operator.go`, `testrun.go`, `exitcode.go` | cached client (`sync.Once`); the TestRun CR and its pods in the cluster | the four calls, `deleteCR`, `readScript`, `checkRunnerExitCodes` | Kubernetes API, k6-operator | the CR, the pods and their logs are three reads; order of the pod list; pods that are gone; a cached client error; a name, a label and an integer that are cut; a parent that is not passed, gone, or in another namespace | `Passed` only if every runner whose pod is there passed; a verdict never changes, but for pods that go; it behaves like the `Provider` the plugins assume; what it creates is admitted, reached by the run id, and deleted with its parent, not before |
| Grafana Cloud backend, `internal/provider/cloud/*.go` | HTTP clients; runs in the cloud | the four calls, `mapToRunState`, metric queries | Grafana Cloud k6 API | starting a run is not idempotent; a verdict and its metrics are six requests; a metric that is missing is 0 | states map to the interface's; every metric is in the field of its query, and of a run that was judged |
| Summaries, `operator/summary.go` | none | `findSummaryJSON`, `extractMetricsFromSummary`, `aggregateMetrics` | pod logs | logs that are cut or hold several objects; braces in strings; no requests at all | a complete summary is found, if the braces in its strings are balanced, a cut one is an error; aggregates are those of the requests |
| Configuration, `provider/config.go`, `parseConfig`, `parseTimeout`, `populateFrom...` | none | validation, injected metadata | Rollout, AnalysisRun | bounds of the timeout; what is not validated; a nil parent | what is accepted is served |
| Binaries, `cmd/*/main.go` | none | wiring, logging | go-plugin | - | - |
| Controllers, k6-operator, Kubernetes | Rollout, AnalysisRun, TestRun, pods | not in this repository | | retries, lost updates, cascading deletion | environment |

## The modules

| Module | Models | Lines up with |
|---|---|---|
| `Provider` | a pool of runs behind the four calls, for both backends | `provider.go`, `router.go`; what `cloud.go` and `operator.go` do to a run |
| `StepContract` | abstract specification of the step plugin, as a reader of a Rollout's status sees it | `Run`'s promise |
| `StepPlugin` | one step, over `Provider`, with the controller | `step.go` |
| `MetricContract` | abstract specification of a metric, as a reader of an AnalysisRun's status sees it | the promise of `metric.go` and the analysis controller |
| `MetricPlugin` | one metric of an AnalysisRun, over `Provider`, with the analysis controller | `metric.go` |
| `K6Operator` | one CR with its pods and the backend's calls on it; shown to be a `Provider` | `operator.go`, `exitcode.go` |
| `Config` | the configuration: validation, timeout, injected metadata, the Router's choice | `config.go`, `router.go`, the `parse...` and `populate...` of the plugins |
| `TestRun` | how a custom resource is named, labelled, owned and built, and how a run id names it | `testrun.go` |
| `OwnedRun` | one run and its parents on the cluster, over `TestRun` and `Config`: creation, deletes by run id, garbage collection | `TriggerRun` and `deleteCR` in `operator.go`, both plugins' metadata |
| `Summary` | the logs of the runner pods as they are written and read, the search for the summary, the aggregates | `summary.go` |
| `CloudRun` | one test run of Grafana Cloud, its status and its metrics; shown to be a `Provider` | `cloud.go`, `types.go`, `metrics.go` |
| `MCStepPlugin`, `MCMetricPlugin`, `MCK6Operator`, `MCBackends` | the small instances TLC checks | |
| `Provider_proofs` | what each step of the backend leaves of the runs | |
| `StepPlugin_proofs`, `MetricPlugin_proofs`, `K6Operator_proofs`, `OwnedRun_proofs`, `CloudRun_proofs`, `Summary_proofs` | the proofs about the module they are named for | |
| `StepHistory_proofs` | proofs about `StepPlugin`, over `StepPlugin_proofs`: what it may answer later, and the runs it started | |

The composition is by layers. `StepPlugin` and `MetricPlugin` extend `Provider`:
they are the plugin, its controller and the pool of runs together. `K6Operator` and
`CloudRun` instantiate `Provider` with a refinement mapping, so that each detailed
backend is shown to be the abstract one the plugins are checked against, and
`StepPlugin` and `MetricPlugin` instantiate `StepContract` and `MetricContract` in the
same way. `OwnedRun` extends `TestRun`, and that `Config`; the configurations the
two plugins are checked with are what `Config` makes of what a user writes. Operators named `Bug...` are
variations of the definition that follows them (a dropped guard, a missing
reset) by which one can see that a property notices; no specification uses them.

### Provider

`runState[r]` is what became of run `r`, `stored` the runs the backend still
answers for (on the k6-operator backend: those whose CR exists). `Ended` is a run
that is over while the exit codes of its pods cannot be read yet, which
`checkRunnerExitCodes` reports as `Running`. `incomplete` are the runs of which a runner pod is
gone (`PodsLost`). `StopRun` and `Cleanup` are the same
`DeleteCR` on the k6-operator backend (`deleteCR` is shared in `operator.go`), an
abort and a no-op on Grafana Cloud.

`GetRunResult(r)` is the set of states that may be reported: the run's own; `Errored`
where the list of its pods fails or is empty (`PodsUnread`); and, for an incomplete run, what
the pods that are left make of it (`Remaining`). `checkRunnerExitCodes` compares nothing with
`spec.parallelism`, so that a run whose failed pod is gone is `Passed` (finding 5). `Remaining`
has every answer that some set of lost pods could give, as it is not recorded which ones
are gone. A CR that is deleted between the two reads counts as deleted after the
answer; its pods may go before that.

What may go wrong is the constant `Faults`: every call failing without effect,
`TriggerRun` starting a run and losing the answer, pods that cannot be listed or are lost,
somebody else deleting a run, and a call lost with the plugin or the controller.

### StepPlugin

One `Run` is cut at its provider calls: `CallRun` (parse, read the stored status,
decide between poll-only, trigger and later call), `Trigger`/`TriggerFails`,
`CheckDeadline`, `StopOnTimeout`, `Poll`/`PollFails`, `CleanupRun`, `StoreAnswer`.
`pc` says where the call stands, `state` is the Go variable `state`, `status` the
stored `stepState`. Between any two of these time passes (`Tick`), runs end or
vanish (`Environment`), a stop is asked for (`AskToStop`) or the call is lost
(`CallLost`). `Terminate` and `Abort` are `CallStop`. As in `Run`, the deadline is
looked at before the poll, a terminal state is written into `finalStatus` and
cleanup is tried once and its error dropped; an `RpcError` leaves the stored status
alone, so that a run id obtained in that call is gone.

`TriggeredAt` is the time elapsed since it, in ticks that saturate at
`Timeout + 1`: the code only ever asks whether the timeout is exceeded. It is set
together with the run id, so that its parse error cannot occur. `MaxReplays` and
`MaxCrashes` bound the replays and the lost calls.

`forgotten` is a history variable: the runs started by calls that ended without the run's id
being stored, be it by a lost trigger, a failing poll or a lost answer. The other runs of the
step are `Remembered`, and what is promised of its runs is promised of these.

### MetricPlugin

`Run`, `Resume` and `Terminate` make one provider call and are one step each;
`GarbageCollect` is a loop (`GarbageCollect`, `CleanNext`: one measurement per turn, those
without a run skipped). `measurements` is what the
AnalysisRun's status holds, `work` what the reconciliation in progress will store at
its end. The analysis controller takes measurements one after the other, and on
overflow of the retention limit calls `GarbageCollect` and *then* trims to the last
ones: by then the new measurement is already in the list. `MaxMeasurements` bounds
the measurements, `MaxCrashes` the reconciliations lost.

`MetricContract` knows only the measurements, the run the user asked for and what
became of the runs. `ImplementsContract` says that storing the status is one step of it:
a measurement begins with a run no retained one is of, the last one is finished with
its run's own verdict, or an error, and nothing else ever changes.

### K6Operator

`GetCR`, `ListPods` and `ReadLogs` are the three reads of `GetRunResult`, `ReadScript` and
`CreateCR` the two calls of `TriggerRun`, `DeleteCR` both `StopRun` and `Cleanup`;
`EnsureClient` is the `sync.Once`. The containers' phases, restarts and exit codes
move under them, and pods go (`PodGoes`, `there` are those that have not), before, between and after the reads. `CheckRunnerExitCodes` keeps the order in which the pods are
listed, since the first undecided container decides. `initialization` stands for
all stages that precede the pods. With Grafana Cloud credentials
(`cloudConnected`) the CR is a PrivateLoadZone: no stage is ever set, so that
the run stays `Running` until it is deleted, which `Provider` allows. Which pods'
metrics are in an answer is `metrics`; the values are those of `Summary`.

### OwnedRun, TestRun, Config

A call of either plugin parses the configuration again and is passed its parent
again, which may be nil: `Populated` is what the provider is called with. `TriggerRun` is
cut before the Create request (`CreateResource`), as the parent may go meanwhile.
`CollectResource` is the garbage collector of Kubernetes, which deletes what has owners
of which none exists *in the same namespace*. A configured namespace that is not the
Rollout's therefore makes the owner reference of `parentOwnerRef` dangle from the
start, and the collector may take the CR at once: `CollectedOnlyWithParent` supposes
that the namespace is left to the parent or is its own.

Names are sequences of `"x"`, `"-"` and `"."`, with the hash as one more element; the
lengths 63 and 241 and the largest `int32` are constants. `Admitted` is what the API server
asks of a new object. `testRunName` does not trim what its cut leaves: a Rollout
name cut behind a dot gives a CR name that the API server refuses (`CutBehindDot`,
excluded from `BuiltIsAdmitted`).

### Summary

A line of a log is one of a dozen kinds, which are all that `findSummaryJSON` tells
apart: blank or not, a brace at its end, its balance of braces, and what JSON makes
of the lines between two braces. A summary carries the balance of the braces that its lines have
in strings (`inStrings`), names of checks, groups and metrics, and `Depth` counts them with the others, as
the code does. The runner writes script output, then the summary on
one line or on four, then more, with standard error between two lines of the summary.
`Views` is what `readPodLogs` may return: the last `TailLines` lines, of which the limit of
bytes may cut off the end, within the summary too. `FindSummaryJSON` is the scan from
the end; `AggregateMetrics` keeps fractions as pairs. Pods are read one after the
other, and one that cannot be read is skipped.

### CloudRun

`status` and `result` are those of the v6 API; `TestRunsRetrieve` reads them once, and
when they give a verdict on the thresholds `QueryAggregateMetric` asks the v5 API for the five
metrics one by one, while the run may still be stopped and data come in. A value is
represented by its query, and 0 is also what a query without data or with an error
leaves, which no caller can tell from a measured 0.

## The runs

| Run | Module, cfg | Properties | Shows |
|---|---|---|---|
| `step_operator` | MCStepPlugin, StepOperator | `TypeOK` `SuccessMeansPassed` `OneRunPerStep` `CleanupSparesRunInFlight` `CleanupNotRepeated` `AttachmentStable` `ImplementsContract` | all configurations, every fault, a lost call, a replay, on the k6-operator backend |
| `step_cloud` | MCStepPlugin, StepCloud | `NoRunLeftBehind` `FailureIsFinal` `AttachedStepEnds` `StopReachesRun` | Grafana Cloud, every fault but a failing `StopRun`: no run whose id was stored is left; a replay never turns a failure into a success; liveness under fairness, with polls that fail for ever |
| `metric_operator` | MCMetricPlugin, MetricOperator | `TypeOK` `SuccessMeansPassed` `ImplementsContract` `TerminateReachesRun` | measurements with collection at every overflow, every fault but a failing `StopRun` |
| `metric_tidy` | MCMetricPlugin, MetricTidy | `OneLoadAtATime` `NoRunLeftBehind` `NoCRForgotten` `EndedRunIsReported` | where polls work: runs do not overlap, none is left, no CR is forgotten, and a verdict reaches its measurement as the phase that belongs to it |
| `k6_operator` | MCK6Operator, K6Operator | `TypeOK` `PassedMeansAllPassed` `MetricsAreFinal` `VerdictKept` `ImplementsProvider` `AnswersLikeProvider` | the backend in detail is the abstract `Provider` |
| `backends` | MCBackends, Backends | of `Summary`: `SummaryFound` `CutSummaryReported` `AggregateOfRequests` `ZeroMeansNoData`; of `OwnedRun`: `AcceptedIsServed` `BuiltIsAdmitted` `RunnersAsConfigured` `DeletesOwnResource` `CollectedOnlyWithParent` `CascadeReachesResource`; of `CloudRun`: `MetricsOfTheRun` `CloudImplementsProvider` | summaries are found and aggregated; a custom resource is admitted, reached by its run id and deleted with its parent; a cloud run is the abstract `Provider` |
| `step_orphan` | MCStepPlugin, StepOrphan | `NoOrphanedRuns` (violated) | finding 1 |
| `step_replay` | MCStepPlugin, StepReplay | `ReplayKeepsSuccess` (violated) | finding 2 |
| `step_never_times_out` | MCStepPlugin, StepNeverTimesOut | `TimeoutEndsStep` (violated) | finding 3 |
| `metric_collect` | MCMetricPlugin, MetricCollect | `CollectionSparesRunInFlight` (violated) | finding 4 |
| `operator_pod_lost` | MCK6Operator, OperatorPodLost | `PassedMeansEveryRunnerPassed` (violated) | finding 5 |
| `cloud_partial` | MCBackends, CloudPartial | `PartialMetricsWhileRunning` (violated) | finding 6 |

`backends` checks three modules that share no state side by side: a behaviour is one of
one of them. The largest run is `step_operator` with 1,257,118 distinct states; `backends`
has 495,148, `metric_operator` 298,612, `step_cloud` 192,091, `metric_tidy` 165,439 and
`k6_operator` 64,700.

Deadlock is not checked: a step that is over, an AnalysisRun that has ended and a
TestRun that is deleted do stop.

**Bounds.** A step that attaches to `g1` starts no run, and one that triggers may start
`g1` and `r1`: two run ids are the least with which a step has two runs, one of which
may be forgotten. `Timeout` 2 (`step_cloud`) has a time before, at and past the deadline, `Timeout` 1
(`step_operator`) at and past it. One replay is the first that meets a deleted CR; one
lost call is the one that triggers, or the one that cleans up.
For metrics, `Limit` 1 with three measurements overflows twice; `Limit` 2 with four
(`metric_tidy`) has a retained measurement beside the one that is new and one that
is trimmed, and three run ids for four measurements reach the refused trigger as
well. Two runner pods are the least for which one is over while the other is not, or
is listed first. Two hashes and a stranger's CR in another namespace are the least for which a delete can
reach the wrong one. A label of 2, a name of 4 and integers up to 7 let names
be cut behind a letter, a "-" and a ".", and a parallelism of 9 leave `int32`.
`MCRollouts` has a Rollout without a name and one without a UID, `MCConfigs` each way a
configuration is refused or served and each form of a user's run id. In `Summary`, two
lines before the summary, one after or within it and four that are read let the cut
fall at every place of either form of the summary; two pods, one of which has no
requests, are the least that need weights. Cloud ids 0, 1 and 4 with `MaxInt32` 3 are one
that is no number, one that is good and one that does not fit.
`MCExitCodes` has one code for each case of `exitCodeToRunState`
(0, 99, and 107 for all others). `MCSummaries` has summaries with a brace left open, or closed, in
the strings of all their lines or of one. Run ids are not declared symmetric: `g1` is special
and three runs check temporal properties.

**Fairness.** `StepPlugin!Fairness` is weak fairness of the calls the controller
owes a step that is not final (`requeueAfter`, or its backoff after an error), of
the steps of a call, since every provider call is made under `providerCallTimeout`
and so returns with or without success, of storing the answer and of time.
`MetricPlugin!Fairness` is the same for reconciliations. `OwnFairness` is that the garbage
collector of Kubernetes gets to every object whose owners are gone; nothing is assumed
of the plugins there. Nothing is assumed of the
runs, of polls succeeding or of stops being asked for: `AttachedStepEnds` holds with
a run that never ends and polls that all fail. That the controller calls `Terminate` or `Abort`
also on a step in phase `Error` is an assumption on the controller, which is not in the repository. The
liveness of the step is checked on Grafana Cloud; on the k6-operator a run that cannot be judged is
`Running` for the plugin just as one that does not end.

**Provisos in properties.** `SuccessMeansPassed` and the two contracts have success only
with a run that passed *or is incomplete*: of such a run the k6-operator backend
says what the pods that are left say (finding 5). `PassedMeansAllPassed` says what
`Passed` means when all pods are there. `OneRunPerStep` and `NoRunLeftBehind` of the step
speak of the runs it remembers, whatever fails in whichever call; what becomes of those whose id
was lost before it was stored is finding 1. `NoRunLeftBehind` and
`StopReachesRun` suppose that `StopRun` works, whose error the code drops.
`FailureIsFinal` supposes that the pods can be listed and none of the run is lost: on the
k6-operator backend a failed list is answered with the verdict `Errored`, so that the stored
failure may be one the run never had, and a replay whose list works reports the
pass; and a replay after the pod that failed is gone finds only those that passed. `MeasurementMayLoseRun`
lists the three ways a measurement is finished while
its run goes on: a failing poll, an unsupported metric, a lost answer.
`TerminateReachesRun` starts from a measurement found in flight, and supposes that `StopRun` works.
`EndedRunIsReported` supposes that polls succeed and read all pods (`PollsSucceed`): one that fails
finishes the measurement with an error, and the verdict never reaches it. `MetricsAreFinal` says
whose metrics come with a verdict, not that there are none before it, which `provider.go` promises there
are (finding 6). `SummaryFound` supposes that the braces in the strings of each line of the
summary are balanced: `findSummaryJSON` counts them with the others, which its comment concedes, so that a
check named "starts with {" hides the summary, or has it reported as cut or malformed. It also supposes
that no unbalanced brace ends a line behind the summary, and `CutSummaryReported` that no other
JSON object was read, since a candidate keeps `findSummaryJSON` from asking for an opening brace.
`RunnersAsConfigured` supposes that the number fits `int32`, as nothing checks that it does.

## What is proved

For every value of the constants: every set of runs and configurations, both
backends, every set of faults, every timeout, retention limit, number of runner pods
and bound.

| Module | Theorem | States |
|---|---|---|
| `StepPlugin_proofs` | `SpecIInv`, `TypeCorrect` | the inductive invariant; `[]TypeOK` |
| | `SuccessIsSound` | `[]SuccessMeansPassed` |
| | `CleanupIsSafe`, `CleanupIsFiredOnce` | `CleanupSparesRunInFlight`, `CleanupNotRepeated` |
| `StepHistory_proofs` | `AttachmentIsStable`, `FailuresAreFinal` | `AttachmentStable`, `FailureIsFinal` |
| | `StepImplementsContract` | `ImplementsContract`: the refinement of `StepContract` |
| | `StepStartsOneRun`, `NoRunOutlivesTheStep` | `[]OneRunPerStep`, `[]NoRunLeftBehind`, for every set of faults |
| `MetricPlugin_proofs` | `SpecIInv`, `TypeCorrect`, `SuccessIsSound` | the inductive invariant; `[]TypeOK`, `[]SuccessMeansPassed` |
| | `LoadsDoNotOverlap`, `LoadEndsWithAnalysis` | `[]OneLoadAtATime`, `[]NoRunLeftBehind` |
| | `CRsAreRemembered` | `[]NoCRForgotten` |
| | `MetricImplementsContract` | `ImplementsContract`: the refinement of `MetricContract` |
| `K6Operator_proofs` | `SpecIInv`, `TypeCorrect` | the inductive invariant; `[]TypeOK` |
| | `PassedIsEarned`, `MetricsOfVerdicts`, `VerdictsAreFinal` | `[]PassedMeansAllPassed`, `[]MetricsAreFinal`, `VerdictKept` |
| | `BackendIsProvider`, `BackendAnswersLikeProvider` | `ImplementsProvider`, `AnswersLikeProvider`: the refinement of `Provider` |
| `OwnedRun_proofs` | `ParentKeepsItsRun`, `RunIDLeadsHome`, `AcceptedAreServed`, `BuiltAreAdmitted`, `RunnersAreThere` | `CollectedOnlyWithParent`, `DeletesOwnResource`, `[]AcceptedIsServed`, `[]BuiltIsAdmitted`, `[]RunnersAsConfigured` |
| `CloudRun_proofs` | `MetricsAreTheRuns`, `CloudIsProvider` | `[]MetricsOfTheRun`, `CloudImplementsProvider`: the refinement of `Provider` |
| `Summary_proofs` | `WholeSummaryIsFound`, `CutIsReported` | `[]SummaryFound`, `[]CutSummaryReported` |
| | `AggregatesAreOfRequests`, `ZeroIsNoData` | `[]AggregateOfRequests`, `[]ZeroMeansNoData` |

The assumptions are those the modules state on their constants; TLC evaluates them in
every run. Those that say more than a type: `NoRunAssumption` (no run has the
id "none"), `ConfigsAssumption` of `OwnedRun` (a configuration does not set the fields that
the plugins inject, and its parallelism is a number), `StrangersAssumption` (what others
created has an address), `RolloutsAssumption` (Kubernetes gives a Rollout a namespace
and admitted its name) and `SummariesAssumption` (a summary with requests has a rate that is not
zero: k6 divides one by the duration for the other).

**The step.** `SuccessMeansPassed` is about the stored answer, and nothing in it says what
a call in progress may come to store; `TypeOK` does not either. The inductive invariant
is `IInv == TypeOK /\ BackendInv /\ CallInv /\ AnswerInv`:

- `BackendInv` (in `Provider_proofs`, with the effects of the calls): a run in flight is
  stored, so that a delete does kill it, and a run that is not stored has its last state;
- `CallInv`: the call in progress works on a copy of the stored status that
  differs from it only in what this call has found out: same run if there was
  one, a clock not behind it, cleanup only for a verdict not cleaned up yet;
- `AnswerInv`: an answer, stored or about to be, that says success is about a run
  that passed or is incomplete (`Sound`), which stays so.

One lemma per action shows that it keeps `IInv` (`...KeepsIInv`), on lemmas that say
once what a provider call does to the runs (`StopAttemptEffect`, `TriggerEffect`, ...).
The action properties follow from `IInv` and a step. The refinement needs
`ReplayInv` besides (a call on a step that has its answer is a replay, and so needs
`MaxReplays > 0`), `FailureIsFinal` needs `VerdictInv` (what the stored `finalStatus`
says of the run, unless the run is incomplete, and that a killed run does not turn into a pass), and the
properties about runs `OneRunInv` and `LeftInv`: the only runs that are not
forgotten are the one the stored status names and the one the call in progress works on, and
these are the same once there is a stored one; a step that is over has no such run in flight.

**The metric.** In `IInv` the work of a reconciliation is the stored measurements with one
more, or with the one in flight updated, and the successful ones of both are of runs that passed
or are incomplete (`SoundRuns`). Three invariants
stand on it. `LoadInv`: every run that generates load is the one that the last
measurement, stored or about to be, is waiting for; only a `StopRun` that fails leaves
one unwatched, and then none follows. `CRInv`: a run that is left is one of the
measurements', then one that `GarbageCollect` has still to go through; the step that
trims comes when there is none. `ContractInv`: what will be stored is a step of the
contract, and the run it adds was not there before.

**The k6-operator backend.** `VerdictKept` and the refinement rest on one fact: the exit
codes give a verdict on the thresholds only when every container listed has
terminated without a restart (`Settled`, of the pods that are there), and such a container does not move any
more, although others did while the list was read. That the first undecided container
decides is the first element of a well-founded order (`FirstOf`). Pods that go leave
`Settled` true of the others, and make the run incomplete in the abstract pool, whose
`GetRunResult` then has the answers of every list that may be read: `AnswersLikeProvider` has
no proviso on the pods.
`BackendIsProvider` then maps every step to one of the pool or to none.

**Custom resources.** `OInv`: a resource created for a parent has that parent as its only
owner, in the parent's namespace; the run id, wherever there is one, decodes to the
resource created last. It needs `SentInv`: the resource is built from arguments that
a call found some steps earlier. `BuiltAreAdmitted` needs `NameInv` (those arguments
name the Rollout or nothing, and an owner that has a UID has a name) and two lemmas that
hold for every length of the cut: a label ends with its last letter or digit (`LabelIsValid`,
on `LastOf`), and a cut name with its hash is valid unless the cut falls behind a dot
(`NameIsValid`). `RunnersAreThere` needs `RunnersInv`: the arguments of the Create request, and the CR,
still have the configured parallelism, which the cut to `int32` leaves alone if it fits
(`NarrowKeeps`).

**The cloud.** `CInv`: while the metrics are queried the run has its verdict, which the
cloud does not revise; a field filled in so far, or answered, that is not 0 is its own metric, of
data that the cloud had, and the state with it is the verdict (`Answered`).

**The summary.** The scan, the balance of braces and the sums are recursive functions,
`f[n \in S] == e`, which stands for `CHOOSE f : f = [n \in S |-> e]`. What such a function
computes follows once one exists, and that is shown by induction (`ScanExists`,
`BalanceExists`, `SumExists`). The library's induction theorems take an operator as a
parameter, so `Induction` is stated on a set of numbers instead, by way of its smallest element
that is missing.

- `WholeSummaryIsFound`: `LogInv` says that a log has at most one summary, on one line or on
  several, with room for what is still to come of it, and that what is read of the log has no
  more. Then the scan passes over every line after the summary (`ReachesFurther`: no brace at
  its end, or a balanced line that is no summary), comes to its last line, and the balance from
  there, of lines without braces in strings that matter (`Plain`), leads to its first (`OpensThere`).
- `CutIsReported`: by induction on the line the scan is at (`Reports`). A candidate that is no JSON
  is remembered, one that has no beginning is an error at once, and without candidates there is
  the opening brace of what was cut.
- `AggregatesAreOfRequests`: `CollectedInv` has the metrics of every pod in their types. A sum of
  products `value * count` lies between the sums of the counts times the smallest and the largest
  value of a pod with requests (`WeightedIsBetween`).

**Model-checked only**: liveness (`AttachedStepEnds`, `StopReachesRun`, `TerminateReachesRun`,
`EndedRunIsReported`, `CascadeReachesResource`), which is outside what the proof system handles.
Every other property of a passing run is a theorem.

## Findings

1. `step.go:171`, run `step_orphan`: if the poll in the `Run` call that has just
   triggered a run fails, the call returns an `RpcError` without a status. The run
   id is lost, the next call triggers a second run, and no `Terminate` or `Abort`
   ever stops the first. The plugin's requirement STEP-05 (`.planning/milestones/v1.0-REQUIREMENTS.md:45`)
   is that runs are not orphaned, and the research notes take it that the previous status is
   all there is to preserve.
2. `step.go:169`, run `step_replay`: a replay of `Run` on a step that has
   succeeded polls before it looks at `FinalStatus`. On the k6-operator backend the
   step's own cleanup has deleted the CR, so the poll is an error, and after the
   deadline a failure. `step_test.go:674` asserts that a replay still reports success,
   against a mock that keeps the run.
3. `step.go:136`, run `step_never_times_out`: a poll-only step whose first polls
   fail stores nothing, so that each call starts its timeout anew; D-01 counts from the
   first `Run`.
4. `metric.go:107`, run `metric_collect`: `GarbageCollect` cleans up every run
   of the metric. When it is a new measurement that overflows the retention limit, its
   run is in flight, and on the k6-operator backend loses its CR and its pods. The
   comment at `metric.go:74` takes such a cleanup for a no-op.

5. `exitcode.go:83`, run `operator_pod_lost`: `checkRunnerExitCodes` fails on an empty list of
   pods and else gives the verdict of those it finds, without comparing their number with
   `spec.parallelism`. With the pod that breached its thresholds, or has not ended, gone (its node
   removed, or the cascade of a CR deleted between the two reads at work), the run is `Passed`. The plan
   (`.planning/milestones/v0.3.0-phases/08-k6-operator-provider/08-02-PLAN.md:22`) is that it is when *all* runner pods exit 0.
6. `cloud.go:138`, run `cloud_partial`: metrics are queried, and with the k6-operator read
   (`operator.go:356`), only for a run that passed or failed; of a run in flight they are
   all 0. `provider.go:29` and `:47` and `cloud.go:95` promise partial metrics of active runs.

The first four cost load, time or an error, never a false success: `CleanupSparesRunInFlight`
holds, and `SuccessMeansPassed` in spite of them. The fifth is a false success, of the step and of the metric,
and the reason for the "or incomplete" there. The sixth costs the live
values of a measurement in flight.

## What is not modelled

- Values: what a measurement shows, thresholds, messages, URLs, logging, `ResumeAt`.
  Of `extractMetricValue`, which metrics it knows (`MetricIsKnown`), not their values.
- Of the custom resources: the runner's image, resources, environment and arguments, which
  are passed on unread.
- `p(99)`, which `summary.go` treats like `p(95)`; JSON itself, which is a property of a
  block of lines.
- `cloud.go`'s HTTP and JSON; status values the API does not document (`mapToRunState`
  makes any of them `Errored`).
- Time within a tick: `TriggeredAt` has whole seconds, so that a timeout fires up to a
  second late, and a timeout below a second may pass in the call that triggers.
- The metric plugin's `stopError` in liveness: an error of `StopRun` is dropped and the
  measurement finished, so that the run is certainly left.
- `cmd/`, the mock providers and the end-to-end tests: no logic of the program.

Met while modelling, and checked by no run: a summary with an unbalanced brace in a string is not found (see the
provisos); and the label `k6_cr` that the k6-operator puts on the pods has
at most 63 characters, while the name of a CR may have 253.

## Plan

Done, in this order: `Provider`; `StepContract` and `StepPlugin` with its runs and
proofs; `MetricPlugin`; `K6Operator` and its refinement of `Provider`; `Config`, `TestRun` and
`OwnedRun`; `Summary`; `CloudRun` and its refinement of `Provider`; the proofs about
`MetricPlugin`, `K6Operator`, `OwnedRun` and `CloudRun`; `MetricContract`; the proofs about
`Summary` and the number of runners.

Next:

1. **Several metrics of one AnalysisRun**, which end each other: today that is `AskToTerminate`.
2. **A Rollout with several steps**: that the runs of one step are over, or were stopped, when
   the next begins.
