---------------------------- MODULE MetricPlugin ----------------------------
(***************************************************************************)
(* One metric of one AnalysisRun, measured by the metric plugin            *)
(* (internal/metric/metric.go).                                            *)
(*                                                                         *)
(* The plugin keeps nothing between calls: the run of a measurement is the *)
(* runId in its Metadata. The analysis controller, which is not part of    *)
(* the repository, keeps the measurements. What is modelled of it is what  *)
(* the plugin relies on: it takes the measurements of a metric one after   *)
(* the other (Run), resumes the one in flight until it is finished         *)
(* (Resume), terminates it when the AnalysisRun is to end (Terminate), and *)
(* after either of these, when there are more measurements than the        *)
(* retention limit, calls GarbageCollect and then keeps the last ones.     *)
(* What it learned during a reconciliation is stored at its end.           *)
(*                                                                         *)
(* Run, Resume and Terminate make one provider call each, and are one      *)
(* step here; GarbageCollect makes one call per measurement.               *)
(***************************************************************************)
EXTENDS Provider, SequencesExt

CONSTANTS
  Configs,          \* the metric configurations a behaviour may start with
  Limit,            \* the measurement retention limit
  MaxMeasurements,  \* bound on the measurements taken
  MaxCrashes        \* bound on reconciliations that are lost

(***************************************************************************)
(* What parseConfig makes of the configuration; whether extractMetricValue *)
(* knows its metric and aggregation, which nothing asks before the run was *)
(* started; and the run the user asks to measure (NoRun: each measurement  *)
(* triggers one).                                                          *)
(***************************************************************************)
ConfigType == [ parsed : {"valid", "invalid"},
                value : {"known", "unsupported"},
                testRunID : RunID \cup {NoRun} ]

ASSUME ConfigsAssumption == Configs \subseteq ConfigType
ASSUME LimitAssumption   == Limit \in Nat \ {0}
ASSUME BoundsAssumption  == MaxMeasurements \in Nat /\ MaxCrashes \in Nat

\* A measurement is in flight until it has a FinishedAt, that is, while its
\* phase is Running, and then it has a run. Its value, message and the other
\* metadata are left out.
Measurement ==
  { m \in [ runID : RunID \cup {NoRun},
            phase : {"Running", "Successful", "Failed", "Error"} ] :
      m.phase = "Running" => m.runID # NoRun }

VARIABLES
  (* the AnalysisRun *)
  cfg,           \* the metric's configuration
  measurements,  \* the measurements in its status, oldest first
  taken,         \* how many were taken, those no longer retained included
  terminating,   \* it is to end: stopped, or judged by its other metrics
  done,          \* it has ended
  crashes,       \* reconciliations lost so far
  (* the reconciliation in progress *)
  pc,            \* where it stands; "idle" when there is none
  work,          \* the measurements it will store
  toClean        \* the runs GarbageCollect has still to go through

analysisVars == <<cfg, measurements, taken, terminating, done, crashes>>
reconcileVars == <<pc, work, toClean>>
vars == <<analysisVars, reconcileVars, providerVars>>

TypeOK ==
  /\ ProviderTypeOK
  /\ cfg \in Configs
  /\ measurements \in Seq(Measurement)
  /\ Len(measurements) <= Limit
  /\ taken \in Len(measurements) .. MaxMeasurements
  /\ terminating \in BOOLEAN
  /\ done \in BOOLEAN
  /\ crashes \in 0 .. MaxCrashes
  /\ pc \in {"idle", "collect", "clean", "store"}
  /\ work \in Seq(Measurement)
  /\ toClean \in Seq(RunID \cup {NoRun})

\* A run named by the configuration may be in any state, or not exist.
Init ==
  /\ cfg \in Configs
  /\ runState \in [RunID -> {Absent, Running} \cup Verdicts]
  /\ \A r \in RunID : r # cfg.testRunID => runState[r] = Absent
  /\ stored = {r \in RunID : runState[r] # Absent}
  /\ incomplete = {}
  /\ measurements = <<>>
  /\ taken = 0
  /\ terminating = FALSE
  /\ done = FALSE
  /\ crashes = 0
  /\ pc = "idle"
  /\ work = <<>>
  /\ toClean = <<>>

-----------------------------------------------------------------------------
(* The calls that make a measurement.                                      *)

InFlight == measurements # <<>> /\ Last(measurements).phase = "Running"
RunInFlight == Last(measurements).runID

\* The controller has the measurements ms, and collects when they are too many.
Return(ms) ==
  /\ work' = ms
  /\ pc' = IF Len(ms) > Limit THEN "collect" ELSE "store"
  /\ UNCHANGED <<analysisVars, toClean>>

\* Run returns a new measurement.
Take(r, p) == Return(Append(measurements, [runID |-> r, phase |-> p]))

\* Resume or Terminate returns the measurement in flight with the phase p.
Update(p) == Return([measurements EXCEPT ![Len(measurements)].phase = p])

MeasurementIsDue ==
  /\ pc = "idle"
  /\ ~terminating
  /\ ~InFlight
  /\ taken < MaxMeasurements

\* The configuration is rejected.
RunRejects ==
  /\ MeasurementIsDue
  /\ cfg.parsed = "invalid"
  /\ Take(NoRun, "Error")
  /\ UNCHANGED providerVars

\* Poll-only mode: whether the run exists is not looked up.
RunAttaches ==
  /\ MeasurementIsDue
  /\ cfg.parsed = "valid"
  /\ cfg.testRunID # NoRun
  /\ Take(cfg.testRunID, "Running")
  /\ UNCHANGED providerVars

RunTriggers ==
  /\ MeasurementIsDue
  /\ cfg.parsed = "valid"
  /\ cfg.testRunID = NoRun
  /\ \E r \in RunID : TriggerRun(r) /\ Take(r, "Running")

\* Returns the measurement as it was made.
BugRunTriggerFails ==
  /\ MeasurementIsDue
  /\ cfg.parsed = "valid"
  /\ cfg.testRunID = NoRun
  /\ "triggerError" \in Faults
  /\ Take(NoRun, "Running")
  /\ UNCHANGED providerVars

\* TriggerRun returns an error: nothing was started, or its answer was lost.
\* A backend that has no id left, which only the bound on RunID causes,
\* refuses too.
RunTriggerFails ==
  /\ MeasurementIsDue
  /\ cfg.parsed = "valid"
  /\ cfg.testRunID = NoRun
  /\ \/ /\ "triggerError" \in Faults \/ Fresh = {}
        /\ UNCHANGED providerVars
     \/ /\ "triggerLost" \in Faults
        /\ \E r \in RunID : TriggerRun(r)
  /\ Take(NoRun, "Error")

\* Only a breached threshold speaks against the run.
BugPhaseOf(s) ==
  CASE s = Running -> "Running"
    [] s = Failed  -> "Failed"
    [] OTHER       -> "Successful"

\* Everything that is over and has not passed is a failure.
BugPhaseOfOver(s) ==
  CASE s = Running -> "Running"
    [] s = Passed  -> "Successful"
    [] OTHER       -> "Failed"

PhaseOf(s) ==
  CASE s = Running -> "Running"
    [] s = Passed  -> "Successful"
    [] s = Failed  -> "Failed"
    [] OTHER       -> "Error"

\* Leaves the phase alone when the run is over.
BugResume ==
  /\ pc = "idle"
  /\ ~terminating
  /\ InFlight
  /\ \E s \in GetRunResult(RunInFlight) :
       Update(IF s \in {Errored, Aborted} THEN "Running" ELSE PhaseOf(s))
  /\ UNCHANGED providerVars

\* Takes partial metrics of a run in flight for its result.
BugResumePartial ==
  /\ pc = "idle"
  /\ ~terminating
  /\ InFlight
  /\ \E s \in GetRunResult(RunInFlight) :
       Update(IF s = Running THEN "Error" ELSE PhaseOf(s))
  /\ UNCHANGED providerVars

\* The value is extracted before the state is looked at. The configuration
\* and the runId were found good by Run, so that their checks pass again.
Resume ==
  /\ pc = "idle"
  /\ ~terminating
  /\ InFlight
  /\ \E s \in GetRunResult(RunInFlight) :
       Update(IF cfg.value = "unsupported" THEN "Error" ELSE PhaseOf(s))
  /\ UNCHANGED providerVars

\* The error finishes the measurement; the run is not stopped.
ResumeFails ==
  /\ pc = "idle"
  /\ ~terminating
  /\ InFlight
  /\ GetRunResultMayFail(RunInFlight)
  /\ Update("Error")
  /\ UNCHANGED providerVars

\* Finishes the measurement and leaves the run.
BugTerminate ==
  /\ pc = "idle"
  /\ terminating
  /\ InFlight
  /\ Update("Error")
  /\ UNCHANGED providerVars

Terminate ==
  /\ pc = "idle"
  /\ terminating
  /\ InFlight
  /\ StopRun(RunInFlight) \/ StopRunFails(RunInFlight)
  /\ Update("Error")

-----------------------------------------------------------------------------
(* Garbage collection.                                                     *)

\* The runs of all but the measurements to keep, and one too few.
BugRunsToClean ==
  [i \in 1 .. Max({0, Len(work) - Limit - 1}) |-> work[i].runID]

\* The runs of all measurements, the retained ones too: GarbageCollect is
\* given the limit and ignores it.
RunsToClean == [i \in 1 .. Len(work) |-> work[i].runID]

GarbageCollect ==
  /\ pc = "collect"
  /\ toClean' = IF cfg.parsed = "valid" THEN RunsToClean ELSE <<>>
  /\ pc' = "clean"
  /\ UNCHANGED <<analysisVars, work, providerVars>>

\* One turn of the loop: a measurement without a run is skipped, and an
\* error changes nothing.
CleanNext ==
  /\ pc = "clean"
  /\ toClean # <<>>
  /\ IF Head(toClean) = NoRun THEN UNCHANGED providerVars
     ELSE Cleanup(Head(toClean)) \/ CleanupFails(Head(toClean))
  /\ toClean' = Tail(toClean)
  /\ UNCHANGED <<analysisVars, pc, work>>

Retained(ms) ==
  IF Len(ms) > Limit THEN SubSeq(ms, Len(ms) - Limit + 1, Len(ms)) ELSE ms

\* The controller stores the measurements it retains.
Store ==
  /\ \/ pc = "store"
     \/ pc = "clean" /\ toClean = <<>>
  /\ measurements' = Retained(work)
  /\ taken' = IF InFlight THEN taken ELSE taken + 1
  /\ pc' = "idle"
  /\ work' = <<>>
  /\ UNCHANGED <<cfg, terminating, done, crashes, toClean, providerVars>>

-----------------------------------------------------------------------------
(* The environment.                                                        *)

\* The AnalysisRun is stopped, or its other metrics decide it.
AskToTerminate ==
  /\ ~terminating
  /\ ~done
  /\ terminating' = TRUE
  /\ UNCHANGED <<cfg, measurements, taken, done, crashes, reconcileVars,
                 providerVars>>

\* Nothing is in flight and no other measurement will be taken.
Complete ==
  /\ pc = "idle"
  /\ ~done
  /\ ~InFlight
  /\ terminating \/ taken = MaxMeasurements
  /\ done' = TRUE
  /\ UNCHANGED <<cfg, measurements, taken, terminating, crashes,
                 reconcileVars, providerVars>>

\* The plugin or the controller dies, or the status update is refused: what
\* was done to the backend stays, what was learned is lost.
ReconcileLost ==
  /\ "crash" \in Faults
  /\ crashes < MaxCrashes
  /\ pc # "idle"
  /\ crashes' = crashes + 1
  /\ pc' = "idle"
  /\ work' = <<>>
  /\ toClean' = <<>>
  /\ UNCHANGED <<cfg, measurements, taken, terminating, done, providerVars>>

\* A pod that is gone shows once its run is over, as long as the run is stored.
Environment ==
  /\ \/ \E r \in RunID : RunEnds(r) \/ RunVanishes(r)
     \/ \E r \in stored : runState[r] # Running /\ PodsLost(r)
  /\ UNCHANGED <<analysisVars, reconcileVars>>

Measure == \/ RunRejects \/ RunAttaches \/ RunTriggers \/ RunTriggerFails
           \/ Resume \/ ResumeFails \/ Terminate

Collect == GarbageCollect \/ CleanNext \/ Store

Next ==
  \/ Measure
  \/ Collect
  \/ AskToTerminate \/ Complete
  \/ ReconcileLost
  \/ Environment

(***************************************************************************)
(* Fairness. The controller reconciles an AnalysisRun that has not ended,  *)
(* when ResumeAt is due or at the informer's resync, and every provider    *)
(* call returns within providerCallTimeout, in its favour or not. Nothing  *)
(* is assumed of the run: it may never end.                                *)
(***************************************************************************)
Fairness == WF_vars(Measure) /\ WF_vars(Collect) /\ WF_vars(Complete)

Spec == Init /\ [][Next]_vars
FairSpec == Spec /\ Fairness

-----------------------------------------------------------------------------
(* Safety.                                                                 *)

(***************************************************************************)
(* A measurement is Successful only if the run in its own metadata passed, *)
(* or lost a runner pod before its pods were read: collected CRs, lost     *)
(* reconciliations, stops and the state of a run in flight never count for *)
(* the new version (metric.go, the switch on result.State). What a run is  *)
(* said to be when some of its pods are gone is a matter of                *)
(* checkRunnerExitCodes.                                                   *)
(***************************************************************************)
SuccessMeansPassed ==
  \A i \in DOMAIN measurements :
    measurements[i].phase = "Successful" =>
      /\ measurements[i].runID # NoRun
      /\ \/ runState[measurements[i].runID] = Passed
         \/ measurements[i].runID \in incomplete

\* The runs this metric started, and those among them that generate load.
Triggered == {r \in RunID : r # cfg.testRunID /\ runState[r] # Absent}
Loading   == {r \in Triggered : runState[r] = Running}

(***************************************************************************)
(* The ways a measurement can be finished, or forgotten, while its run is  *)
(* in flight: a poll that fails, a metric extractMetricValue does not      *)
(* know, a lost answer. In all others the properties below hold.           *)
(***************************************************************************)
MeasurementMayLoseRun ==
  \/ Faults \cap {"triggerLost", "pollError", "crash"} # {}
  \/ cfg.value = "unsupported"

(***************************************************************************)
(* The measurements of a metric do not load the service at the same time:  *)
(* the next run is triggered when the one before it is over.               *)
(***************************************************************************)
OneLoadAtATime ==
  ~MeasurementMayLoseRun => \A r1, r2 \in Loading : r1 = r2

(***************************************************************************)
(* When the AnalysisRun has ended, no run of the metric still generates    *)
(* load, provided that StopRun worked (Terminate, D-15).                   *)
(***************************************************************************)
NoRunLeftBehind ==
  (~MeasurementMayLoseRun /\ "stopError" \notin Faults /\ done) => Loading = {}

(***************************************************************************)
(* A CR whose measurement is no longer retained was collected: nothing but *)
(* the measurement remembers it, so that GarbageCollect must clean it up   *)
(* before it is trimmed (GC-01).                                           *)
(***************************************************************************)
RememberedRuns == {measurements[i].runID : i \in DOMAIN measurements}

NoCRForgotten ==
  ( /\ Backend = K6Operator
    /\ Faults \cap {"triggerLost", "cleanupError", "crash"} = {}
    /\ pc = "idle" ) =>
  (stored \cap Triggered) \subseteq RememberedRuns

-----------------------------------------------------------------------------
(* The abstract specification.                                             *)

Contract == INSTANCE MetricContract WITH
  asked   <- cfg.testRunID,
  outcome <- [r \in RunID |-> IF runState[r] = Ended THEN Running ELSE runState[r]]

(***************************************************************************)
(* To a reader of the AnalysisRun, the metric does what MetricContract     *)
(* says: one measurement at a time, each of a run of its own, finished     *)
(* once, with the verdict of that run or of the pods that are left of it,  *)
(* or with an error, and never changed afterwards.                         *)
(***************************************************************************)
ImplementsContract == Contract!Spec

-----------------------------------------------------------------------------
(* Liveness.                                                               *)

(***************************************************************************)
(* When the AnalysisRun is to end, the run in flight is stopped, also when *)
(* reconciliations are lost on the way. Not so when that is decided during *)
(* a Resume whose poll fails: the measurement is then found finished.      *)
(***************************************************************************)
TerminateReachesRun ==
  "stopError" \notin Faults =>
    \A r \in RunID :
      (terminating /\ pc = "idle" /\ InFlight /\ RunInFlight = r /\ r \in stored)
        ~> runState[r] # Running

PollsSucceed ==
  /\ Faults \cap {"pollError", "podListError", "podLost"} = {}
  /\ cfg.value = "known"

Reported(r) ==
  [runID |-> r, phase |-> PhaseOf(runState[r])] \in ToSet(measurements)

(***************************************************************************)
(* The verdict of a run reaches its measurement: once the run in flight    *)
(* has one, a Resume finishes the measurement with the phase that belongs  *)
(* to it, unless the AnalysisRun is told to end or the run is deleted      *)
(* first. It is lost to one poll that fails or cannot read all pods, and   *)
(* to a metric that is not known.                                          *)
(***************************************************************************)
EndedRunIsReported ==
  PollsSucceed =>
    \A r \in RunID :
      ( /\ InFlight
        /\ RunInFlight = r
        /\ r \in stored
        /\ runState[r] \notin {Running, Ended} )
      ~> (Reported(r) \/ terminating \/ r \notin stored)

(***************************************************************************)
(* metric.go, on GarbageCollect: a run still in flight is not affected.    *)
(* Checked by a run of its own, which finds it violated.                   *)
(***************************************************************************)
CollectionSparesRunInFlight ==
  [][ \A r \in RunID :
        (pc = "clean" /\ runState[r] = Running) => runState'[r] # Aborted ]_vars

=============================================================================
