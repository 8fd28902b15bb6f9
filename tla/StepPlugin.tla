----------------------------- MODULE StepPlugin -----------------------------
(***************************************************************************)
(* One step of a Rollout run by the step plugin (internal/step/step.go).   *)
(*                                                                         *)
(* The plugin keeps nothing between calls: what it must remember is the    *)
(* stepState it returns as RpcStepResult.Status, which the rollouts        *)
(* controller stores and hands back in RpcStepContext.Status. The          *)
(* controller is not part of the repository; its part here is what the     *)
(* plugin's code and its design notes rely on: calls for one Rollout are   *)
(* made one at a time; an RpcError sets the phase to Error, leaves the     *)
(* stored status as it was and is retried; a terminal phase may still be   *)
(* replayed; and an answer can be lost before it is stored.                *)
(*                                                                         *)
(* A Run call is cut at its provider calls, so that time passes, the run   *)
(* ends, someone deletes it, or the plugin dies between any two of them.   *)
(***************************************************************************)
EXTENDS Provider, Naturals

CONSTANTS
  Configs,     \* the step configurations a behaviour may start with
  Timeout,     \* the parsed timeout, in clock ticks
  MaxReplays,  \* bound on Run calls the controller makes after a final answer
  MaxCrashes   \* bound on calls that are lost

\* What parseConfig and parseTimeout make of the configuration, and the run
\* the user asks the step to attach to (NoRun: the step triggers one).
ConfigType == [ parsed : {"valid", "invalid", "badTimeout"},
                testRunID : RunID \cup {NoRun} ]

ASSUME ConfigsAssumption == Configs \subseteq ConfigType
ASSUME TimeoutAssumption == Timeout \in Nat \ {0}
ASSUME BoundsAssumption  == MaxReplays \in Nat /\ MaxCrashes \in Nat

(***************************************************************************)
(* stepState. TriggeredAt is represented by the ticks elapsed since it,    *)
(* which saturate at Timeout + 1: the code only asks whether they exceed   *)
(* Timeout. It is written whenever RunID is, so that the error of parsing  *)
(* it cannot occur. TestRunURL is left out.                                *)
(***************************************************************************)
FinalStatuses == {"", Passed, Failed, Errored, Aborted, "TimedOut"}

StepState == [ runID       : RunID \cup {NoRun},
               elapsed     : 0 .. Timeout + 1,
               finalStatus : FinalStatuses,
               cleanupDone : BOOLEAN ]

ZeroState == [ runID |-> NoRun, elapsed |-> 0,
               finalStatus |-> "", cleanupDone |-> FALSE ]

Final == {"Successful", "Failed"}

VARIABLES
  (* the controller's record of the step *)
  cfg,       \* the step's configuration
  phase,     \* the phase of the step in the Rollout's status
  status,    \* the stepState stored in the Rollout's status
  wanted,    \* what is asked of the step: "run", "terminate" or "abort"
  settled,   \* the plugin has answered the Terminate or Abort call
  replays,   \* Run calls made after a final answer
  crashes,   \* calls lost so far
  (* the call in progress *)
  pc,        \* where it stands; "idle" when there is none
  state,     \* the stepState it works on
  answer,    \* the phase it will return, or "RpcError"
  (* history *)
  forgotten  \* the runs started by calls that ended without storing their id

controllerVars == <<cfg, phase, status, wanted, settled, replays, crashes>>
callVars == <<pc, state, answer>>
vars == <<controllerVars, callVars, forgotten, providerVars>>

TypeOK ==
  /\ ProviderTypeOK
  /\ cfg \in Configs
  /\ phase \in {"None", "Running", "Error"} \cup Final
  /\ status \in StepState
  /\ wanted \in {"run", "terminate", "abort"}
  /\ settled \in BOOLEAN
  /\ replays \in 0 .. MaxReplays
  /\ crashes \in 0 .. MaxCrashes
  /\ pc \in {"idle", "trigger", "deadline", "stop", "poll",
             "cleanup", "return", "terminate", "abort"}
  /\ state \in StepState
  /\ answer \in {"None", "Running", "RpcError"} \cup Final
  /\ forgotten \in SUBSET RunID

\* A run named by the configuration may be in any state, or not exist.
Init ==
  /\ cfg \in Configs
  /\ runState \in [RunID -> {Absent, Running} \cup Verdicts]
  /\ \A r \in RunID : r # cfg.testRunID => runState[r] = Absent
  /\ stored = {r \in RunID : runState[r] # Absent}
  /\ incomplete = {}
  /\ phase = "None"
  /\ status = ZeroState
  /\ wanted = "run"
  /\ settled = FALSE
  /\ replays = 0
  /\ crashes = 0
  /\ pc = "idle"
  /\ state = ZeroState
  /\ answer = "None"
  /\ forgotten = {}

-----------------------------------------------------------------------------
(* Run.                                                                    *)

\* Run returns the phase a; the controller has not stored it yet.
Return(a) == pc' = "return" /\ answer' = a

\* The controller calls Run: a step that is not final is run until it is, and
\* one that is may be replayed.
RunIsDue ==
  /\ pc = "idle"
  /\ wanted = "run"
  /\ phase \in Final => replays < MaxReplays

\* First call detection: no run id in the stored status.
BugFirstCall == phase # "Running"   \* judges by the phase, which an error resets
FirstCall == status.runID = NoRun

\* Run up to its first provider call: parse the configuration, then read the
\* stored status; attach to the configured run, or go and trigger one.
CallRun ==
  /\ RunIsDue
  /\ replays' = IF phase \in Final THEN replays + 1 ELSE replays
  /\ \/ /\ cfg.parsed # "valid"
        /\ Return("Failed")
        /\ UNCHANGED state
     \/ /\ cfg.parsed = "valid"
        /\ ~FirstCall
        /\ state' = status
        /\ pc' = "deadline"
        /\ UNCHANGED answer
     \/ /\ cfg.parsed = "valid"
        /\ FirstCall
        /\ cfg.testRunID # NoRun
        /\ state' = [status EXCEPT !.runID = cfg.testRunID, !.elapsed = 0]
        /\ pc' = "deadline"
        /\ UNCHANGED answer
     \/ /\ cfg.parsed = "valid"
        /\ FirstCall
        /\ cfg.testRunID = NoRun
        /\ state' = status
        /\ pc' = "trigger"
        /\ UNCHANGED answer
  /\ UNCHANGED <<cfg, phase, status, wanted, settled, crashes, forgotten, providerVars>>

\* TriggerRun returns an id; TriggeredAt is taken after it.
Trigger ==
  /\ pc = "trigger"
  /\ \E r \in RunID :
       /\ TriggerRun(r)
       /\ state' = [state EXCEPT !.runID = r, !.elapsed = 0]
  /\ pc' = "deadline"
  /\ UNCHANGED <<controllerVars, answer, forgotten>>

\* TriggerRun returns an error: nothing was started, or its answer was lost.
\* A backend that has no id left, which only the bound on RunID causes,
\* refuses too.
TriggerFails ==
  /\ pc = "trigger"
  /\ \/ /\ "triggerError" \in Faults \/ Fresh = {}
        /\ UNCHANGED <<forgotten, providerVars>>
     \/ /\ "triggerLost" \in Faults
        /\ \E r \in RunID :
             /\ TriggerRun(r)
             /\ forgotten' = forgotten \cup {r}
  /\ Return("RpcError")
  /\ UNCHANGED <<controllerVars, state>>

\* The timeout only applies while there is no verdict.
BugCheckDeadline ==
  /\ pc = "deadline"
  /\ pc' = IF state.elapsed > Timeout /\ state.finalStatus = ""
           THEN "stop" ELSE "poll"
  /\ UNCHANGED <<controllerVars, state, answer, forgotten, providerVars>>

\* The run is polled first, and the timeout only ends a poll that succeeds.
BugCheckDeadlineAfterPoll ==
  /\ pc = "deadline"
  /\ pc' = IF state.elapsed > Timeout /\ state.runID \in stored
           THEN "stop" ELSE "poll"
  /\ UNCHANGED <<controllerVars, state, answer, forgotten, providerVars>>

CheckDeadline ==
  /\ pc = "deadline"
  /\ pc' = IF state.elapsed > Timeout THEN "stop" ELSE "poll"
  /\ UNCHANGED <<controllerVars, state, answer, forgotten, providerVars>>

\* The timeout fails the step and forgets the run.
BugStopOnTimeout ==
  /\ pc = "stop"
  /\ state' = [state EXCEPT !.finalStatus = "TimedOut"]
  /\ Return("Failed")
  /\ UNCHANGED <<controllerVars, forgotten, providerVars>>

\* The timeout is exceeded: stop the run, whatever comes of it, and fail.
StopOnTimeout ==
  /\ pc = "stop"
  /\ StopRun(state.runID) \/ StopRunFails(state.runID)
  /\ state' = [state EXCEPT !.finalStatus = "TimedOut"]
  /\ Return("Failed")
  /\ UNCHANGED <<controllerVars, forgotten>>

PollFails ==
  /\ pc = "poll"
  /\ GetRunResultMayFail(state.runID)
  /\ Return("RpcError")
  /\ UNCHANGED <<controllerVars, state, forgotten, providerVars>>

\* Only a breached threshold fails the step.
BugPhaseOf(s) ==
  CASE s = Running -> "Running"
    [] s = Failed  -> "Failed"
    [] OTHER       -> "Successful"

PhaseOf(s) ==
  CASE s = Running -> "Running"
    [] s = Passed  -> "Successful"
    [] OTHER       -> "Failed"

BugCleanupAlways(s)   == ~state.cleanupDone
BugCleanupRepeated(s) == s \in {Passed, Failed, Errored}
CleanupIsDue(s) == s \in {Passed, Failed, Errored} /\ ~state.cleanupDone

Poll ==
  /\ pc = "poll"
  /\ \E s \in GetRunResult(state.runID) :
       /\ state' = [state EXCEPT !.finalStatus = IF IsTerminal(s) THEN s ELSE @]
       /\ answer' = PhaseOf(s)
       /\ pc' = IF CleanupIsDue(s) THEN "cleanup" ELSE "return"
  /\ UNCHANGED <<controllerVars, forgotten, providerVars>>

\* Cleanup is tried once; its error changes nothing of the answer.
CleanupRun ==
  /\ pc = "cleanup"
  /\ Cleanup(state.runID) \/ CleanupFails(state.runID)
  /\ state' = [state EXCEPT !.cleanupDone = TRUE]
  /\ pc' = "return"
  /\ UNCHANGED <<controllerVars, answer, forgotten>>

\* The call ends without its answer being stored: the run it started is known
\* to nobody any more.
Forget ==
  forgotten' = forgotten \cup ({state.runID} \ {NoRun, status.runID, cfg.testRunID})

\* The controller stores the answer. An RpcError leaves the status as it was.
StoreAnswer ==
  /\ pc = "return"
  /\ IF answer = "RpcError"
     THEN phase' = "Error" /\ Forget /\ UNCHANGED status
     ELSE phase' = answer /\ status' = state /\ UNCHANGED forgotten
  /\ pc' = "idle"
  /\ state' = ZeroState
  /\ answer' = "None"
  /\ UNCHANGED <<cfg, wanted, settled, replays, crashes, providerVars>>

-----------------------------------------------------------------------------
(* Terminate and Abort.                                                    *)

\* The step is skipped or the Rollout is aborted; an abort can follow.
AskToStop(w) ==
  /\ phase # "None"
  /\ \/ w = "terminate" /\ wanted = "run"
     \/ w = "abort" /\ wanted \in {"run", "terminate"}
  /\ wanted' = w
  /\ settled' = FALSE
  /\ UNCHANGED <<cfg, phase, status, replays, crashes, callVars, forgotten, providerVars>>

\* A step that is retrying is taken for one without a run.
BugStopActiveRun ==
  IF cfg.parsed = "invalid" \/ phase # "Running"
  THEN UNCHANGED providerVars
  ELSE StopRun(status.runID) \/ StopRunFails(status.runID)

\* Stop the run of the stored status, if there is one; errors are dropped.
\* The timeout is not parsed here.
StopActiveRun ==
  IF cfg.parsed = "invalid" \/ status.runID = NoRun
  THEN UNCHANGED providerVars
  ELSE StopRun(status.runID) \/ StopRunFails(status.runID)

CallStop(w) ==
  /\ pc = "idle"
  /\ wanted = w
  /\ ~settled
  /\ StopActiveRun
  /\ pc' = w
  /\ UNCHANGED <<controllerVars, state, answer, forgotten>>

Terminate == CallStop("terminate")
Abort     == CallStop("abort")

\* The controller stores that the call has been answered; it may meanwhile
\* want the other one.
StoreStopped ==
  /\ pc \in {"terminate", "abort"}
  /\ settled' = (wanted = pc)
  /\ pc' = "idle"
  /\ UNCHANGED <<cfg, phase, status, wanted, replays, crashes, state, answer,
                 forgotten, providerVars>>

-----------------------------------------------------------------------------
(* The environment.                                                        *)

\* The plugin or the controller dies, or the Rollout's status update is
\* refused: what the call did to the backend stays, its answer is lost.
CallLost ==
  /\ "crash" \in Faults
  /\ crashes < MaxCrashes
  /\ pc # "idle"
  /\ crashes' = crashes + 1
  /\ Forget
  /\ pc' = "idle"
  /\ state' = ZeroState
  /\ answer' = "None"
  /\ UNCHANGED <<cfg, phase, status, wanted, settled, replays, providerVars>>

\* Counts on at the saturation point, and without a run.
BugAged(s) ==
  IF s.elapsed <= Timeout + 1 THEN [s EXCEPT !.elapsed = @ + 1] ELSE s

Aged(s) ==
  IF s.runID # NoRun /\ s.elapsed <= Timeout
  THEN [s EXCEPT !.elapsed = @ + 1] ELSE s

Tick ==
  /\ Aged(status) # status \/ Aged(state) # state
  /\ status' = Aged(status)
  /\ state' = Aged(state)
  /\ UNCHANGED <<cfg, phase, wanted, settled, replays, crashes, pc, answer,
                 forgotten, providerVars>>

RunStep == \/ Trigger \/ TriggerFails \/ CheckDeadline \/ StopOnTimeout
           \/ PollFails \/ Poll \/ CleanupRun

StopStep == Terminate \/ Abort \/ StoreStopped

\* A pod that is gone shows once its run is over, as long as the run is stored.
Environment ==
  /\ \/ \E r \in RunID : RunEnds(r) \/ RunVanishes(r)
     \/ \E r \in stored : runState[r] # Running /\ PodsLost(r)
  /\ UNCHANGED <<controllerVars, callVars, forgotten>>

Next ==
  \/ CallRun \/ RunStep \/ StoreAnswer
  \/ \E w \in {"terminate", "abort"} : AskToStop(w)
  \/ StopStep
  \/ CallLost
  \/ Tick
  \/ Environment

(***************************************************************************)
(* Fairness. The controller requeues a step that is not final (after 15    *)
(* seconds, or its error backoff); every provider call returns within      *)
(* providerCallTimeout, in its favour or not; time passes. Nothing is      *)
(* assumed of the run: it may never end, and every poll may fail.          *)
(***************************************************************************)
Fairness ==
  /\ WF_vars(CallRun)
  /\ WF_vars(RunStep)
  /\ WF_vars(StoreAnswer)
  /\ WF_vars(StopStep)
  /\ WF_vars(Tick)

Spec == Init /\ [][Next]_vars
FairSpec == Spec /\ Fairness

-----------------------------------------------------------------------------
(* Safety.                                                                 *)

(***************************************************************************)
(* A step is reported Successful only on the strength of the run named in  *)
(* the stored status, and that run has passed, or lost a runner pod before *)
(* its pods were read: neither a lost answer, a duplicate run, a deleted   *)
(* CR, a stop nor a replay makes a Rollout go on after a test that did not *)
(* pass (step.go, the switch on result.State). What a run is said to be    *)
(* when some of its pods are gone is a matter of checkRunnerExitCodes.     *)
(***************************************************************************)
SuccessMeansPassed ==
  phase = "Successful" =>
    /\ status.runID # NoRun
    /\ runState[status.runID] = Passed \/ status.runID \in incomplete

(***************************************************************************)
(* Once the stored status names a run, no later Run call replaces it or    *)
(* moves TriggeredAt forward: retries, lost answers and replays neither    *)
(* start a second run nor give the first one more time.                    *)
(***************************************************************************)
AttachmentStable ==
  [][ status.runID # NoRun =>
        /\ status'.runID = status.runID
        /\ status'.elapsed >= status.elapsed ]_vars

(***************************************************************************)
(* Cleanup deletes the CR on the k6-operator backend, so it must never     *)
(* reach a run that is still in flight, however stale the poll it follows. *)
(***************************************************************************)
CleanupSparesRunInFlight ==
  pc = "cleanup" => runState[state.runID] # Running

(***************************************************************************)
(* Cleanup is not fired again once the status that says so was stored,     *)
(* whatever the replayed poll reports (CleanupDone, GC-02).                *)
(***************************************************************************)
CleanupNotRepeated ==
  status.cleanupDone => pc # "cleanup"

(***************************************************************************)
(* A stored verdict against the new version is not taken back: after a     *)
(* step failed on its run or its timeout, no replay turns it into a        *)
(* success. It rests on the backend repeating its verdict, which the       *)
(* k6-operator backend does not when it cannot list the runner pods, or    *)
(* when the pod that failed is gone by the time of the replay.             *)
(***************************************************************************)
BadStatuses == {Failed, Errored, Aborted, "TimedOut"}

FailureIsFinal ==
  [][ ( /\ "podListError" \notin Faults
        /\ status.finalStatus \in BadStatuses
        /\ status.runID \notin incomplete' ) =>
        /\ status'.finalStatus \in BadStatuses
        /\ phase' # "Successful" ]_vars

\* The runs this step started.
Triggered == {r \in RunID : r # cfg.testRunID /\ runState[r] # Absent}

(***************************************************************************)
(* A step starts one run (step.go: "first Run() triggers a k6 test run,    *)
(* subsequent Run() calls poll until terminal"). It starts another only    *)
(* after a call that did not get as far as storing the id of the run it    *)
(* had started, which has no other home than the status that call returns: *)
(* what fails, is lost or is replayed after that does not count.           *)
(***************************************************************************)
Remembered == Triggered \ forgotten

OneRunPerStep == \A r1, r2 \in Remembered : r1 = r2

(***************************************************************************)
(* When the step is over, by an answer or by Terminate or Abort, none of   *)
(* the runs it started and whose id was stored is still generating load,   *)
(* provided that StopRun worked (STEP-05, D-01).                           *)
(***************************************************************************)
Over == pc = "idle" /\ (phase \in Final \/ settled)

NoRunLeftBehind ==
  ("stopError" \notin Faults /\ Over) =>
    \A r \in Remembered : runState[r] # Running

(***************************************************************************)
(* Seen from the Rollout's status, the step keeps its contract.            *)
(***************************************************************************)
Outcome(s) ==
  CASE s \in {Absent, Running, Passed} -> s
    [] s = Ended                       -> Running
    [] OTHER                           -> "NotPassed"

Contract == INSTANCE StepContract WITH
  MayReplay <- MaxReplays > 0,
  attached  <- status.runID,
  answer    <- phase,
  outcome   <- [r \in RunID |-> Outcome(runState[r])]

ImplementsContract == Contract!Spec

-----------------------------------------------------------------------------
(* Liveness.                                                               *)

(***************************************************************************)
(* Once the stored status names a run, the step ends, even if the run      *)
(* never does and every poll fails: the timeout is checked before the      *)
(* poll (D-01).                                                            *)
(***************************************************************************)
AttachedStepEnds ==
  status.runID # NoRun ~> (phase \in Final \/ wanted # "run")

(***************************************************************************)
(* A Terminate or an Abort reaches the run of the stored status, also when *)
(* the request arrives during a Run call or the stopping call is lost.     *)
(***************************************************************************)
StopReachesRun ==
  "stopError" \notin Faults =>
    \A r \in RunID :
      (wanted # "run" /\ status.runID = r /\ r \in stored)
        ~> runState[r] # Running

(***************************************************************************)
(* What the design notes promise without these provisos. Each is checked   *)
(* by a run of its own, which finds it violated.                           *)
(***************************************************************************)

\* D-01, STEP-05: no orphaned runs when the step is over.
NoOrphanedRuns == Over => \A r \in Triggered : runState[r] # Running

\* step_test.go: a replay of Run after success still reports success.
ReplayKeepsSuccess == [][phase = "Successful" => phase' = "Successful"]_vars

\* D-01: the timeout, counted from the first Run, ends every step.
TimeoutEndsStep == <>(phase \in Final \/ wanted # "run")

=============================================================================
