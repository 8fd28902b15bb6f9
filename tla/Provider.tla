------------------------------ MODULE Provider ------------------------------
(***************************************************************************)
(* The k6 execution backend, as the two plugins see it through the         *)
(* provider.Provider interface (internal/provider/provider.go): a pool of  *)
(* test runs that are started, that end by themselves with a verdict, and  *)
(* that StopRun and Cleanup act on.                                        *)
(*                                                                         *)
(* The two backends differ in what a stop and a cleanup do to the run:     *)
(*   - "grafana-cloud" aborts the run and keeps it; Cleanup is a no-op;    *)
(*   - "k6-operator" deletes the TestRun CR for both (deleteCR), which     *)
(*     kills the runner pods of a run in flight.                           *)
(* A run that is deleted keeps the verdict it had reached in runState, so  *)
(* that a plugin's answer can be compared with it afterwards.              *)
(***************************************************************************)
EXTENDS FiniteSets

CONSTANTS
  RunID,    \* the run ids the backend can hand out or already knows
  NoRun,    \* the empty run id
  Backend,  \* which provider the Router resolves cfg.Provider to
  Faults    \* what may go wrong around the plugin, a subset of AllFaults

GrafanaCloud == "grafana-cloud"
K6Operator   == "k6-operator"

(***************************************************************************)
(* Every call of the interface can fail without effect ("triggerError",    *)
(* "pollError", "stopError", "cleanupError"). Besides these: TriggerRun    *)
(* can start a run whose answer is lost ("triggerLost"); the k6-operator   *)
(* backend answers Errored when it cannot list the runner pods of a run    *)
(* that is over ("podListError"); some of these pods can be gone by then   *)
(* ("podLost"); somebody else can delete the run ("vanish"); the plugin or *)
(* the controller can die during a call ("crash").                         *)
(***************************************************************************)
AllFaults == { "triggerError", "triggerLost", "pollError", "podListError",
               "podLost", "stopError", "cleanupError", "vanish", "crash" }

ASSUME BackendAssumption == Backend \in {GrafanaCloud, K6Operator}
ASSUME NoRunAssumption   == NoRun \notin RunID
ASSUME FaultsAssumption  == Faults \subseteq AllFaults

Running == "Running"
Passed  == "Passed"
Failed  == "Failed"
Errored == "Errored"
Aborted == "Aborted"
(***************************************************************************)
(* Not values of provider.RunState: no run has this id yet; and the run is *)
(* over, but what its runner pods exited with cannot be read yet, which    *)
(* the k6-operator backend reports as Running.                             *)
(***************************************************************************)
Absent  == "Absent"
Ended   == "Ended"

RunState == {Running, Passed, Failed, Errored, Aborted}
IsTerminal(s) == s # Running

\* The verdicts a run reaches by itself: only Grafana Cloud reports Aborted
\* (mapToRunState); no stage and no exit code of the k6-operator does.
Verdicts == {Passed, Failed, Errored}
              \cup (IF Backend = GrafanaCloud THEN {Aborted} ELSE {})

VARIABLES
  runState,   \* for every run id, the state its run is in
  stored,     \* the runs the backend still answers for
  incomplete  \* the runs of which a runner pod is gone

providerVars == <<runState, stored, incomplete>>

ProviderTypeOK ==
  /\ runState \in [RunID -> RunState \cup {Absent, Ended}]
  /\ stored \in SUBSET RunID
  /\ incomplete \in SUBSET RunID
  /\ \A r \in stored \cup incomplete : runState[r] # Absent

-----------------------------------------------------------------------------
(* What the backend does by itself.                                        *)

\* A run in flight ends, and then has a verdict; its pods outlive its CR.
RunEnds(r) ==
  /\ \/ /\ runState[r] = Ended \/ (runState[r] = Running /\ r \in stored)
        /\ \E v \in Verdicts : runState' = [runState EXCEPT ![r] = v]
     \/ /\ runState[r] = Running
        /\ r \in stored
        /\ Backend = K6Operator
        /\ runState' = [runState EXCEPT ![r] = Ended]
  /\ UNCHANGED <<stored, incomplete>>

\* Deleting a run kills what is still in flight of it.
Killed(r) ==
  [runState EXCEPT ![r] = IF runState[r] = Running THEN Aborted ELSE @]

\* Somebody else deletes the run: a user, or the owner-reference cascade.
RunVanishes(r) ==
  /\ "vanish" \in Faults
  /\ r \in stored
  /\ runState' = Killed(r)
  /\ stored' = stored \ {r}
  /\ UNCHANGED incomplete

\* A runner pod is removed: with its node, or by the cascade from a CR that
\* is deleted while it is being polled.
PodsLost(r) ==
  /\ "podLost" \in Faults
  /\ Backend = K6Operator
  /\ runState[r] # Absent
  /\ incomplete' = incomplete \cup {r}
  /\ UNCHANGED <<runState, stored>>

-----------------------------------------------------------------------------
(* The calls of the interface.                                             *)

Fresh == {r \in RunID : runState[r] = Absent}

TriggerRun(r) ==
  /\ r \in Fresh
  /\ runState' = [runState EXCEPT ![r] = Running]
  /\ stored' = stored \cup {r}
  /\ UNCHANGED incomplete

(***************************************************************************)
(* The states GetRunResult may report for r; none when it returns an       *)
(* error, which it does for a run that is not stored. The k6-operator      *)
(* backend reads the run first and its pods after it, and gives the        *)
(* verdict of the pods that it finds: Errored if it cannot list them or    *)
(* finds none, and of a run that is not complete what the others say. A CR *)
(* that is deleted between the two reads is taken to be deleted after the  *)
(* answer; its pods may go before that.                                    *)
(***************************************************************************)
PodsUnread(r) ==
  /\ "podListError" \in Faults
  /\ Backend = K6Operator
  /\ runState[r] # Running

\* The pod that is gone may be the one that failed, or the one that runs on.
Remaining(s) ==
  CASE s = Passed               -> {Passed, Errored}
    [] s = Failed               -> {Passed, Failed, Errored}
    [] s \in {Ended, Errored}   -> {Running, Passed, Failed, Errored}
    [] OTHER                    -> {}

GetRunResult(r) ==
  IF r \notin stored THEN {}
  ELSE {IF runState[r] = Ended THEN Running ELSE runState[r]}
         \cup (IF PodsUnread(r) THEN {Errored} ELSE {})
         \cup (IF r \in incomplete THEN Remaining(runState[r]) ELSE {})

GetRunResultMayFail(r) == r \notin stored \/ "pollError" \in Faults

\* The k6-operator's shared delete; a run that is not found counts as deleted.
DeleteCR(r) ==
  IF r \in stored
  THEN /\ runState' = Killed(r)
       /\ stored' = stored \ {r}
       /\ UNCHANGED incomplete
  ELSE UNCHANGED providerVars

\* StopRun succeeds. Stopping a run that has ended changes nothing of it.
StopRun(r) ==
  IF Backend = K6Operator
  THEN DeleteCR(r)
  ELSE /\ r \in stored
       /\ runState' = Killed(r)
       /\ UNCHANGED <<stored, incomplete>>

\* StopRun returns an error, which both plugins log and drop.
StopRunFails(r) ==
  /\ \/ "stopError" \in Faults
     \/ Backend = GrafanaCloud /\ r \notin stored
  /\ UNCHANGED providerVars

Cleanup(r) ==
  IF Backend = K6Operator THEN DeleteCR(r) ELSE UNCHANGED providerVars

CleanupFails(r) ==
  /\ "cleanupError" \in Faults
  /\ Backend = K6Operator
  /\ UNCHANGED providerVars

=============================================================================
