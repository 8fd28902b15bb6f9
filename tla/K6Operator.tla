----------------------------- MODULE K6Operator -----------------------------
(***************************************************************************)
(* The k6-operator backend (internal/provider/operator): one TestRun CR    *)
(* from its creation to its deletion, as K6OperatorProvider sees it        *)
(* through the Kubernetes API.                                             *)
(*                                                                         *)
(* GetRunResult reads up to three times: the CR for its stage; when that   *)
(* is "finished", the runner pods for their exit codes, which the          *)
(* k6-operator does not report (its issue #577); and when they give a      *)
(* verdict, the pods again for their logs, whose parsing is the matter of  *)
(* Summary. All may change in between. What the k6-operator and the        *)
(* kubelets do is not part of the repository; it is what exitcode.go       *)
(* guards against: the stage may be "finished" before all containers are   *)
(* seen terminated, containers may restart, and pods may be gone.          *)
(* A PrivateLoadZone, which is created in place of a TestRun when there    *)
(* are Grafana Cloud credentials, has no stage that is ever set.           *)
(***************************************************************************)
EXTENDS Naturals, FiniteSets

CONSTANTS
  Parallelism,  \* cfg.Parallelism
  ExitCodes,    \* the codes a k6 process may exit with
  Faults        \* what may go wrong, a subset of AllFaults

AllFaults == {"clientError", "apiError", "podLost", "vanish", "restart", "crash"}

ASSUME ParallelismAssumption == Parallelism \in Nat
ASSUME ExitCodesAssumption   == ExitCodes \subseteq Nat
ASSUME FaultsAssumption      == Faults \subseteq AllFaults

\* provider.RunState
Running == "Running"
Passed  == "Passed"
Failed  == "Failed"
Errored == "Errored"

\* buildTestRun: the k6-operator would take 0 for "paused".
Runners == 1 .. (IF Parallelism = 0 THEN 1 ELSE Parallelism)

\* The stages of a TestRun; "initialization" stands for all that precede the
\* runner pods, "" for a status that is not set yet.
Stages == {"", "initialization", "started", "stopped", "finished", "error"}

\* The container of a runner pod.
Container == [ phase : {"pending", "running", "terminated"},
               restarted : BOOLEAN,
               code : ExitCodes \cup {0} ]

Pending == [phase |-> "pending", restarted |-> FALSE, code |-> 0]

VARIABLES
  cloudConnected,  \* the CR is a PrivateLoadZone
  (* the cluster *)
  script,  \* the ConfigMap with the k6 script is there and not empty
  cr,      \* the TestRun CR: "none", "present" or "deleted"
  stage,   \* its stage, the last one once it is deleted
  pods,    \* the containers of the runners, as last seen by the API server
  there,   \* the runners whose pods are not gone; they come with "started"
  (* the plugin process *)
  client,  \* the Kubernetes client: "unset", "ready" or "failed"
  pc,      \* the provider call in progress: "idle", "create", "list", "logs"
  verdict, \* of the exit codes, while the logs are read
  answer,  \* what the last GetRunResult returned
  metrics  \* the pods whose metrics are in it

clusterVars == <<cloudConnected, script, cr, stage, pods, there>>
answerVars  == <<verdict, answer, metrics>>
vars == <<clusterVars, client, pc, answerVars>>

TypeOK ==
  /\ cloudConnected \in BOOLEAN
  /\ script \in BOOLEAN
  /\ cr \in {"none", "present", "deleted"}
  /\ stage \in Stages
  /\ pods \in [Runners -> Container]
  /\ there \in SUBSET Runners
  /\ client \in {"unset", "ready", "failed"}
  /\ pc \in {"idle", "create", "list", "logs"}
  /\ verdict \in {"none", Passed, Failed}
  /\ answer \in {"none", "error", Running, Passed, Failed, Errored}
  /\ metrics \in SUBSET Runners
  /\ pc = "logs" => verdict # "none"
  /\ pc = "create" => cr = "none"

Init ==
  /\ cloudConnected \in BOOLEAN
  /\ script \in BOOLEAN
  /\ cr = "none"
  /\ stage = ""
  /\ pods = [p \in Runners |-> Pending]
  /\ there = Runners
  /\ client = "unset"
  /\ pc = "idle"
  /\ verdict = "none"
  /\ answer = "none"
  /\ metrics = {}

-----------------------------------------------------------------------------
(* The provider's calls.                                                   *)

\* ensureClient: the first result, an error too, is kept for good.
EnsureClient ==
  client' \in IF client # "unset" THEN {client}
              ELSE {"ready"} \cup (IF "clientError" \in Faults THEN {"failed"} ELSE {})

\* The caller does not have the run id before TriggerRun has returned.
MayCall == pc = "idle" /\ cr # "none"

\* TriggerRun looks for the script before it creates the CR; it may be gone
\* when the k6-operator looks for it.
ReadScript ==
  /\ pc = "idle"
  /\ cr = "none"
  /\ EnsureClient
  /\ \/ client' = "ready" /\ script /\ pc' = "create"
     \/ (client' = "failed" \/ ~script \/ "apiError" \in Faults) /\ pc' = "idle"
  /\ UNCHANGED <<clusterVars, answerVars>>

CreateCR ==
  /\ pc = "create"
  /\ pc' = "idle"
  /\ \/ /\ cr' = "present"
        /\ UNCHANGED <<cloudConnected, script, stage, pods, there>>
     \/ /\ "apiError" \in Faults
        /\ UNCHANGED clusterVars
  /\ UNCHANGED <<client, answerVars>>

ExitCodeToRunState(code) ==
  CASE code = 0  -> Passed
    [] code = 99 -> Failed
    [] OTHER     -> Errored

\* A run that is being stopped counts as aborted.
BugStageToRunState(s) ==
  CASE s = "error"   -> Errored
    [] s = "stopped" -> "Aborted"
    [] OTHER         -> Running

\* "finished" says nothing of the verdict.
StageToRunState(s) == IF s = "error" THEN Errored ELSE Running

\* What one container makes of the run; Passed and Failed leave it to the
\* next one.
StateOf(c) ==
  CASE c.phase = "pending"                    -> Running
    [] c.phase # "pending" /\ c.restarted     -> Errored
    [] c.phase = "running" /\ ~c.restarted    -> Running
    [] c.phase = "terminated" /\ ~c.restarted -> ExitCodeToRunState(c.code)

\* Takes the containers that have terminated for all.
BugCheckRunnerExitCodes(ps) ==
  LET over == {p \in ps : pods[p].phase = "terminated"}
      states == {StateOf(pods[p]) : p \in over}
  IN  CASE over = {}          -> Running
        [] Errored \in states -> Errored
        [] OTHER              -> IF Failed \in states THEN Failed ELSE Passed

(***************************************************************************)
(* The pods are looked at in the order they are listed in; the first       *)
(* container that is not Passed or Failed decides. No pod at all is an     *)
(* error, which GetRunResult turns into Errored.                           *)
(***************************************************************************)
CheckRunnerExitCodes(ps) ==
  LET deciding == {p \in ps : StateOf(pods[p]) \in {Running, Errored}}
  IN  CASE ps = {}        -> Errored
        [] deciding # {} ->
             StateOf(pods[CHOOSE p \in deciding : \A q \in deciding : p <= q])
        [] OTHER ->
             IF \E p \in ps : StateOf(pods[p]) = Failed THEN Failed ELSE Passed

\* The states that GetRunResult reads the logs for.
HasMetrics(s) == s \in {Passed, Failed}

\* GetRunResult returns s, after the logs or without them.
Answer(s) ==
  IF HasMetrics(s)
  THEN /\ pc' = "logs"
       /\ verdict' = s
       /\ UNCHANGED <<answer, metrics>>
  ELSE /\ pc' = "idle"
       /\ answer' = s
       /\ metrics' = {}
       /\ UNCHANGED verdict

\* GetRunResult up to its second read.
GetCR ==
  /\ MayCall
  /\ EnsureClient
  /\ \/ /\ client' = "failed" \/ cr = "deleted" \/ "apiError" \in Faults
        /\ answer' = "error"
        /\ metrics' = {}
        /\ UNCHANGED <<pc, verdict>>
     \/ /\ client' = "ready"
        /\ cr = "present"
        /\ IF stage = "finished"
           THEN pc' = "list" /\ UNCHANGED answerVars
           ELSE Answer(StageToRunState(stage))
  /\ UNCHANGED clusterVars

\* The second read; its failure counts as a verdict.
ListPods ==
  /\ pc = "list"
  /\ \/ Answer(CheckRunnerExitCodes(there))
     \/ "apiError" \in Faults /\ Answer(Errored)
  /\ UNCHANGED <<clusterVars, client>>

(***************************************************************************)
(* The third read lists the pods once more. Some of them may yield no      *)
(* metrics: a log that cannot be read or has no summary; that costs only   *)
(* the metrics.                                                            *)
(***************************************************************************)
ReadLogs ==
  /\ pc = "logs"
  /\ pc' = "idle"
  /\ answer' = verdict
  /\ metrics' \in SUBSET there
  /\ verdict' = "none"
  /\ UNCHANGED <<clusterVars, client>>

\* StopRun and Cleanup; that there is nothing to delete is no error.
DeleteCR ==
  /\ MayCall
  /\ EnsureClient
  /\ \/ /\ client' = "ready"
        /\ cr' = "deleted"
     \/ /\ client' = "failed" \/ "apiError" \in Faults
        /\ UNCHANGED cr
  /\ UNCHANGED <<cloudConnected, script, stage, pods, there, pc, answerVars>>

\* The plugin process is started again; a call in progress has no answer.
Restart ==
  /\ "crash" \in Faults
  /\ client' = "unset"
  /\ pc' = "idle"
  /\ verdict' = "none"
  /\ UNCHANGED <<clusterVars, answer, metrics>>

-----------------------------------------------------------------------------
(* The cluster.                                                            *)

ScriptChanges ==
  /\ script' = ~script
  /\ UNCHANGED <<cloudConnected, cr, stage, pods, there, client, pc, answerVars>>

\* The k6-operator moves a TestRun on; the runner pods come with "started".
SetStage(s) ==
  /\ cr = "present"
  /\ ~cloudConnected
  /\ \/ stage = ""               /\ s \in {"initialization", "error"}
     \/ stage = "initialization" /\ s = "started" /\ script
     \/ stage = "initialization" /\ s = "error"
     \/ stage = "started"        /\ s \in {"stopped", "finished", "error"}
     \/ stage = "stopped"        /\ s = "finished"
  /\ stage' = s
  /\ UNCHANGED <<cloudConnected, script, cr, pods, there, client, pc, answerVars>>

\* What becomes of the pods of a TestRun in error, nobody looks at.
PodExists(p) == p \in there /\ stage \in {"started", "stopped", "finished"}

\* A container of a pod that exists starts, restarts or terminates.
PodMoves(p) ==
  /\ PodExists(p)
  /\ \/ /\ pods[p].phase = "pending"
        /\ pods' = [pods EXCEPT ![p].phase = "running"]
     \/ /\ pods[p].phase = "running"
        /\ "restart" \in Faults
        /\ ~pods[p].restarted
        /\ pods' = [pods EXCEPT ![p].restarted = TRUE]
     \/ /\ pods[p].phase = "running"
        /\ \E c \in ExitCodes :
             pods' = [pods EXCEPT ![p].phase = "terminated", ![p].code = c]
  /\ UNCHANGED <<cloudConnected, script, cr, stage, there, client, pc, answerVars>>

\* A pod is removed: the cascade from its CR, or it is lost.
PodGoes(p) ==
  /\ PodExists(p)
  /\ cr = "deleted" \/ "podLost" \in Faults
  /\ there' = there \ {p}
  /\ UNCHANGED <<cloudConnected, script, cr, stage, pods, client, pc, answerVars>>

\* Somebody else deletes the CR: a user, or the cascade from its owner.
CRVanishes ==
  /\ "vanish" \in Faults
  /\ cr = "present"
  /\ cr' = "deleted"
  /\ UNCHANGED <<cloudConnected, script, stage, pods, there, client, pc, answerVars>>

Next ==
  \/ ReadScript \/ CreateCR
  \/ GetCR \/ ListPods \/ ReadLogs
  \/ DeleteCR
  \/ Restart
  \/ ScriptChanges
  \/ \E s \in Stages : SetStage(s)
  \/ \E p \in Runners : PodMoves(p) \/ PodGoes(p)
  \/ CRVanishes

Spec == Init /\ [][Next]_vars

-----------------------------------------------------------------------------
(* Safety.                                                                 *)

(***************************************************************************)
(* A run is called Passed only if every one of its runners has terminated  *)
(* with exit code 0 and without a restart, however the two reads fall      *)
(* between the ends of its pods. All of its pods must be there to be read: *)
(* that some are missing, checkRunnerExitCodes does not notice; what it    *)
(* says then is in PassedMeansEveryRunnerPassed.                           *)
(***************************************************************************)
PassedMeansAllPassed ==
  (answer = Passed /\ there = Runners) =>
    \A p \in Runners :
      pods[p].phase = "terminated" /\ pods[p].code = 0 /\ ~pods[p].restarted

(***************************************************************************)
(* "After terminal state, all fields reflect final values" (provider.go):  *)
(* the metrics that come with a verdict are those of runners that have     *)
(* terminated, without a restart, and with exit codes that this verdict    *)
(* goes with, although the logs are a third read, after the two that gave  *)
(* the verdict, and pods may go between them. What the same comment says   *)
(* of a run in flight is in CloudRun's PartialMetricsWhileRunning.         *)
(***************************************************************************)
MetricsAreFinal ==
  answer \in {Passed, Failed} =>
    \A p \in metrics :
      /\ pods[p].phase = "terminated"
      /\ ~pods[p].restarted
      /\ pods[p].code \in (IF answer = Passed THEN {0} ELSE {0, 99})

(***************************************************************************)
(* A verdict on the thresholds is final: later polls repeat it, fail, or   *)
(* report Errored because the pods could not be read. No poll sees the run *)
(* Running again, or turns Passed into Failed or back.                     *)
(***************************************************************************)
VerdictKept ==
  [][ (answer \in {Passed, Failed} /\ there' = Runners) =>
        answer' \in {answer, Errored, "error"} ]_vars

(***************************************************************************)
(* What the two plugins are checked against is what this backend does: it  *)
(* is the Provider, for a run that is over when its stage is "finished"    *)
(* and has its verdict when all pods, those that are gone included, give   *)
(* one. A CR that is deleted during a poll counts as deleted at its end:   *)
(* the poll does not read it again.                                        *)
(***************************************************************************)
AbstractState ==
  CASE cr = "none" -> "Absent"
    [] cr # "none" /\ stage = "error" -> Errored
    [] cr # "none" /\ stage = "finished" ->
         IF CheckRunnerExitCodes(Runners) = Running
         THEN "Ended" ELSE CheckRunnerExitCodes(Runners)
    [] OTHER              -> IF cr = "present" THEN Running ELSE "Aborted"

run == "run"

Abstract == INSTANCE Provider WITH
  RunID    <- {run},
  NoRun    <- "none",
  Backend  <- "k6-operator",
  Faults   <- {"pollError", "podListError", "podLost", "vanish"},
  runState <- [r \in {run} |-> AbstractState],
  stored   <- IF cr = "present" \/ pc \in {"list", "logs"} THEN {run} ELSE {},
  incomplete <- IF there = Runners THEN {} ELSE {run}

(***************************************************************************)
(* Every step of the cluster and of the provider's calls is one of the     *)
(* abstract backend, or none: in particular a verdict, once it can be      *)
(* read, never changes, although the first pods are read before the last   *)
(* ones have terminated.                                                   *)
(***************************************************************************)
ImplementsProvider ==
  /\ Abstract!ProviderTypeOK
  /\ [][ \/ Abstract!TriggerRun(run)
         \/ Abstract!RunEnds(run)
         \/ Abstract!RunVanishes(run)
         \/ Abstract!PodsLost(run)
         \/ Abstract!StopRun(run) ]_(Abstract!providerVars)

(***************************************************************************)
(* GetRunResult answers what the abstract backend would answer at its last *)
(* read, also when the CR is deleted or pods are gone by then.             *)
(***************************************************************************)
AnswersLikeProvider ==
  [][ ( /\ GetCR \/ ListPods \/ ReadLogs
        /\ pc' = "idle"
        /\ answer' # "error" )
      => answer' \in Abstract!GetRunResult(run) ]_vars

(***************************************************************************)
(* What the comments and plans promise without these provisos. Checked by  *)
(* a run of its own, which finds it violated.                              *)
(***************************************************************************)

\* exitcode.go: every container is checked, and Failed comes before Passed.
PassedMeansEveryRunnerPassed ==
  answer = Passed =>
    \A p \in Runners : pods[p].phase = "terminated" /\ pods[p].code = 0

=============================================================================
