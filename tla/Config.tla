-------------------------------- MODULE Config --------------------------------
(***************************************************************************)
(* The plugins' configuration (internal/provider/config.go), what          *)
(* parseConfig of the two plugins accepts, the fields they inject before   *)
(* every provider call, and the backend the Router then resolves to.       *)
(*                                                                         *)
(* A text is "" when it is not given. A name is a sequence of characters   *)
(* and a run id one of its parts between slashes, <<>> when not given.     *)
(* Resources, the runner's image, environment and arguments are passed on  *)
(* unread and left out.                                                    *)
(***************************************************************************)
EXTENDS Integers, Sequences

(***************************************************************************)
(* PluginConfig, as the user writes it: the last four fields are not read  *)
(* from the configuration. configMapRef is represented by which of its     *)
(* parts are there.                                                        *)
(***************************************************************************)
UserConfig(provider, configMapRef, namespace, parallelism, testRunID) ==
  [ provider |-> provider, configMapRef |-> configMapRef,
    namespace |-> namespace, parallelism |-> parallelism,
    testRunID |-> testRunID, testID |-> "", apiToken |-> "", stackID |-> "",
    timeout |-> [given |-> "no", ms |-> 0],
    metric |-> "thresholds", aggregation |-> "",
    rolloutName |-> <<>>, analysisRunName |-> <<>>,
    analysisRunUID |-> "", rolloutUID |-> "" ]

ConfigFields == DOMAIN UserConfig("", "nil", "", 0, <<>>)

\* Forgets that no provider means this one.
BugIsGrafanaCloud(c) == c.provider = "grafana-cloud"

IsGrafanaCloud(c) == c.provider \in {"", "grafana-cloud"}

ValidateGrafanaCloud(c) ==
  /\ c.testID # "" \/ c.testRunID # <<>>
  /\ c.apiToken # ""
  /\ c.stackID # ""

ValidateK6Operator(c) ==
  /\ c.configMapRef = "complete"   \* not "nil", "noName" or "noKey"
  /\ c.parallelism >= 0

\* A provider that neither plugin knows is left to the Router.
ValidForProvider(c) ==
  /\ IsGrafanaCloud(c) => ValidateGrafanaCloud(c)
  /\ c.provider = "k6-operator" => ValidateK6Operator(c)

DefaultTimeout == 5 * 60 * 1000
MaxTimeout     == 2 * 60 * 60 * 1000

\* The timeout, in milliseconds; {} when it is refused.
ParseTimeout(t) ==
  CASE t.given = "no"        -> {DefaultTimeout}
    [] t.given = "malformed" -> {}
    [] OTHER                 -> {t.ms} \cap 1 .. MaxTimeout

\* parseConfig and parseTimeout of the step plugin.
StepParses(c) ==
  IF ~ValidForProvider(c) THEN "invalid"
  ELSE IF ParseTimeout(c.timeout) = {} THEN "badTimeout" ELSE "valid"

\* parseConfig of the metric plugin.
MetricParses(c) ==
  IF c.metric # "" /\ ValidForProvider(c) THEN "valid" ELSE "invalid"

\* extractMetricValue: the metrics there is a value of.
MetricIsKnown(c) ==
  \/ c.metric \in {"thresholds", "http_req_failed", "http_reqs"}
  \/ c.metric = "http_req_duration" /\ c.aggregation \in {"p50", "p95", "p99"}

-----------------------------------------------------------------------------
(* The metadata of the parents. The argument of a call may be nil.         *)

\* The user's namespace wins.
WithNamespace(c, namespace) ==
  IF c.namespace = "" THEN [c EXCEPT !.namespace = namespace] ELSE c

\* Without the check for a UID without a name.
BugPopulateFromRollout(c, isNil, rollout) ==
  IF isNil THEN c
  ELSE [ WithNamespace(c, rollout.namespace)
         EXCEPT !.rolloutName = rollout.name, !.rolloutUID = rollout.uid ]

PopulateFromRollout(c, isNil, rollout) ==
  CASE isNil -> c
    [] ~isNil /\ rollout.uid # "" /\ rollout.name = <<>> ->
         WithNamespace(c, rollout.namespace)
    [] OTHER ->
         [ WithNamespace(c, rollout.namespace)
           EXCEPT !.rolloutName = rollout.name, !.rolloutUID = rollout.uid ]

\* Forgets the namespace.
BugPopulateFromAnalysisRun(c, isNil, ar) ==
  IF isNil THEN c
  ELSE [ c EXCEPT !.analysisRunName = ar.name, !.analysisRunUID = ar.uid,
                  !.rolloutName = IF ar.controller THEN ar.owner ELSE c.rolloutName ]

\* Only an owner of kind Rollout that is the controller gives its name.
PopulateFromAnalysisRun(c, isNil, ar) ==
  IF isNil THEN c
  ELSE [ WithNamespace(c, ar.namespace)
         EXCEPT !.analysisRunName = ar.name, !.analysisRunUID = ar.uid,
                !.rolloutName = IF ar.controller THEN ar.owner ELSE c.rolloutName ]

-----------------------------------------------------------------------------
(* The Router of both plugin binaries.                                     *)

Registered == {"grafana-cloud", "k6-operator"}

\* The backend of every call with this configuration; {} for an error.
Resolve(c) ==
  {IF c.provider = "" THEN "grafana-cloud" ELSE c.provider} \cap Registered

=============================================================================
