------------------------------- MODULE OwnedRun -------------------------------
(***************************************************************************)
(* One k6 run on the Kubernetes cluster and those it belongs to: what a    *)
(* call of either plugin makes of the user's configuration and of the      *)
(* Rollout or AnalysisRun it is passed, which custom resource the          *)
(* k6-operator backend creates from it, which one the later calls reach by *)
(* the run id, and when the garbage collector of Kubernetes deletes it.    *)
(*                                                                         *)
(* Every call parses the configuration again and is passed the parent      *)
(* again, which may be nil ("gob-boundary defense"); only the run id is    *)
(* kept. TriggerRun is cut before it creates the resource, so that its     *)
(* parent may go meanwhile. Whether it answers, and what k6 does with the  *)
(* resource, is the matter of StepPlugin, MetricPlugin and K6Operator.     *)
(***************************************************************************)
EXTENDS TestRun, SequencesExt

CONSTANTS
  Configs,   \* the configurations
  Rollouts,  \* the metadata of the Rollout
  Hashes,    \* the hashes a name may get
  Strangers  \* resources of others in the cluster

\* The fields that the plugins inject are not read from the configuration.
ASSUME ConfigsAssumption ==
  \A c \in Configs :
    /\ c = [f \in ConfigFields |-> c[f]]
    /\ c.rolloutUID = "" /\ c.analysisRunUID = "" /\ c.rolloutName = <<>>
    /\ c.parallelism \in Int
    /\ c.testRunID = [i \in 1 .. Len(c.testRunID) |-> c.testRunID[i]]

\* A name of the API server: parts of letters, digits and "-" between the dots.
ValidName(s) ==
  /\ s # <<>> /\ s[1] = "x"
  /\ \A i \in DOMAIN s : s[i] = "." =>
       /\ i > 1 /\ s[i - 1] = "x"
       /\ i < Len(s) /\ s[i + 1] = "x"

\* Kubernetes gives every Rollout a namespace, and admitted its name; what a
\* plugin is passed may have none.
ASSUME RolloutsAssumption ==
  \A r \in Rollouts :
    /\ r.namespace # ""
    /\ r.name # <<>> => r.name \in Seq({"x", "-", "."}) /\ ValidName(r.name)

NoAddress == [namespace |-> ""]

ASSUME StrangersAssumption == \A r \in Strangers : r.at # NoAddress

\* How an AnalysisRun is owned by the Rollout: as its controller, otherwise,
\* or not at all.
Ownerships == {"controller", "owner", "none"}

VARIABLES
  caller,     \* the plugin: "step" or "metric"
  cfg,        \* its configuration
  rollout,    \* the metadata of the Rollout
  ownership,  \* how it owns the AnalysisRun
  there,      \* the parents that exist: "Rollout", "AnalysisRun"
  resources,  \* the custom resources in the cluster
  pc,         \* "idle", or "create" within TriggerRun
  sent,       \* the configuration TriggerRun was called with
  orphan,     \* that call was passed no parent, or one without UID or name
  runID,      \* the run id the plugin has
  mine,       \* the address of the resource it last created
  owned,      \* the addresses of those it created for a parent
  deleted     \* runID, once StopRun or Cleanup with it gave no error

parents == <<caller, cfg, rollout, ownership>>
ownVars == <<parents, there, resources, pc, sent, orphan, runID, mine, owned, deleted>>

OwnInit ==
  /\ caller \in {"step", "metric"}
  /\ cfg \in Configs
  /\ rollout \in Rollouts
  /\ ownership \in Ownerships
  /\ caller = "step" => ownership = "none"
  /\ there = {"Rollout"} \cup (IF caller = "metric" THEN {"AnalysisRun"} ELSE {})
  /\ resources = Strangers
  /\ pc = "idle"
  /\ sent = cfg
  /\ orphan = FALSE
  /\ runID = <<>>
  /\ mine = NoAddress
  /\ owned = {}
  /\ deleted = <<>>

-----------------------------------------------------------------------------
(* The calls of the plugins.                                               *)

Accepted == IF caller = "step" THEN StepParses(cfg) = "valid"
            ELSE MetricParses(cfg) = "valid"

AnalysisRun == [ name |-> <<"x">>, uid |-> "analysis", namespace |-> rollout.namespace,
                 controller |-> ownership = "controller", owner |-> rollout.name ]

\* What the provider is called with.
Populated(isNil) ==
  IF caller = "step" THEN PopulateFromRollout(cfg, isNil, rollout)
  ELSE PopulateFromAnalysisRun(cfg, isNil, AnalysisRun)

(***************************************************************************)
(* The Run call without a run id to attach to, up to the Create request    *)
(* (the client and the ConfigMap are those of K6Operator).                 *)
(***************************************************************************)
TriggerRun(isNil) ==
  /\ pc = "idle"
  /\ runID = <<>>
  /\ cfg.testRunID = <<>>
  /\ Accepted
  /\ "k6-operator" \in Resolve(Populated(isNil))
  /\ ValidateK6Operator(Populated(isNil))
  /\ pc' = "create"
  /\ sent' = Populated(isNil)
  /\ orphan' = \/ isNil
               \/ caller = "step" /\ (rollout.name = <<>> \/ rollout.uid = "")
  /\ UNCHANGED <<parents, there, resources, runID, mine, owned, deleted>>

\* What the API server admits as a new resource. The hash in a name follows
\* a "-".
Admitted(r) ==
  /\ r.at \notin {o.at : o \in resources}
  /\ r.label # <<>> => r.label[1] = "x" /\ r.label[Len(r.label)] = "x"
  /\ Len(r.label) <= MaxLabel
  /\ Len(r.at.name) <= MaxRollout + 1
  /\ ValidName([r.at.name EXCEPT ![Len(r.at.name)] = "-"])
  /\ \A o \in r.owners : o.name # <<>>

CreateResource(hash) ==
  LET r == ResourceFor(sent, hash)
  IN  /\ pc = "create"
      /\ pc' = "idle"
      /\ IF Admitted(r)
         THEN /\ resources' = resources \cup {r}
              /\ runID' = EncodeRunID(r.at.namespace, r.at.resource, r.at.name)
              /\ mine' = r.at
              /\ owned' = IF orphan THEN owned \ {r.at} ELSE owned \cup {r.at}
         ELSE UNCHANGED <<resources, runID, mine, owned>>
      /\ UNCHANGED <<parents, there, sent, orphan, deleted>>

\* The answer of TriggerRun is lost, or another measurement begins.
AnswerLost ==
  /\ runID # <<>>
  /\ cfg.testRunID = <<>>
  /\ runID' = <<>>
  /\ deleted' = <<>>
  /\ UNCHANGED <<parents, there, resources, pc, sent, orphan, mine, owned>>

\* The Run call with a run id of the user's.
Attach ==
  /\ runID = <<>>
  /\ cfg.testRunID # <<>>
  /\ Accepted
  /\ runID' = cfg.testRunID
  /\ UNCHANGED <<parents, there, resources, pc, sent, orphan, mine, owned, deleted>>

(***************************************************************************)
(* StopRun or Cleanup: of the configuration the Router reads the provider, *)
(* which the parent does not change, and the backend nothing. A run id     *)
(* that cannot be decoded is an error.                                     *)
(***************************************************************************)
DeleteRun ==
  /\ runID # <<>>
  /\ "k6-operator" \in Resolve(cfg)
  /\ DecodeRunID(runID) # {}
  /\ resources' = {r \in resources : r.at \notin DecodeRunID(runID)}
  /\ deleted' = runID
  /\ UNCHANGED <<parents, there, pc, sent, orphan, runID, mine, owned>>

-----------------------------------------------------------------------------
(* Kubernetes.                                                             *)

DeleteParent(p) ==
  /\ p \in there
  /\ there' = there \ {p}
  /\ UNCHANGED <<parents, resources, pc, sent, orphan, runID, mine, owned, deleted>>

\* The garbage collector deletes what has owners none of which exists in the
\* same namespace: the AnalysisRun of a Rollout that is gone,
CollectAnalysisRun ==
  /\ "Rollout" \notin there
  /\ "AnalysisRun" \in there
  /\ ownership # "none"
  /\ there' = there \ {"AnalysisRun"}
  /\ UNCHANGED <<parents, resources, pc, sent, orphan, runID, mine, owned, deleted>>

\* and the resource of either.
Dangling(r) ==
  /\ r.owners # {}
  /\ \A o \in r.owners : o.kind \notin there \/ r.at.namespace # rollout.namespace

CollectResource(r) ==
  /\ r \in resources
  /\ Dangling(r)
  /\ resources' = resources \ {r}
  /\ UNCHANGED <<parents, there, pc, sent, orphan, runID, mine, owned, deleted>>

Collect(hash) == \E r \in resources : Last(r.at.name) = hash /\ CollectResource(r)

OwnNext ==
  \/ \E isNil \in BOOLEAN : TriggerRun(isNil)
  \/ \E hash \in Hashes : CreateResource(hash)
  \/ AnswerLost \/ Attach \/ DeleteRun
  \/ \E p \in there : DeleteParent(p)
  \/ CollectAnalysisRun
  \/ \E r \in resources : CollectResource(r)

OwnSpec == OwnInit /\ [][OwnNext]_ownVars

\* The garbage collector gets to every object.
OwnFairness ==
  /\ WF_ownVars(CollectAnalysisRun)
  /\ \A hash \in Hashes : WF_ownVars(Collect(hash))

-----------------------------------------------------------------------------
(* Safety.                                                                 *)

(***************************************************************************)
(* What either plugin accepts, the backend that the Router resolves to     *)
(* serves: it does not refuse the configuration for a field that is        *)
(* missing, after the run id was taken or in a poll. A provider that is    *)
(* not registered has no backend at all.                                   *)
(***************************************************************************)
AcceptedIsServed ==
  Accepted =>
    /\ Resolve(cfg) = {"k6-operator"} => ValidateK6Operator(cfg)
    /\ Resolve(cfg) = {"grafana-cloud"} =>
         /\ cfg.apiToken # "" /\ cfg.stackID # ""
         /\ cfg.testRunID = <<>> => cfg.testID # ""

\* The cut of the name falls behind a dot, which testRunName does not trim.
CutBehindDot ==
  Len(rollout.name) > MaxRollout /\ rollout.name[MaxRollout] = "."

(***************************************************************************)
(* The resource that TriggerRun is about to create is one the API server   *)
(* admits, whatever the parent is called and whether or not it was passed: *)
(* its label and its name are valid, its owner is named, and the hash      *)
(* tells it from all others (sanitizeLabelValue, testRunName,              *)
(* parentOwnerRef, populateFromRollout).                                   *)
(***************************************************************************)
BuiltIsAdmitted ==
  (pc = "create" /\ ~CutBehindDot) =>
    \A hash \in Hashes :
      hash \in {Last(r.at.name) : r \in resources} \/ Admitted(ResourceFor(sent, hash))

(***************************************************************************)
(* A TestRun asks for as many runners as are configured and is never       *)
(* paused, as long as the number fits spec.parallelism (buildTestRun).     *)
(***************************************************************************)
RunnersAsConfigured ==
  cfg.parallelism <= MaxParallelism =>
    \A r \in resources :
      ( r.at = mine /\ r.at.resource = "testruns" ) =>
        /\ r.parallelism > 0
        /\ cfg.parallelism > 0 => r.parallelism = cfg.parallelism

(***************************************************************************)
(* StopRun and Cleanup delete the resource the plugin created, if it is    *)
(* still there, and no other, although the call has nothing but the run id *)
(* and perhaps no parent; with a run id of the user's, they delete at most *)
(* the resource it names (encodeRunID, decodeRunID).                       *)
(***************************************************************************)
DeletesOwnResource ==
  [][ deleted' # deleted =>
        IF cfg.testRunID = <<>>
        THEN resources' = {r \in resources : r.at # mine}
        ELSE \A r \in resources \ resources' :
               cfg.testRunID = <<r.at.namespace, r.at.resource, r.at.name>> ]_ownVars

Parent == IF caller = "step" THEN "Rollout" ELSE "AnalysisRun"

(***************************************************************************)
(* The garbage collector takes a run from under the plugin only when the   *)
(* parent it was created for is gone: not while the Rollout or AnalysisRun *)
(* waits for it. That is so for a configuration that leaves the namespace  *)
(* to the parent or names its own; the owner reference of a resource in    *)
(* another namespace is dangling from the start (parentOwnerRef).          *)
(***************************************************************************)
CollectedOnlyWithParent ==
  [][ \A r \in resources :
        ( /\ CollectResource(r)
          /\ r.at \in owned
          /\ cfg.namespace \in {"", rollout.namespace} )
        => Parent \notin there ]_ownVars

-----------------------------------------------------------------------------
(* Liveness.                                                               *)

\* What the deletion of the Rollout, or of a standalone AnalysisRun, takes
\* with it.
ParentsGone ==
  "Rollout" \notin there /\ (ownership = "none" => "AnalysisRun" \notin there)

(***************************************************************************)
(* A resource created for a parent does not outlive it for ever: deleting  *)
(* the Rollout reaches the runs of its steps, and, through its             *)
(* AnalysisRuns, those of its metrics, the ones too whose run id was lost. *)
(***************************************************************************)
CascadeReachesResource ==
  \A hash \in Hashes :
    LET left == {r \in resources : r.at \in owned /\ Last(r.at.name) = hash}
    IN  (ParentsGone /\ left # {}) ~> (left = {})

=============================================================================
