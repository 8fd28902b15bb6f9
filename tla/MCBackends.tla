------------------------------ MODULE MCBackends ------------------------------
(***************************************************************************)
(* Small instances, side by side, of the three parts of the backends that  *)
(* share no state: Summary, OwnedRun and CloudRun. Every behaviour is one  *)
(* of one part; the other two stay in one of their initial states.         *)
(***************************************************************************)
EXTENDS Summary, OwnedRun, CloudRun

\* A pod with requests that failed and a med, one with a p(50), one without
\* requests.
MCSummary(count, rate, failed, med, p50, p95) ==
  [ count |-> count, rate |-> rate, failed |-> failed, med |-> med, p50 |-> p50, p95 |-> p95,
    inStrings |-> [k \in SummaryKinds |-> 0] ]
MCFailing == MCSummary(30, 3, 50, 8, NoKey, 20)

\* Names with a brace left open or closed in some of the lines.
MCBraces(ks, n) ==
  [MCFailing EXCEPT !.inStrings = [k \in SummaryKinds |-> IF k \in ks THEN n ELSE 0]]

MCSummaries == { MCFailing, MCSummary(10, 1, 0, NoKey, 4, 9),
                 MCSummary(0, 0, NoKey, NoKey, NoKey, NoKey) }
               \cup { MCBraces(SummaryKinds, 1), MCBraces(SummaryKinds, -1),
                      MCBraces({"metrics"}, -1) }

\* The namespace of the Rollout is "prod".
MCOperator    == UserConfig("k6-operator", "complete", "", 3, <<>>)
MCCredentials == [MCOperator EXCEPT !.apiToken = "token", !.stackID = "1"]
MCCloud       == [MCCredentials EXCEPT !.provider = "", !.testID = "2"]

MCStrangersName == <<"x", "h1">>
MCStrangers == { [ at |-> Address("other", "testruns", MCStrangersName),
                   label |-> <<>>, owners |-> {}, parallelism |-> 1 ] }

\* Namespaces, parallelisms, credentials; run ids of the user's, of which one
\* names the resource of a stranger; and what one of the plugins refuses.
MCConfigs ==
  { MCOperator, MCCredentials, MCCloud,
    [MCOperator EXCEPT !.namespace = "prod", !.parallelism = 0],
    [MCOperator EXCEPT !.namespace = "other", !.parallelism = 1],
    [MCOperator EXCEPT !.parallelism = 9],
    [MCOperator EXCEPT !.testRunID = <<"12345">>],
    [MCOperator EXCEPT !.testRunID = <<"other", "testruns", MCStrangersName>>],
    [MCOperator EXCEPT !.testRunID = <<"other", "testruns", MCStrangersName, "x">>],
    [MCOperator EXCEPT !.testRunID = <<"other", "jobs", MCStrangersName>>],
    [MCOperator EXCEPT !.parallelism = -1],
    [MCOperator EXCEPT !.configMapRef = "noKey"],
    [MCOperator EXCEPT !.timeout = [given |-> "yes", ms |-> MaxTimeout + 1]],
    [MCOperator EXCEPT !.metric = ""],
    [MCOperator EXCEPT !.provider = "K6-Operator"],
    [MCCloud EXCEPT !.stackID = ""],
    [MCCloud EXCEPT !.testID = ""] }

\* Names that are cut for the label, behind a "-", and for the resource, also
\* behind a "."; and metadata without a name or a UID.
MCRollout(name, uid) == [name |-> name, uid |-> uid, namespace |-> "prod"]
MCRollouts ==
  { MCRollout(<<"x">>, "u"),
    MCRollout(<<"x", "-", "x">>, "u"),
    MCRollout(<<"x", "x", "x", "-", "x">>, "u"),
    MCRollout(<<"x", "x", "x", ".", "x">>, "u"),
    MCRollout(<<>>, "u"),
    MCRollout(<<"x">>, "") }

MCAllCloudFaults == AllCloudFaults

-----------------------------------------------------------------------------

VARIABLE part  \* the part that is not idle: "log", "owned" or "cloud"

mcVars == <<part, logVars, ownVars, cloudVars>>

LogIdle   == LogInit /\ written = CHOOSE s \in Summaries : TRUE
OwnIdle   == OwnInit /\ caller = "step" /\ cfg = MCOperator /\ rollout = MCRollout(<<"x">>, "u")
CloudIdle == CloudInit /\ testID = 1 /\ stackID = 1

MCInit ==
  \/ part = "log"   /\ LogInit /\ OwnIdle /\ CloudIdle
  \/ part = "owned" /\ LogIdle /\ OwnInit /\ CloudIdle
  \/ part = "cloud" /\ LogIdle /\ OwnIdle /\ CloudInit

MCNext ==
  \/ part = "log"   /\ LogNext   /\ UNCHANGED <<part, ownVars, cloudVars>>
  \/ part = "owned" /\ OwnNext   /\ UNCHANGED <<part, logVars, cloudVars>>
  \/ part = "cloud" /\ CloudNext /\ UNCHANGED <<part, logVars, ownVars>>

MCSpec == MCInit /\ [][MCNext]_mcVars /\ OwnFairness

=============================================================================
