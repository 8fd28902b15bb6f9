------------------------------- MODULE TestRun -------------------------------
(***************************************************************************)
(* The custom resources of the k6-operator backend                         *)
(* (internal/provider/operator/testrun.go): how a TestRun or a             *)
(* PrivateLoadZone is named, labelled, owned and built from a              *)
(* configuration, and how a run id tells which one it is.                  *)
(*                                                                         *)
(* Lengths and the range of an integer are constants. A character is "x"   *)
(* for a letter or a digit, "-" or "."; the hash in a name is one more     *)
(* element of it.                                                          *)
(***************************************************************************)
EXTENDS Config

CONSTANTS
  MaxLabel,       \* the length of a label value: 63
  MaxRollout,     \* maxRolloutLen: 253 - 12
  MaxParallelism  \* the largest spec.parallelism, an int32: 2^31 - 1

ASSUME LengthsAssumption == MaxLabel \in Nat \ {0} /\ MaxRollout \in Nat \ {0}
ASSUME ParallelismAssumption == MaxParallelism \in Nat \ {0}

Cut(s, n) == IF Len(s) > n THEN SubSeq(s, 1, n) ELSE s

\* Up to the last letter or digit of what is left of v.
SanitizeLabelValue(v) ==
  LET w == Cut(v, MaxLabel)
      n == CHOOSE k \in 0 .. Len(w) :
             /\ k > 0 => w[k] = "x"
             /\ \A i \in k + 1 .. Len(w) : w[i] # "x"
  IN  SubSeq(w, 1, n)

\* The hash is never cut off, nor is what the cut leaves at the end trimmed.
TestRunName(rolloutName, hash) == Append(Cut(rolloutName, MaxRollout), hash)

OwnerReference(kind, name, uid) == [kind |-> kind, name |-> name, uid |-> uid]

\* The Rollout whenever there is one.
BugParentOwnerRef(c) ==
  IF c.rolloutUID # "" THEN {OwnerReference("Rollout", c.rolloutName, c.rolloutUID)}
  ELSE {}

\* At most one, of the closest parent.
ParentOwnerRef(c) ==
  CASE c.analysisRunUID # "" ->
         {OwnerReference("AnalysisRun", c.analysisRunName, c.analysisRunUID)}
    [] c.analysisRunUID = "" /\ c.rolloutUID # "" ->
         {OwnerReference("Rollout", c.rolloutName, c.rolloutUID)}
    [] OTHER -> {}

-----------------------------------------------------------------------------
(* Run ids.                                                                *)

Resources == {"testruns", "privateloadzones"}

\* Takes every run for a TestRun.
BugEncodeRunID(namespace, resource, name) == <<namespace, "testruns", name>>

EncodeRunID(namespace, resource, name) == <<namespace, resource, name>>

Address(namespace, resource, name) ==
  [namespace |-> namespace, resource |-> resource, name |-> name]

\* The resource that is meant, of which gvrForResource knows the kind; {} for
\* an error.
DecodeRunID(runID) ==
  IF Len(runID) = 3 /\ runID[2] \in Resources
  THEN {Address(runID[1], runID[2], runID[3])} ELSE {}

-----------------------------------------------------------------------------
(* The resources.                                                          *)

\* int32(n): wraps around behind MaxParallelism.
Narrow(n) ==
  LET half == MaxParallelism + 1
  IN  ((n + half) % (2 * half)) - half

\* Passes the parallelism on as it is.
BugBuildTestRun(c, namespace, name) ==
  [ at |-> Address(namespace, "testruns", name),
    label |-> SanitizeLabelValue(c.rolloutName),
    owners |-> ParentOwnerRef(c),
    parallelism |-> Narrow(c.parallelism) ]

\* 0, which is "paused" to the k6-operator, becomes 1.
BuildTestRun(c, namespace, name) ==
  [ at |-> Address(namespace, "testruns", name),
    label |-> SanitizeLabelValue(c.rolloutName),
    owners |-> ParentOwnerRef(c),
    parallelism |-> IF c.parallelism = 0 THEN 1 ELSE Narrow(c.parallelism) ]

\* It has a token in place of a parallelism.
BuildPrivateLoadZone(c, namespace, name) ==
  [ at |-> Address(namespace, "privateloadzones", name),
    label |-> SanitizeLabelValue(c.rolloutName),
    owners |-> ParentOwnerRef(c),
    token |-> c.apiToken ]

IsCloudConnected(c) == c.apiToken # "" /\ c.stackID # ""

\* What TriggerRun creates.
ResourceFor(c, hash) ==
  LET namespace   == IF c.namespace = "" THEN "default" ELSE c.namespace
      rolloutName == IF c.rolloutName = <<>> THEN <<"x", "x">>   \* "unknown"
                     ELSE c.rolloutName
      name        == TestRunName(rolloutName, hash)
  IN  IF IsCloudConnected(c) THEN BuildPrivateLoadZone(c, namespace, name)
      ELSE BuildTestRun(c, namespace, name)

=============================================================================
