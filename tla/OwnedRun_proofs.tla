--------------------------- MODULE OwnedRun_proofs ---------------------------
(***************************************************************************)
(* Proofs about the custom resources of the k6-operator backend and those  *)
(* they belong to, for all configurations, all metadata of a Rollout, all  *)
(* hashes, and whatever else is in the cluster.                            *)
(***************************************************************************)
EXTENDS OwnedRun, WellFoundedInduction, TLAPS

-----------------------------------------------------------------------------
(* What is built.                                                          *)

\* The parents are what they were at the start.
ParentsInv ==
  /\ caller \in {"step", "metric"}
  /\ cfg \in Configs
  /\ rollout \in Rollouts

\* The one owner that a resource created for the parent has.
OwnedBy(owners) ==
  \E name, uid : owners = {OwnerReference(Parent, name, uid)}

\* The namespace is left to the parent, or is its own.
WithParent == cfg.namespace \in {"", rollout.namespace}

LEMMA NamespaceOfRecord ==
  ASSUME NEW c \in Configs, NEW n
  PROVE  /\ WithNamespace(c, n) = [f \in ConfigFields |->
                IF f = "namespace" /\ c.namespace = "" THEN n ELSE c[f]]
         /\ WithNamespace(c, n).namespace = IF c.namespace = "" THEN n ELSE c.namespace
<1>1. c = [f \in ConfigFields |-> c[f]] /\ "namespace" \in ConfigFields
  BY ConfigsAssumption DEF ConfigFields, UserConfig
<1> QED BY <1>1 DEF WithNamespace

\* The parent that was passed gives the owner and, by default, the namespace.
LEMMA PopulatedOwner ==
  ASSUME ParentsInv,
         caller = "step" => rollout.name # <<>> /\ rollout.uid # ""
  PROVE  /\ OwnedBy(ParentOwnerRef(Populated(FALSE)))
         /\ WithParent => Populated(FALSE).namespace = rollout.namespace
<1> DEFINE c == WithNamespace(cfg, rollout.namespace)
<1>1. /\ c = [f \in ConfigFields |-> c[f]]
      /\ {"namespace", "rolloutName", "rolloutUID", "analysisRunName",
          "analysisRunUID"} \subseteq ConfigFields
      /\ c.namespace = IF cfg.namespace = "" THEN rollout.namespace ELSE cfg.namespace
      /\ c.analysisRunUID = ""
  <2> DEFINE n == rollout.namespace
             d == [f \in ConfigFields |->
                     IF f = "namespace" /\ cfg.namespace = "" THEN n ELSE cfg[f]]
  <2>1. c = d /\ c.namespace = IF cfg.namespace = "" THEN n ELSE cfg.namespace
    BY NamespaceOfRecord DEF ParentsInv
  <2>2. {"namespace", "rolloutName", "rolloutUID", "analysisRunName",
         "analysisRunUID"} \subseteq ConfigFields
    BY DEF ConfigFields, UserConfig
  <2>3. cfg.analysisRunUID = ""
    BY ConfigsAssumption DEF ParentsInv
  <2>4. d = [f \in ConfigFields |-> d[f]] /\ d.analysisRunUID = ""
    BY <2>2, <2>3
  <2> HIDE DEF c, d
  <2> QED BY <2>1, <2>2, <2>4
<1>2. CASE caller = "step"
  <2>1. Populated(FALSE) = [c EXCEPT !.rolloutName = rollout.name, !.rolloutUID = rollout.uid]
    BY <1>2 DEF Populated, PopulateFromRollout
  <2>2. /\ Populated(FALSE).namespace = c.namespace
        /\ Populated(FALSE).analysisRunUID = ""
        /\ Populated(FALSE).rolloutUID = rollout.uid
    <3> HIDE DEF c
    <3> QED BY <1>1, <2>1
  <2> QED BY <1>1, <1>2, <2>2 DEF ParentOwnerRef, OwnedBy, Parent, WithParent
<1>3. CASE caller = "metric"
  <2>1. Populated(FALSE) =
          [c EXCEPT !.analysisRunName = AnalysisRun.name, !.analysisRunUID = AnalysisRun.uid,
                    !.rolloutName = IF AnalysisRun.controller THEN AnalysisRun.owner
                                    ELSE cfg.rolloutName]
    BY <1>3 DEF Populated, PopulateFromAnalysisRun, AnalysisRun
  <2>2. /\ Populated(FALSE).namespace = c.namespace
        /\ Populated(FALSE).analysisRunUID = "analysis"
    <3>1. AnalysisRun.uid = "analysis"
      BY DEF AnalysisRun
    <3> HIDE DEF c
    <3> QED BY <1>1, <2>1, <3>1
  <2> QED BY <1>1, <1>3, <2>2 DEF ParentOwnerRef, OwnedBy, Parent, WithParent
<1> QED BY <1>2, <1>3 DEF ParentsInv

\* A resource has the owner and the namespace of its configuration.
LEMMA BuiltFrom ==
  ASSUME NEW c, NEW hash
  PROVE  /\ ResourceFor(c, hash).owners = ParentOwnerRef(c)
         /\ c.namespace # "" => ResourceFor(c, hash).at.namespace = c.namespace
BY DEF ResourceFor, BuildTestRun, BuildPrivateLoadZone, Address

\* and an address that its run id is decoded to.
LEMMA RunIDNamesResource ==
  ASSUME NEW c, NEW hash
  PROVE  LET at == ResourceFor(c, hash).at
         IN  DecodeRunID(EncodeRunID(at.namespace, at.resource, at.name)) = {at}
<1> DEFINE r == ResourceFor(c, hash)
<1>1. \E namespace, name : \E resource \in Resources :
         r.at = Address(namespace, resource, name)
  BY DEF ResourceFor, BuildTestRun, BuildPrivateLoadZone, Resources
<1> HIDE DEF r
<1>2. /\ r.at = Address(r.at.namespace, r.at.resource, r.at.name)
      /\ r.at.resource \in Resources
  BY <1>1 DEF Address
<1>3. DecodeRunID(EncodeRunID(r.at.namespace, r.at.resource, r.at.name)) = {r.at}
  BY <1>2 DEF DecodeRunID, EncodeRunID
<1> QED BY <1>3 DEF r

-----------------------------------------------------------------------------
(* The inductive invariant.                                                *)

\* TriggerRun creates what its arguments say, of which a call that is no
\* orphan had the parent.
SentInv ==
  pc = "create" =>
    /\ runID = <<>> /\ deleted = <<>> /\ cfg.testRunID = <<>>
    /\ ~orphan => /\ sent = Populated(FALSE)
                  /\ caller = "step" => rollout.name # <<>> /\ rollout.uid # ""

\* What was created for the parent is owned by it, and nothing else.
OwnedInv ==
  \A r \in resources : r.at \in owned =>
    /\ OwnedBy(r.owners)
    /\ WithParent => r.at.namespace = rollout.namespace

\* The run id is that of the resource created last, or the user's.
RunIDInv ==
  /\ runID # <<>> => IF cfg.testRunID = <<>> THEN DecodeRunID(runID) = {mine}
                     ELSE runID = cfg.testRunID
  /\ deleted # <<>> => deleted = runID
  /\ deleted # <<>> /\ cfg.testRunID = <<>> => \A r \in resources : r.at # mine

OInv == ParentsInv /\ SentInv /\ OwnedInv /\ RunIDInv

LEMMA InitOInv == OwnInit => OInv
BY DEF OwnInit, OInv, ParentsInv, SentInv, OwnedInv, RunIDInv

\* What the parts of the invariant say of the parents does not change.
LEMMA ParentsKept ==
  ASSUME UNCHANGED parents
  PROVE  /\ Populated(FALSE)' = Populated(FALSE)
         /\ WithParent' = WithParent
         /\ \A owners : OwnedBy(owners)' = OwnedBy(owners)
BY DEF parents, Populated, AnalysisRun, WithParent, OwnedBy, Parent

\* The resources may also become fewer.
LEMMA OwnedStays ==
  ASSUME OwnedInv, UNCHANGED <<parents, owned>>, resources' \subseteq resources
  PROVE  OwnedInv'
BY ParentsKept DEF OwnedInv, parents

LEMMA CreateKeeps ==
  ASSUME OInv, NEW hash \in Hashes, CreateResource(hash)
  PROVE  OInv'
<1> DEFINE r == ResourceFor(sent, hash)
<1>1. UNCHANGED <<parents, there, sent, orphan, deleted>> /\ pc = "create" /\ pc' = "idle"
  BY DEF CreateResource
<1>2. ParentsInv' /\ SentInv'
  BY <1>1 DEF OInv, ParentsInv, SentInv, parents
<1>3. CASE ~Admitted(r)
  <2>1. UNCHANGED <<resources, runID, mine, owned>>
    BY <1>3 DEF CreateResource
  <2> QED BY <1>1, <1>2, <2>1, OwnedStays DEF OInv, RunIDInv, parents
<1>4. CASE Admitted(r)
  <2> HIDE DEF r
  <2>1. /\ resources' = resources \cup {r}
        /\ runID' = EncodeRunID(r.at.namespace, r.at.resource, r.at.name)
        /\ mine' = r.at
        /\ owned' = IF orphan THEN owned \ {r.at} ELSE owned \cup {r.at}
        /\ \A o \in resources : o.at # r.at
    BY <1>4 DEF CreateResource, Admitted, r
  <2>2. cfg.testRunID = <<>> /\ deleted = <<>>
    BY <1>1 DEF OInv, SentInv
  <2>3. RunIDInv'
    <3>1. DecodeRunID(runID') = {mine'}
      BY <2>1, RunIDNamesResource DEF r
    <3> QED BY <1>1, <2>2, <3>1 DEF RunIDInv, parents
  <2>4. ASSUME ~orphan
        PROVE  OwnedBy(r.owners) /\ (WithParent => r.at.namespace = rollout.namespace)
    <3>1. /\ sent = Populated(FALSE)
          /\ caller = "step" => rollout.name # <<>> /\ rollout.uid # ""
      BY <1>1, <2>4 DEF OInv, SentInv
    <3>2. OwnedBy(r.owners)
      BY <3>1, PopulatedOwner, BuiltFrom DEF OInv, r
    <3>3. ASSUME WithParent PROVE r.at.namespace = rollout.namespace
      <4>1. sent.namespace = rollout.namespace /\ rollout.namespace # ""
        BY <3>1, <3>3, PopulatedOwner, RolloutsAssumption DEF OInv, ParentsInv
      <4> QED BY <4>1, BuiltFrom DEF r
    <3> QED BY <3>2, <3>3
  <2>5. OwnedInv'
    BY <1>1, <2>1, <2>4, ParentsKept DEF OInv, OwnedInv, parents
  <2> QED BY <1>2, <2>3, <2>5 DEF OInv
<1> QED BY <1>3, <1>4

LEMMA NextOInv == OInv /\ [OwnNext]_ownVars => OInv'
<1> SUFFICES ASSUME OInv, [OwnNext]_ownVars PROVE OInv'
  OBVIOUS
<1>1. CASE \E isNil \in BOOLEAN : TriggerRun(isNil)
  <2>1. PICK isNil \in BOOLEAN : TriggerRun(isNil)
    BY <1>1
  <2>2. /\ UNCHANGED <<parents, resources, runID, mine, owned, deleted>>
        /\ runID = <<>> /\ cfg.testRunID = <<>>
        /\ sent' = Populated(isNil)
        /\ ~orphan' => ~isNil /\ (caller = "step" => rollout.name # <<>> /\ rollout.uid # "")
    BY <2>1 DEF TriggerRun
  <2>3. deleted = <<>>
    BY <2>2 DEF OInv, RunIDInv
  <2>4. SentInv'
    BY <2>2, <2>3, ParentsKept DEF SentInv, parents
  <2> QED BY <2>2, <2>4, OwnedStays DEF OInv, ParentsInv, RunIDInv, parents
<1>2. CASE \E hash \in Hashes : CreateResource(hash)
  BY <1>2, CreateKeeps
<1>3. CASE AnswerLost
  <2>1. /\ UNCHANGED <<parents, resources, pc, sent, orphan, mine, owned>>
        /\ runID' = <<>> /\ deleted' = <<>>
    BY <1>3 DEF AnswerLost
  <2> QED BY <2>1, OwnedStays, ParentsKept DEF OInv, ParentsInv, SentInv, RunIDInv, parents
<1>4. CASE Attach
  <2>1. /\ UNCHANGED <<parents, resources, pc, sent, orphan, mine, owned, deleted>>
        /\ runID' = cfg.testRunID /\ cfg.testRunID # <<>>
    BY <1>4 DEF Attach
  <2> QED BY <2>1, OwnedStays, ParentsKept DEF OInv, ParentsInv, SentInv, RunIDInv, parents
<1>5. CASE DeleteRun
  <2>1. /\ UNCHANGED <<parents, pc, sent, orphan, runID, mine, owned>>
        /\ runID # <<>> /\ deleted' = runID
        /\ resources' = {r \in resources : r.at \notin DecodeRunID(runID)}
    BY <1>5 DEF DeleteRun
  <2>2. pc # "create"
    BY <2>1 DEF OInv, SentInv
  <2> QED BY <2>1, <2>2, OwnedStays DEF OInv, ParentsInv, SentInv, RunIDInv, parents
<1>6. CASE (\E p \in there : DeleteParent(p)) \/ CollectAnalysisRun \/ UNCHANGED ownVars
  <2>1. UNCHANGED <<parents, resources, pc, sent, orphan, runID, mine, owned, deleted>>
    BY <1>6 DEF DeleteParent, CollectAnalysisRun, ownVars
  <2> QED BY <2>1, OwnedStays, ParentsKept DEF OInv, ParentsInv, SentInv, RunIDInv, parents
<1>7. CASE \E r \in resources : CollectResource(r)
  <2>1. /\ UNCHANGED <<parents, pc, sent, orphan, runID, mine, owned, deleted>>
        /\ resources' \subseteq resources
    BY <1>7 DEF CollectResource
  <2> QED BY <2>1, OwnedStays, ParentsKept DEF OInv, ParentsInv, SentInv, RunIDInv, parents
<1> QED BY <1>1, <1>2, <1>3, <1>4, <1>5, <1>6, <1>7 DEF OwnNext

LEMMA OwnSpecOInv == OwnSpec => []OInv
BY InitOInv, NextOInv, PTL DEF OwnSpec

-----------------------------------------------------------------------------
(* The garbage collector and the deletes.                                  *)

(* A run is not collected from under the Rollout or the AnalysisRun it was *)
(* created for, when the configuration leaves the namespace to it.         *)
THEOREM ParentKeepsItsRun == OwnSpec => CollectedOnlyWithParent
<1> DEFINE Kept == \A r \in resources :
                     ( /\ CollectResource(r)
                       /\ r.at \in owned
                       /\ cfg.namespace \in {"", rollout.namespace} )
                     => Parent \notin there
<1>1. OInv /\ [OwnNext]_ownVars => [Kept]_ownVars
  <2> SUFFICES ASSUME OInv, NEW r \in resources, Dangling(r), r.at \in owned, WithParent
               PROVE  Parent \notin there
    BY DEF CollectResource, WithParent
  <2>1. r.at.namespace = rollout.namespace /\ OwnedBy(r.owners)
    BY DEF OInv, OwnedInv
  <2>2. PICK name, uid : r.owners = {OwnerReference(Parent, name, uid)}
    BY <2>1 DEF OwnedBy
  <2> QED BY <2>1, <2>2 DEF Dangling, OwnerReference
<1> QED BY <1>1, OwnSpecOInv, PTL DEF OwnSpec, CollectedOnlyWithParent

(* A run id leads StopRun and Cleanup to the resource the plugin created,  *)
(* or to the one that the user's run id names, and to no other.            *)
THEOREM RunIDLeadsHome == OwnSpec => DeletesOwnResource
<1> DEFINE Own == deleted' # deleted =>
                    IF cfg.testRunID = <<>>
                    THEN resources' = {r \in resources : r.at # mine}
                    ELSE \A r \in resources \ resources' :
                           cfg.testRunID = <<r.at.namespace, r.at.resource, r.at.name>>
<1>1. OInv /\ [OwnNext]_ownVars => [Own]_ownVars
  <2> SUFFICES ASSUME OInv, OwnNext, deleted' # deleted
               PROVE  IF cfg.testRunID = <<>>
                      THEN resources' = {r \in resources : r.at # mine}
                      ELSE \A r \in resources \ resources' :
                             cfg.testRunID = <<r.at.namespace, r.at.resource, r.at.name>>
    OBVIOUS
  <2>1. AnswerLost \/ DeleteRun
    BY DEF OwnNext, TriggerRun, CreateResource, Attach, DeleteParent, CollectAnalysisRun,
           CollectResource
  <2>2. CASE AnswerLost
    <3>1. resources' = resources /\ deleted # <<>> /\ cfg.testRunID = <<>>
      BY <2>2 DEF AnswerLost
    <3> QED BY <3>1 DEF OInv, RunIDInv
  <2>3. CASE DeleteRun
    <3>1. /\ runID # <<>>
          /\ resources' = {r \in resources : r.at \notin DecodeRunID(runID)}
      BY <2>3 DEF DeleteRun
    <3>2. CASE cfg.testRunID = <<>>
      BY <3>1, <3>2 DEF OInv, RunIDInv
    <3>3. CASE cfg.testRunID # <<>>
      <4> SUFFICES ASSUME NEW r \in resources, r.at \in DecodeRunID(cfg.testRunID)
                   PROVE  cfg.testRunID = <<r.at.namespace, r.at.resource, r.at.name>>
        BY <3>1, <3>3 DEF OInv, RunIDInv
      <4> DEFINE id == cfg.testRunID
      <4>1. id = [i \in 1 .. Len(id) |-> id[i]]
        BY ConfigsAssumption DEF OInv, ParentsInv
      <4>2. Len(id) = 3 /\ r.at = Address(id[1], id[2], id[3])
        BY DEF DecodeRunID
      <4> HIDE DEF id
      <4>3. id = <<id[1], id[2], id[3]>>
        BY <4>1, <4>2
      <4> QED BY <4>2, <4>3 DEF Address, id
    <3> QED BY <3>2, <3>3
  <2> QED BY <2>1, <2>2, <2>3
<1> QED BY <1>1, OwnSpecOInv, PTL DEF OwnSpec, DeletesOwnResource

(* No configuration that a plugin accepts is refused by its backend.       *)
THEOREM AcceptedAreServed == OwnSpec => []AcceptedIsServed
<1>1. AcceptedIsServed
  <2>1. Accepted => ValidForProvider(cfg)
    BY DEF Accepted, StepParses, MetricParses
  <2>2. /\ Resolve(cfg) = {"k6-operator"} => cfg.provider = "k6-operator"
        /\ Resolve(cfg) = {"grafana-cloud"} => IsGrafanaCloud(cfg)
    BY DEF Resolve, Registered, IsGrafanaCloud
  <2> QED BY <2>1, <2>2 DEF AcceptedIsServed, ValidForProvider, ValidateGrafanaCloud
<1> QED BY <1>1, PTL

-----------------------------------------------------------------------------
(* What the API server admits.                                             *)

\* Of any set of places in a sequence, there is a last one.
LEMMA LastOf ==
  ASSUME NEW n \in Nat, NEW S \in SUBSET (0 .. n), S # {}
  PROVE  \E k \in S : \A i \in S : i <= k
<1> DEFINE R == OpToRel(<, Nat)
           T == {n - k : k \in S}
<1>1. T \in SUBSET Nat /\ T # {}
  <2>1. \A k \in S : n - k \in Nat
    OBVIOUS
  <2> HIDE DEF R
  <2> QED BY <2>1
<1>2. PICK d \in T : \A e \in T : ~(<<e, d>> \in R)
  <2> HIDE DEF R, T
  <2>1. IsWellFoundedOn(R, Nat)
    BY NatLessThanWellFounded DEF R
  <2> QED BY <1>1, <2>1, WFMin
<1>3. \A e \in T : ~(e < d)
  BY <1>1, <1>2 DEF OpToRel
<1>4. PICK k \in S : d = n - k
  OBVIOUS
<1>5. \A i \in S : i <= k
  <2> SUFFICES ASSUME NEW i \in S PROVE i <= k
    OBVIOUS
  <2>1. n - i \in T
    OBVIOUS
  <2> HIDE DEF R, T
  <2>2. ~(n - i < n - k)
    BY <1>3, <1>4, <2>1
  <2> QED BY <2>2
<1> HIDE DEF R, T
<1> QED BY <1>5

Chars == {"x", "-", "."}

LEMMA CutIsPrefix ==
  ASSUME NEW s \in Seq(Chars), NEW n \in Nat \ {0}
  PROVE  /\ Cut(s, n) \in Seq(Chars)
         /\ Len(Cut(s, n)) = IF Len(s) > n THEN n ELSE Len(s)
         /\ \A i \in 1 .. Len(Cut(s, n)) : Cut(s, n)[i] = s[i]
BY DEF Cut

\* The label of a name ends with a letter or digit, or is empty.
LEMMA LabelIsValid ==
  ASSUME NEW s \in Seq(Chars), s # <<>> => s[1] = "x"
  PROVE  LET l == SanitizeLabelValue(s)
         IN  /\ l # <<>> => l[1] = "x" /\ l[Len(l)] = "x"
             /\ Len(l) <= MaxLabel
<1> DEFINE w == Cut(s, MaxLabel)
           S == {k \in 0 .. Len(w) : k > 0 => w[k] = "x"}
           IsEnd(k) == /\ k > 0 => w[k] = "x"
                       /\ \A i \in k + 1 .. Len(w) : w[i] # "x"
           n == CHOOSE k \in 0 .. Len(w) : IsEnd(k)
<1>1. /\ w \in Seq(Chars) /\ Len(w) \in Nat /\ Len(w) <= MaxLabel
      /\ \A i \in 1 .. Len(w) : w[i] = s[i]
  BY CutIsPrefix, LengthsAssumption
<1> HIDE DEF w
<1>2. \E k \in 0 .. Len(w) : IsEnd(k)
  <2>1. S \in SUBSET (0 .. Len(w)) /\ 0 \in S
    BY <1>1
  <2> HIDE DEF S
  <2>2. PICK k \in S : \A i \in S : i <= k
    BY <1>1, <2>1, LastOf
  <2>3. \A i \in k + 1 .. Len(w) : w[i] # "x"
    BY <1>1, <2>1, <2>2 DEF S
  <2> QED BY <2>1, <2>2, <2>3 DEF S
<1>3. n \in 0 .. Len(w) /\ IsEnd(n)
  BY <1>2
<1>4. SanitizeLabelValue(s) = SubSeq(w, 1, n)
  BY DEF SanitizeLabelValue, w
<1> HIDE DEF n
<1> DEFINE l == SubSeq(w, 1, n)
<1>5. Len(l) = n /\ \A i \in 1 .. n : l[i] = w[i]
  BY <1>1, <1>3
<1>6. l # <<>> => n > 0
  BY <1>1, <1>3
<1>7. n > 0 => s # <<>> /\ n \in 1 .. Len(w) /\ 1 \in 1 .. Len(w)
  BY <1>1, <1>3 DEF w, Cut
<1>8. n > 0 => l[1] = "x" /\ l[n] = "x"
  <2> SUFFICES ASSUME n > 0 PROVE l[1] = "x" /\ l[n] = "x"
    OBVIOUS
  <2>1. w[n] = "x" /\ n \in 1 .. n /\ 1 \in 1 .. n
    BY <1>3
  <2>2. w[1] = "x"
    BY <1>1, <1>7
  <2> QED BY <1>5, <2>1, <2>2
<1>9. Len(l) <= MaxLabel
  BY <1>1, <1>3, <1>5, LengthsAssumption
<1> HIDE DEF l
<1> QED BY <1>4, <1>5, <1>6, <1>8, <1>9 DEF l

\* A name that is not cut behind a dot stays valid with a hash.
LEMMA NameIsValid ==
  ASSUME NEW s \in Seq(Chars), NEW hash, ValidName(s),
         ~(Len(s) > MaxRollout /\ s[MaxRollout] = ".")
  PROVE  LET name == TestRunName(s, hash)
         IN  /\ ValidName([name EXCEPT ![Len(name)] = "-"])
             /\ Len(name) <= MaxRollout + 1
             /\ Last(name) = hash
<1> DEFINE p == Cut(s, MaxRollout)
           n == Len(p)
           name == Append(p, hash)
           t == [name EXCEPT ![Len(name)] = "-"]
<1>1. /\ p \in Seq(Chars) /\ n = (IF Len(s) > MaxRollout THEN MaxRollout ELSE Len(s))
      /\ n \in Nat /\ n > 0 /\ n <= MaxRollout /\ n <= Len(s) /\ Len(s) \in Nat
      /\ \A i \in 1 .. n : p[i] = s[i]
  BY CutIsPrefix, LengthsAssumption DEF ValidName
<1> HIDE DEF p
<1>2. /\ Len(name) = n + 1 /\ DOMAIN name = 1 .. n + 1 /\ name[n + 1] = hash
      /\ \A i \in 1 .. n : name[i] = p[i]
      /\ name \in Seq(Chars \cup {hash})
  <2>1. p \in Seq(Chars \cup {hash})
    BY <1>1
  <2> QED BY <1>1, <2>1
<1>3. TestRunName(s, hash) = name
  BY DEF TestRunName, p
<1>4. Last(name) = hash
  BY <1>2 DEF Last
<1> HIDE DEF name
<1>5. /\ t \in Seq(Chars \cup {hash}) /\ Len(t) = n + 1 /\ DOMAIN t = 1 .. n + 1
      /\ t[n + 1] = "-"
      /\ \A i \in 1 .. n : t[i] = s[i]
  <2>1. t = [name EXCEPT ![n + 1] = "-"]
    BY <1>2
  <2> HIDE DEF t, n
  <2>2. "-" \in Chars \cup {hash} /\ n + 1 \in 1 .. n + 1 /\ \A i \in 1 .. n : i \in 1 .. n + 1 /\ i # n + 1
    BY <1>1 DEF Chars
  <2>3. t \in Seq(Chars \cup {hash}) /\ Len(t) = n + 1 /\ DOMAIN t = 1 .. n + 1
    BY <1>1, <1>2, <2>1, <2>2
  <2> QED BY <1>1, <1>2, <2>1, <2>2, <2>3
<1> HIDE DEF t, n
<1>6. ValidName(t)
  <2>1. t # <<>> /\ t[1] = "x"
    BY <1>1, <1>5 DEF ValidName
  <2>2. ASSUME NEW i \in 1 .. n + 1, t[i] = "."
        PROVE  i > 1 /\ t[i - 1] = "x" /\ i < n + 1 /\ t[i + 1] = "x"
    <3>1. i \in 1 .. n /\ s[i] = "." /\ i \in DOMAIN s
      BY <1>1, <1>5, <2>2
    <3>2. i > 1 /\ s[i - 1] = "x" /\ i < Len(s) /\ s[i + 1] = "x"
      BY <3>1 DEF ValidName
    <3>3. i # n
      BY <1>1, <3>1, <3>2
    <3>4. i - 1 \in 1 .. n /\ i + 1 \in 1 .. n /\ i < n + 1
      BY <1>1, <3>1, <3>2, <3>3
    <3>5. t[i - 1] = s[i - 1] /\ t[i + 1] = s[i + 1]
      BY <1>5, <3>4
    <3> QED BY <3>2, <3>4, <3>5
  <2>3. \A i \in DOMAIN t : t[i] = "." => /\ i > 1 /\ t[i - 1] = "x"
                                          /\ i < Len(t) /\ t[i + 1] = "x"
    BY <1>5, <2>2
  <2> QED BY <2>1, <2>3 DEF ValidName
<1>7. Len(name) <= MaxRollout + 1
  BY <1>1, <1>2, LengthsAssumption
<1> QED BY <1>3, <1>4, <1>6, <1>7 DEF t

(***************************************************************************)
(* What TriggerRun was called with names the Rollout or none, and an owner *)
(* that it has is named.                                                   *)
(***************************************************************************)
Named(c) ==
  /\ c.rolloutName \in {<<>>, rollout.name}
  /\ \A o \in ParentOwnerRef(c) : o.name # <<>>

NameInv == ParentsInv /\ (pc = "create" => Named(sent))

LEMMA PopulatedIsNamed ==
  ASSUME ParentsInv, NEW isNil \in BOOLEAN
  PROVE  Named(Populated(isNil))
<1>1. /\ cfg = [f \in ConfigFields |-> cfg[f]]
      /\ cfg.rolloutUID = "" /\ cfg.analysisRunUID = "" /\ cfg.rolloutName = <<>>
  BY ConfigsAssumption DEF ParentsInv
<1>2. {"namespace", "rolloutName", "rolloutUID", "analysisRunName",
       "analysisRunUID"} \subseteq ConfigFields
  BY DEF ConfigFields, UserConfig
<1>3. Named(cfg)
  BY <1>1 DEF Named, ParentOwnerRef
<1> DEFINE c == WithNamespace(cfg, rollout.namespace)
<1>4. /\ c = [f \in ConfigFields |-> c[f]]
      /\ c.rolloutUID = "" /\ c.analysisRunUID = "" /\ c.rolloutName = <<>>
  <2>1. CASE cfg.namespace = ""
    <3>1. c = [f \in ConfigFields |-> IF f = "namespace" THEN rollout.namespace ELSE cfg[f]]
      BY <1>1, <2>1 DEF WithNamespace
    <3> HIDE DEF c
    <3> QED BY <1>1, <1>2, <3>1
  <2>2. CASE cfg.namespace # ""
    BY <1>1, <2>2 DEF WithNamespace
  <2> QED BY <2>1, <2>2
<1>5. CASE caller = "step" /\ ~isNil /\ ~(rollout.uid # "" /\ rollout.name = <<>>)
  <2>1. Populated(isNil) = [c EXCEPT !.rolloutName = rollout.name, !.rolloutUID = rollout.uid]
    BY <1>5 DEF Populated, PopulateFromRollout
  <2> HIDE DEF c
  <2>2. /\ Populated(isNil).rolloutName = rollout.name
        /\ Populated(isNil).rolloutUID = rollout.uid
        /\ Populated(isNil).analysisRunUID = ""
    <3>1. DOMAIN c = ConfigFields
      BY <1>4
    <3>2. Populated(isNil) =
            [f \in ConfigFields |-> IF f = "rolloutName" THEN rollout.name
                                   ELSE IF f = "rolloutUID" THEN rollout.uid ELSE c[f]]
      BY <2>1, <3>1
    <3> QED BY <1>2, <1>4, <3>2
  <2>3. \A o \in ParentOwnerRef(Populated(isNil)) : o.name = rollout.name /\ rollout.uid # ""
    <3>1. CASE rollout.uid = ""
      <4>1. ParentOwnerRef(Populated(isNil)) = {}
        BY <2>2, <3>1 DEF ParentOwnerRef
      <4> QED BY <4>1
    <3>2. CASE rollout.uid # ""
      <4>1. ParentOwnerRef(Populated(isNil)) =
              {OwnerReference("Rollout", rollout.name, rollout.uid)}
        BY <2>2, <3>2 DEF ParentOwnerRef
      <4>2. OwnerReference("Rollout", rollout.name, rollout.uid).name = rollout.name
        BY DEF OwnerReference
      <4> QED BY <3>2, <4>1, <4>2
    <3> QED BY <3>1, <3>2
  <2> QED BY <1>5, <2>2, <2>3 DEF Named
<1>6. CASE caller = "step" /\ ~isNil /\ rollout.uid # "" /\ rollout.name = <<>>
  <2>1. Populated(isNil) = c
    BY <1>6 DEF Populated, PopulateFromRollout
  <2> HIDE DEF c
  <2> QED BY <1>4, <2>1 DEF Named, ParentOwnerRef
<1>7. CASE caller = "metric" /\ ~isNil
  <2>1. Populated(isNil) =
          [c EXCEPT !.analysisRunName = AnalysisRun.name, !.analysisRunUID = AnalysisRun.uid,
                    !.rolloutName = IF AnalysisRun.controller THEN AnalysisRun.owner
                                    ELSE cfg.rolloutName]
    BY <1>7 DEF Populated, PopulateFromAnalysisRun, AnalysisRun
  <2> HIDE DEF c
  <2>2. AnalysisRun.name = <<"x">> /\ AnalysisRun.uid = "analysis" /\ AnalysisRun.owner = rollout.name
    BY DEF AnalysisRun
  <2>3. /\ Populated(isNil).rolloutName \in {<<>>, rollout.name}
        /\ Populated(isNil).analysisRunUID = "analysis"
        /\ Populated(isNil).analysisRunName = <<"x">>
    BY <1>1, <1>2, <1>4, <2>1, <2>2
  <2>4. ParentOwnerRef(Populated(isNil)) = {OwnerReference("AnalysisRun", <<"x">>, "analysis")}
    BY <2>3 DEF ParentOwnerRef
  <2> QED BY <2>3, <2>4 DEF Named, OwnerReference
<1>8. CASE isNil
  BY <1>3, <1>8 DEF Populated, PopulateFromRollout, PopulateFromAnalysisRun
<1> QED BY <1>5, <1>6, <1>7, <1>8 DEF ParentsInv

LEMMA OwnSpecNameInv == OwnSpec => []NameInv
<1>1. OwnInit => NameInv
  BY DEF OwnInit, NameInv, ParentsInv
<1>2. NameInv /\ [OwnNext]_ownVars => NameInv'
  <2> SUFFICES ASSUME NameInv, [OwnNext]_ownVars PROVE NameInv'
    OBVIOUS
  <2>1. UNCHANGED parents
    BY DEF OwnNext, ownVars, TriggerRun, CreateResource, AnswerLost, Attach, DeleteRun,
           DeleteParent, CollectAnalysisRun, CollectResource
  <2>2. CASE \E isNil \in BOOLEAN : TriggerRun(isNil)
    BY <2>1, <2>2, PopulatedIsNamed DEF NameInv, TriggerRun, ParentsInv, parents, Named
  <2>3. CASE ~\E isNil \in BOOLEAN : TriggerRun(isNil)
    <3>1. pc' = "create" => pc = "create" /\ sent' = sent
      BY <2>3 DEF OwnNext, ownVars, CreateResource, AnswerLost, Attach, DeleteRun,
                  DeleteParent, CollectAnalysisRun, CollectResource
    <3> QED BY <2>1, <3>1 DEF NameInv, ParentsInv, parents, Named
  <2> QED BY <2>2, <2>3
<1> QED BY <1>1, <1>2, PTL DEF OwnSpec

(* What TriggerRun is about to create is admitted, for every length of a   *)
(* label and of a name, unless the name is cut behind a dot or its hash    *)
(* was given to another resource.                                          *)
THEOREM BuiltAreAdmitted == OwnSpec => []BuiltIsAdmitted
<1>1. NameInv => BuiltIsAdmitted
  <2> SUFFICES ASSUME NameInv, pc = "create", ~CutBehindDot, NEW hash \in Hashes,
                      \A o \in resources : Last(o.at.name) # hash
               PROVE  Admitted(ResourceFor(sent, hash))
    BY DEF BuiltIsAdmitted
  <2> DEFINE r == ResourceFor(sent, hash)
             given == sent.rolloutName
             used == IF given = <<>> THEN <<"x", "x">> ELSE given
  <2>1. /\ r.at.name = TestRunName(used, hash)
        /\ r.label = SanitizeLabelValue(given)
        /\ r.owners = ParentOwnerRef(sent)
    BY DEF ResourceFor, BuildTestRun, BuildPrivateLoadZone, Address
  <2>2. Named(sent)
    BY DEF NameInv
  <2>3. given \in Seq(Chars) /\ (given # <<>> => given = rollout.name /\ ValidName(given))
    <3>1. given = <<>> \/ given = rollout.name
      BY <2>2 DEF Named
    <3>2. rollout.name # <<>> => rollout.name \in Seq(Chars) /\ ValidName(rollout.name)
      BY RolloutsAssumption DEF NameInv, ParentsInv, Chars
    <3> HIDE DEF given
    <3>3. <<>> \in Seq(Chars)
      OBVIOUS
    <3>4. CASE given = <<>>
      BY <3>3, <3>4
    <3>5. CASE given # <<>>
      BY <3>1, <3>2, <3>5
    <3> QED BY <3>4, <3>5
  <2> HIDE DEF r
  <2>4. r.label # <<>> => r.label[1] = "x" /\ r.label[Len(r.label)] = "x"
    BY <2>1, <2>3, LabelIsValid DEF ValidName
  <2>5. Len(r.label) <= MaxLabel
    BY <2>1, <2>3, LabelIsValid DEF ValidName
  <2>6. used \in Seq(Chars) /\ ValidName(used) /\ ~(Len(used) > MaxRollout /\ used[MaxRollout] = ".")
    <3>1. CASE given = <<>>
      <4>1. used = <<"x", "x">> /\ used \in Seq(Chars) /\ Len(used) = 2
        BY <3>1 DEF Chars
      <4>2. \A i \in 1 .. 2 : used[i] = "x"
        BY <4>1
      <4>3. ValidName(used)
        BY <4>1, <4>2 DEF ValidName
      <4> QED BY <4>1, <4>2, <4>3, LengthsAssumption
    <3>2. CASE given # <<>>
      BY <2>3, <3>2 DEF CutBehindDot
    <3> QED BY <3>1, <3>2
  <2> HIDE DEF used, given
  <2>7. /\ ValidName([r.at.name EXCEPT ![Len(r.at.name)] = "-"])
        /\ Len(r.at.name) <= MaxRollout + 1
        /\ Last(r.at.name) = hash
    BY <2>1, <2>6, NameIsValid
  <2>8. r.at \notin {o.at : o \in resources}
    BY <2>7
  <2>9. \A o \in r.owners : o.name # <<>>
    BY <2>1, <2>2 DEF Named
  <2> QED BY <2>4, <2>5, <2>7, <2>8, <2>9 DEF Admitted, r
<1> QED BY <1>1, OwnSpecNameInv, PTL

-----------------------------------------------------------------------------
(* The number of runners.                                                  *)

\* int32() does not change a number that fits.
LEMMA NarrowKeeps ==
  ASSUME NEW n \in 0 .. MaxParallelism
  PROVE  Narrow(n) = n
<1> DEFINE half == MaxParallelism + 1
<1>1. half \in Nat /\ n + half \in 0 .. 2 * half - 1
  BY ParallelismAssumption
<1>2. (n + half) % (2 * half) = n + half
  <2> HIDE DEF half
  <2>1. \A a, b \in Nat : a < b => a % b = a
    OBVIOUS
  <2> QED BY <1>1, <2>1
<1> QED BY <1>1, <1>2 DEF Narrow

\* What a call is passed does not change the number.
LEMMA PopulatedParallelism ==
  ASSUME ParentsInv, NEW isNil \in BOOLEAN
  PROVE  Populated(isNil).parallelism = cfg.parallelism
<1> DEFINE c == WithNamespace(cfg, rollout.namespace)
<1>1. cfg = [f \in ConfigFields |-> cfg[f]] /\ "parallelism" \in ConfigFields
  BY ConfigsAssumption DEF ParentsInv, ConfigFields, UserConfig
<1>2. c = [f \in ConfigFields |-> c[f]] /\ c.parallelism = cfg.parallelism
  <2>1. c = [f \in ConfigFields |-> IF f = "namespace" /\ cfg.namespace = ""
                                    THEN rollout.namespace ELSE cfg[f]]
    BY NamespaceOfRecord DEF ParentsInv
  <2> HIDE DEF c
  <2> QED BY <1>1, <2>1
<1>3. \/ Populated(isNil) = cfg \/ Populated(isNil) = c
      \/ \E n, uid : Populated(isNil) = [c EXCEPT !.rolloutName = n, !.rolloutUID = uid]
      \/ \E a, uid, n : Populated(isNil) =
           [c EXCEPT !.analysisRunName = a, !.analysisRunUID = uid, !.rolloutName = n]
  BY DEF Populated, PopulateFromRollout, PopulateFromAnalysisRun, AnalysisRun
<1> HIDE DEF c
<1> QED BY <1>1, <1>2, <1>3

\* The TestRun created last has the number that fits the field.
RunnersInv ==
  /\ ParentsInv
  /\ pc = "create" => sent.parallelism = cfg.parallelism /\ cfg.parallelism >= 0
  /\ \A r \in resources : r.at = mine /\ r.at.resource = "testruns" =>
       /\ cfg.parallelism >= 0
       /\ r.parallelism = IF cfg.parallelism = 0 THEN 1 ELSE Narrow(cfg.parallelism)

LEMMA OwnSpecRunnersInv == OwnSpec => []RunnersInv
<1>1. OwnInit => RunnersInv
  BY StrangersAssumption DEF OwnInit, RunnersInv, ParentsInv
<1>2. RunnersInv /\ [OwnNext]_ownVars => RunnersInv'
  <2> SUFFICES ASSUME RunnersInv, [OwnNext]_ownVars PROVE RunnersInv'
    OBVIOUS
  <2>1. UNCHANGED parents
    BY DEF OwnNext, ownVars, TriggerRun, CreateResource, AnswerLost, Attach, DeleteRun,
           DeleteParent, CollectAnalysisRun, CollectResource
  <2>2. ParentsInv'
    BY <2>1 DEF RunnersInv, ParentsInv, parents
  <2>3. ASSUME NEW isNil \in BOOLEAN, TriggerRun(isNil) PROVE RunnersInv'
    <3>1. sent' = Populated(isNil) /\ Populated(isNil).parallelism >= 0
      BY <2>3 DEF TriggerRun, ValidateK6Operator
    <3>2. Populated(isNil).parallelism = cfg.parallelism
      BY PopulatedParallelism DEF RunnersInv
    <3> QED BY <2>1, <2>2, <2>3, <3>1, <3>2 DEF RunnersInv, TriggerRun, parents
  <2>4. ASSUME NEW hash \in Hashes, CreateResource(hash) PROVE RunnersInv'
    <3> DEFINE r == ResourceFor(sent, hash)
    <3>1. CASE Admitted(r)
      <4>1. resources' = resources \cup {r} /\ mine' = r.at /\ pc' = "idle" /\ cfg' = cfg
        BY <2>4, <3>1 DEF CreateResource, parents
      <4>2. \A o \in resources : o.at # r.at
        BY <3>1 DEF Admitted
      <4>3. sent.parallelism = cfg.parallelism /\ cfg.parallelism >= 0
        BY <2>4 DEF CreateResource, RunnersInv
      <4>4. r.at.resource = "testruns" =>
              r.parallelism = IF cfg.parallelism = 0 THEN 1 ELSE Narrow(cfg.parallelism)
        BY <4>3 DEF ResourceFor, BuildTestRun, BuildPrivateLoadZone, Address
      <4> HIDE DEF r
      <4> QED BY <2>2, <4>1, <4>2, <4>3, <4>4 DEF RunnersInv
    <3>2. CASE ~Admitted(r)
      BY <2>1, <2>2, <2>4, <3>2 DEF CreateResource, RunnersInv, parents
    <3> QED BY <3>1, <3>2
  <2>5. CASE UNCHANGED ownVars \/ AnswerLost \/ Attach \/ DeleteRun
             \/ (\E p \in there : DeleteParent(p)) \/ CollectAnalysisRun
             \/ (\E r \in resources : CollectResource(r))
    <3>1. resources' \subseteq resources /\ mine' = mine /\ pc' = pc /\ sent' = sent /\ cfg' = cfg
      BY <2>1, <2>5 DEF ownVars, parents, AnswerLost, Attach, DeleteRun, DeleteParent,
                       CollectAnalysisRun, CollectResource
    <3> QED BY <2>2, <3>1 DEF RunnersInv
  <2> QED BY <2>3, <2>4, <2>5 DEF OwnNext
<1> QED BY <1>1, <1>2, PTL DEF OwnSpec

(* A TestRun has as many runners as are configured, and is never created   *)
(* paused: buildTestRun narrows the number, which changes none that fits.  *)
THEOREM RunnersAreThere == OwnSpec => []RunnersAsConfigured
<1>1. RunnersInv => RunnersAsConfigured
  <2> SUFFICES ASSUME RunnersInv, cfg.parallelism <= MaxParallelism,
                      NEW r \in resources, r.at = mine, r.at.resource = "testruns"
               PROVE  r.parallelism > 0 /\ (cfg.parallelism > 0 => r.parallelism = cfg.parallelism)
    BY DEF RunnersAsConfigured
  <2>1. cfg.parallelism \in Int
    BY ConfigsAssumption DEF RunnersInv, ParentsInv
  <2>2. cfg.parallelism \in 0 .. MaxParallelism
    BY <2>1, ParallelismAssumption DEF RunnersInv
  <2> QED BY <2>2, NarrowKeeps DEF RunnersInv
<1> QED BY <1>1, OwnSpecRunnersInv, PTL

=============================================================================
