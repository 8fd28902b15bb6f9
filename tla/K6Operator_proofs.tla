-------------------------- MODULE K6Operator_proofs --------------------------
(***************************************************************************)
(* Proofs about the k6-operator backend, for every parallelism, all exit   *)
(* codes and every set of faults.                                          *)
(***************************************************************************)
EXTENDS K6Operator, WellFoundedInduction, TLAPS

USE DEF Running, Passed, Failed, Errored

(***************************************************************************)
(* The inductive invariant. A verdict s is settled when all containers     *)
(* that are there give one, and s is what they say, or what one that is    *)
(* gone said: their codes do not change any more. A verdict is only found  *)
(* once the stage is "finished".                                           *)
(***************************************************************************)
IsVerdict(s) == s \in {Passed, Failed}

Settled(s) ==
  /\ \A p \in there : IsVerdict(StateOf(pods[p]))
  /\ s = Passed => \A p \in there : StateOf(pods[p]) = Passed
  /\ s = Failed => \E p \in Runners : StateOf(pods[p]) = Failed

VerdictInv ==
  /\ stage # "finished" => ~IsVerdict(answer) /\ pc \notin {"list", "logs"}
  /\ pc = "logs" => IsVerdict(verdict) /\ Settled(verdict)
  /\ pc # "logs" => verdict = "none"
  /\ IsVerdict(answer) => Settled(answer)
  /\ cr = "none" => stage = "" /\ there = Runners

MetricsInv ==
  metrics # {} =>
    /\ IsVerdict(answer)
    /\ \A p \in metrics : /\ IsVerdict(StateOf(pods[p]))
                          /\ answer = Passed => StateOf(pods[p]) = Passed

IInv == TypeOK /\ VerdictInv /\ MetricsInv

-----------------------------------------------------------------------------
(* The containers.                                                         *)

LEMMA RunnersAreNumbers == Runners \subseteq Nat \ {0}
BY ParallelismAssumption DEF Runners

\* Of any containers that decide, there is a first one.
LEMMA FirstOf ==
  ASSUME NEW S \in SUBSET Nat, S # {}
  PROVE  \E p \in S : \A q \in S : p <= q
<1> DEFINE R == OpToRel(<, Nat)
<1>1. PICK p \in S : \A q \in S : ~(<<q, p>> \in R)
  <2> HIDE DEF R
  <2>1. IsWellFoundedOn(R, Nat)
    BY NatLessThanWellFounded DEF R
  <2> QED BY <2>1, WFMin
<1>2. \A q \in S : ~(q < p)
  BY <1>1 DEF OpToRel
<1> QED BY <1>2

LEMMA StatesOfContainers ==
  ASSUME NEW c \in Container
  PROVE  /\ StateOf(c) \in {Running, Passed, Failed, Errored}
         /\ IsVerdict(StateOf(c)) =>
              c.phase = "terminated" /\ ~c.restarted /\ c.code \in {0, 99}
         /\ StateOf(c) = Passed => c.code = 0
         /\ c.phase # "pending" /\ c.restarted => StateOf(c) = Errored
BY DEF StateOf, ExitCodeToRunState, IsVerdict, Container

\* What the exit codes of ps say: the verdict of all, or the first container
\* that gives none.
LEMMA ExitCodesDecide ==
  ASSUME TypeOK, NEW ps \in SUBSET Runners
  PROVE  /\ CheckRunnerExitCodes(ps) \in {Running, Passed, Failed, Errored}
         /\ IsVerdict(CheckRunnerExitCodes(ps)) <=>
              ps # {} /\ \A p \in ps : IsVerdict(StateOf(pods[p]))
         /\ CheckRunnerExitCodes(ps) = Passed =>
              \A p \in ps : StateOf(pods[p]) = Passed
         /\ CheckRunnerExitCodes(ps) = Failed =>
              \E p \in ps : StateOf(pods[p]) = Failed
         /\ \A p \in ps :
              ( /\ ~IsVerdict(StateOf(pods[p]))
                /\ \A q \in ps : q < p => IsVerdict(StateOf(pods[q])) )
              => CheckRunnerExitCodes(ps) = StateOf(pods[p])
<1> DEFINE deciding == {p \in ps : StateOf(pods[p]) \in {Running, Errored}}
           first == CHOOSE p \in deciding : \A q \in deciding : p <= q
<1>1. \A p \in ps : /\ StateOf(pods[p]) \in {Running, Passed, Failed, Errored}
                    /\ p \in Nat
  BY StatesOfContainers, RunnersAreNumbers DEF TypeOK
<1>2. ASSUME deciding # {}
      PROVE  first \in deciding /\ \A q \in deciding : first <= q
  <2>1. \E p \in deciding : \A q \in deciding : p <= q
    <3>1. deciding \in SUBSET Nat
      BY <1>1
    <3> HIDE DEF deciding
    <3> QED BY <1>2, <3>1, FirstOf
  <2> HIDE DEF deciding
  <2> QED BY <2>1
<1>3. CheckRunnerExitCodes(ps) =
        CASE ps = {}        -> Errored
          [] deciding # {}  -> StateOf(pods[first])
          [] OTHER          -> IF \E p \in ps : StateOf(pods[p]) = Failed
                               THEN Failed ELSE Passed
  BY DEF CheckRunnerExitCodes
<1> HIDE DEF first
<1>4. CASE ps = {}
  BY <1>3, <1>4 DEF IsVerdict
<1>5. CASE ps # {} /\ deciding = {}
  <2>1. CheckRunnerExitCodes(ps) =
          IF \E p \in ps : StateOf(pods[p]) = Failed THEN Failed ELSE Passed
    BY <1>3, <1>5
  <2>2. \A p \in ps : StateOf(pods[p]) \in {Passed, Failed}
    BY <1>1, <1>5
  <2> QED BY <1>5, <2>1, <2>2 DEF IsVerdict
<1>6. CASE deciding # {}
  <2>1. CheckRunnerExitCodes(ps) = StateOf(pods[first]) /\ first \in ps
    BY <1>2, <1>3, <1>6
  <2>2. StateOf(pods[first]) \in {Running, Errored}
    BY <1>2, <1>6
  <2>3. ASSUME NEW p \in ps, ~IsVerdict(StateOf(pods[p])),
               \A q \in ps : q < p => IsVerdict(StateOf(pods[q]))
        PROVE  p = first
    <3>1. p \in deciding
      BY <1>1, <2>3 DEF IsVerdict
    <3>2. first <= p /\ ~(first < p)
      BY <1>2, <1>6, <2>1, <2>2, <2>3, <3>1 DEF IsVerdict
    <3> QED BY <1>1, <2>1, <3>2
  <2> QED BY <2>1, <2>2, <2>3 DEF IsVerdict
<1> QED BY <1>4, <1>5, <1>6

\* The verdict that the exit codes give is settled.
LEMMA ExitCodesSettle ==
  ASSUME TypeOK, NEW s, s = CheckRunnerExitCodes(there), IsVerdict(s)
  PROVE  Settled(s)
BY ExitCodesDecide DEF TypeOK, Settled, IsVerdict

-----------------------------------------------------------------------------
(* The inductive invariant holds.                                          *)

\* A container that has terminated, or restarted, keeps what it says.
LEMMA MovesKeepVerdicts ==
  ASSUME TypeOK, NEW p \in Runners, PodMoves(p)
  PROVE  /\ pods' \in [Runners -> Container]
         /\ \A q \in Runners : StateOf(pods[q]) # Running =>
              StateOf(pods'[q]) = StateOf(pods[q])
         /\ \A q \in Runners : IsVerdict(StateOf(pods[q])) => pods'[q] = pods[q]
<1>1. \A q \in Runners \ {p} : pods'[q] = pods[q]
  BY DEF PodMoves, TypeOK
<1>2. /\ pods[p] \in Container
      /\ pods[p].phase \in {"pending", "running"}
  BY DEF PodMoves, TypeOK
<1>3. /\ pods'[p] \in Container
      /\ pods' \in [Runners -> Container]
      /\ pods[p].phase = "running" =>
           pods'[p].phase # "pending" /\ (pods[p].restarted => pods'[p].restarted)
  <2>1. PICK c \in Container :
          /\ pods' = [pods EXCEPT ![p] = c]
          /\ pods[p].phase = "running" =>
               c.phase # "pending" /\ (pods[p].restarted => c.restarted)
    <3> DEFINE Good(c) == /\ c \in Container
                          /\ pods[p].phase = "running" =>
                               c.phase # "pending" /\ (pods[p].restarted => c.restarted)
    <3>1. pods[p].phase = "pending" => Good([pods[p] EXCEPT !.phase = "running"])
      BY <1>2 DEF Container
    <3>2. pods[p].phase = "running" => Good([pods[p] EXCEPT !.restarted = TRUE])
      BY <1>2 DEF Container
    <3>3. \A c \in ExitCodes : pods[p].phase = "running" =>
            Good([pods[p] EXCEPT !.phase = "terminated", !.code = c])
      BY <1>2 DEF Container
    <3>4. \E c : Good(c) /\ pods' = [pods EXCEPT ![p] = c]
      <4> HIDE DEF Good
      <4> QED BY <1>2, <3>1, <3>2, <3>3 DEF PodMoves, TypeOK
    <3> QED BY <3>4
  <2> QED BY <2>1 DEF TypeOK
<1>4. ~IsVerdict(StateOf(pods[p]))
  BY <1>2, StatesOfContainers
<1>5. StateOf(pods[p]) # Running => StateOf(pods'[p]) = StateOf(pods[p])
  <2>1. StateOf(pods[p]) # Running => pods[p].phase = "running" /\ pods[p].restarted
    BY <1>2 DEF StateOf
  <2>2. pods[p].phase = "running" /\ pods[p].restarted =>
          StateOf(pods'[p]) = Errored /\ StateOf(pods[p]) = Errored
    BY <1>2, <1>3, StatesOfContainers
  <2> QED BY <2>1, <2>2
<1> QED BY <1>1, <1>3, <1>4, <1>5

LEMMA TypesOfSteps == TypeOK /\ [Next]_vars => TypeOK'
<1> SUFFICES ASSUME TypeOK, [Next]_vars PROVE TypeOK'
  OBVIOUS
<1>1. CASE ReadScript
  BY <1>1 DEF ReadScript, EnsureClient, clusterVars, answerVars, TypeOK
<1>2. CASE CreateCR
  BY <1>2 DEF CreateCR, clusterVars, answerVars, TypeOK
<1>3. CASE GetCR
  BY <1>3 DEF GetCR, MayCall, EnsureClient, Answer, HasMetrics, StageToRunState,
              clusterVars, answerVars, TypeOK
<1>4. CASE ListPods
  <2>1. \E s \in {Running, Passed, Failed, Errored} : Answer(s)
    BY <1>4, ExitCodesDecide DEF ListPods, TypeOK
  <2> QED BY <1>4, <2>1 DEF ListPods, Answer, HasMetrics, clusterVars, TypeOK
<1>5. CASE ReadLogs
  BY <1>5 DEF ReadLogs, clusterVars, TypeOK
<1>6. CASE DeleteCR
  BY <1>6 DEF DeleteCR, MayCall, EnsureClient, answerVars, TypeOK
<1>7. CASE Restart
  BY <1>7 DEF Restart, clusterVars, TypeOK
<1>8. CASE ScriptChanges
  BY <1>8 DEF ScriptChanges, answerVars, TypeOK
<1>9. CASE \E s \in Stages : SetStage(s)
  BY <1>9 DEF SetStage, answerVars, TypeOK
<1>10. CASE \E p \in Runners : PodMoves(p)
  BY <1>10, MovesKeepVerdicts DEF PodMoves, answerVars, TypeOK
<1>11. CASE \E p \in Runners : PodGoes(p)
  BY <1>11 DEF PodGoes, answerVars, TypeOK
<1>12. CASE CRVanishes
  BY <1>12 DEF CRVanishes, answerVars, TypeOK
<1>13. CASE UNCHANGED vars
  BY <1>13 DEF vars, clusterVars, answerVars, TypeOK
<1> QED BY <1>1, <1>2, <1>3, <1>4, <1>5, <1>6, <1>7, <1>8, <1>9, <1>10, <1>11, <1>12,
           <1>13 DEF Next

LEMMA InitIInv == Init => IInv
<1> SUFFICES ASSUME Init PROVE IInv
  OBVIOUS
<1>1. TypeOK
  BY DEF Init, TypeOK, Pending, Container, Stages
<1> QED BY <1>1 DEF Init, IInv, VerdictInv, MetricsInv, IsVerdict

\* What has been settled stays so when containers move and pods go.
LEMMA SettledStays ==
  ASSUME TypeOK, NEW s, Settled(s), there' \subseteq there,
         \A q \in Runners : IsVerdict(StateOf(pods[q])) => pods'[q] = pods[q]
  PROVE  Settled(s)'
<1>1. \A q \in Runners : IsVerdict(StateOf(pods[q])) => StateOf(pods'[q]) = StateOf(pods[q])
  OBVIOUS
<1>2. /\ \A q \in there' : q \in there /\ q \in Runners
      /\ IsVerdict(Failed) /\ IsVerdict(Passed)
  BY DEF TypeOK, IsVerdict
<1> QED BY <1>1, <1>2 DEF Settled

LEMMA NextVerdictInv == IInv /\ [Next]_vars => VerdictInv'
<1> SUFFICES ASSUME TypeOK, VerdictInv, [Next]_vars PROVE VerdictInv'
  BY DEF IInv
<1>0. TypeOK'
  BY TypesOfSteps
<1>1. CASE ReadScript
  BY <1>1 DEF ReadScript, clusterVars, answerVars, VerdictInv, Settled
<1>2. CASE CreateCR
  BY <1>2 DEF CreateCR, clusterVars, answerVars, VerdictInv, Settled
<1>3. CASE GetCR
  <2>1. UNCHANGED clusterVars /\ pc = "idle"
    BY <1>3 DEF GetCR, MayCall
  <2>2. \/ pc' = "idle" /\ verdict' = verdict /\ ~IsVerdict(answer')
        \/ stage = "finished" /\ pc' = "list" /\ UNCHANGED answerVars
    BY <1>3 DEF GetCR, MayCall, Answer, HasMetrics, StageToRunState, IsVerdict
  <2> QED BY <2>1, <2>2 DEF VerdictInv, Settled, clusterVars, answerVars
<1>4. CASE ListPods
  <2>1. UNCHANGED clusterVars /\ pc = "list" /\ stage = "finished"
    BY <1>4 DEF ListPods, VerdictInv
  <2>2. \/ pc' = "idle" /\ verdict' = verdict /\ ~IsVerdict(answer')
        \/ /\ IsVerdict(verdict') /\ verdict' = CheckRunnerExitCodes(there)
           /\ pc' = "logs" /\ UNCHANGED <<answer, metrics>>
    BY <1>4 DEF ListPods, Answer, HasMetrics, IsVerdict
  <2>3. pc' = "logs" => Settled(verdict')
    BY <2>2, ExitCodesSettle
  <2> QED BY <2>1, <2>2, <2>3 DEF VerdictInv, Settled, clusterVars
<1>5. CASE ReadLogs
  BY <1>5 DEF ReadLogs, VerdictInv, Settled, clusterVars
<1>6. CASE DeleteCR
  BY <1>6 DEF DeleteCR, answerVars, VerdictInv, Settled
<1>7. CASE Restart
  BY <1>7 DEF Restart, clusterVars, VerdictInv, Settled
<1>8. CASE ScriptChanges
  BY <1>8 DEF ScriptChanges, answerVars, VerdictInv, Settled
<1>9. CASE \E s \in Stages : SetStage(s)
  <2>1. PICK s \in Stages : SetStage(s)
    BY <1>9
  <2>2. stage # "finished" /\ cr' # "none" /\ UNCHANGED <<pods, pc, answerVars>>
    BY <2>1 DEF SetStage, Stages
  <2> QED BY <2>2 DEF VerdictInv, answerVars
<1>10. CASE \E p \in Runners : PodMoves(p)
  <2>1. /\ UNCHANGED <<cr, stage, there, pc, answerVars>>
        /\ \A q \in Runners : IsVerdict(StateOf(pods[q])) => pods'[q] = pods[q]
    BY <1>10, MovesKeepVerdicts DEF PodMoves
  <2>2. /\ Settled(verdict) => Settled(verdict)'
        /\ Settled(answer) => Settled(answer)'
    BY <2>1, SettledStays DEF answerVars
  <2> QED BY <2>1, <2>2 DEF VerdictInv, answerVars, TypeOK
<1>11. CASE \E p \in Runners : PodGoes(p)
  <2>1. /\ UNCHANGED <<cr, stage, pods, pc, answerVars>>
        /\ there' \subseteq there
    BY <1>11 DEF PodGoes, TypeOK
  <2>2. /\ Settled(verdict) => Settled(verdict)'
        /\ Settled(answer) => Settled(answer)'
    <3>1. \A q \in Runners : IsVerdict(StateOf(pods[q])) => pods'[q] = pods[q]
      BY <2>1
    <3> QED BY <2>1, <3>1, SettledStays DEF answerVars
  <2>3. cr # "none"
    BY <1>11 DEF PodGoes, PodExists, VerdictInv
  <2> QED BY <2>1, <2>2, <2>3 DEF VerdictInv, answerVars
<1>12. CASE CRVanishes
  BY <1>12 DEF CRVanishes, answerVars, VerdictInv, Settled
<1>13. CASE UNCHANGED vars
  BY <1>13 DEF vars, clusterVars, answerVars, VerdictInv, Settled
<1> QED BY <1>1, <1>2, <1>3, <1>4, <1>5, <1>6, <1>7, <1>8, <1>9, <1>10, <1>11, <1>12,
           <1>13 DEF Next

LEMMA NextMetricsInv == IInv /\ [Next]_vars => MetricsInv'
<1> SUFFICES ASSUME TypeOK, VerdictInv, MetricsInv, [Next]_vars PROVE MetricsInv'
  BY DEF IInv
<1>1. CASE GetCR \/ ListPods
  <2>1. UNCHANGED pods /\ (metrics' = {} \/ UNCHANGED <<answer, metrics>>)
    BY <1>1 DEF GetCR, ListPods, Answer, clusterVars, answerVars
  <2> QED BY <2>1 DEF MetricsInv
<1>2. CASE ReadLogs
  <2>1. UNCHANGED pods /\ answer' = verdict /\ metrics' \subseteq there /\ pc = "logs"
    BY <1>2 DEF ReadLogs, clusterVars
  <2> QED BY <2>1 DEF VerdictInv, Settled, MetricsInv
<1>3. CASE \E p \in Runners : PodMoves(p)
  <2>1. /\ UNCHANGED <<answer, metrics>>
        /\ \A q \in Runners : IsVerdict(StateOf(pods[q])) => pods'[q] = pods[q]
    BY <1>3, MovesKeepVerdicts DEF PodMoves, answerVars
  <2> QED BY <2>1 DEF MetricsInv, TypeOK
<1>4. UNCHANGED <<pods, answer, metrics>> => MetricsInv'
  BY DEF MetricsInv
<1>5. CASE \/ ReadScript \/ CreateCR \/ DeleteCR \/ Restart \/ ScriptChanges
           \/ (\E s \in Stages : SetStage(s)) \/ (\E p \in Runners : PodGoes(p))
           \/ CRVanishes \/ UNCHANGED vars
  BY <1>4, <1>5 DEF ReadScript, CreateCR, DeleteCR, Restart, ScriptChanges, SetStage,
                    PodGoes, CRVanishes, vars, clusterVars, answerVars
<1> QED BY <1>1, <1>2, <1>3, <1>5 DEF Next

(* The inductive invariant holds: verdicts, given or about to be, are      *)
(* those of containers that do not move any more.                          *)
THEOREM SpecIInv == Spec => []IInv
<1>1. IInv /\ [Next]_vars => IInv'
  BY TypesOfSteps, NextVerdictInv, NextMetricsInv DEF IInv
<1> QED BY <1>1, InitIInv, PTL DEF Spec

(***************************************************************************)
(* The state of the model is well-formed: in particular a verdict is held  *)
(* while the logs are read, and a CR is created at most once.              *)
(***************************************************************************)
THEOREM TypeCorrect == Spec => []TypeOK
<1>1. IInv => TypeOK
  BY DEF IInv
<1> QED BY <1>1, SpecIInv, PTL

-----------------------------------------------------------------------------
(* Verdicts and metrics.                                                   *)

(* A run is called Passed only if each of its runners, all of which could  *)
(* be read, exited with code 0 and without a restart, however the reads of *)
(* the CR and of the pods fall between the ends of the pods.               *)
THEOREM PassedIsEarned == Spec => []PassedMeansAllPassed
<1>1. IInv => PassedMeansAllPassed
  <2> SUFFICES ASSUME TypeOK, VerdictInv, answer = Passed, there = Runners,
                      NEW p \in Runners
               PROVE  pods[p].phase = "terminated" /\ pods[p].code = 0 /\ ~pods[p].restarted
    BY DEF IInv, PassedMeansAllPassed
  <2>1. StateOf(pods[p]) = Passed /\ pods[p] \in Container
    BY DEF VerdictInv, Settled, IsVerdict, TypeOK
  <2> QED BY <2>1, StatesOfContainers DEF IsVerdict
<1> QED BY <1>1, SpecIInv, PTL

(* The metrics that come with a verdict are those of runners that have     *)
(* terminated with a code that this verdict goes with.                     *)
THEOREM MetricsOfVerdicts == Spec => []MetricsAreFinal
<1>1. IInv => MetricsAreFinal
  <2> SUFFICES ASSUME TypeOK, MetricsInv, answer \in {Passed, Failed}, NEW p \in metrics
               PROVE  /\ pods[p].phase = "terminated" /\ ~pods[p].restarted
                      /\ pods[p].code \in (IF answer = Passed THEN {0} ELSE {0, 99})
    BY DEF IInv, MetricsAreFinal
  <2>1. /\ IsVerdict(StateOf(pods[p])) /\ pods[p] \in Container
        /\ answer = Passed => StateOf(pods[p]) = Passed
    BY DEF MetricsInv, TypeOK
  <2> QED BY <2>1, StatesOfContainers
<1> QED BY <1>1, SpecIInv, PTL

(* No later poll takes a verdict back, or sees the run Running again, as   *)
(* long as its pods are there.                                             *)
THEOREM VerdictsAreFinal == Spec => VerdictKept
<1> DEFINE Kept == (answer \in {Passed, Failed} /\ there' = Runners) =>
                     answer' \in {answer, Errored, "error"}
<1>1. IInv /\ [Next]_vars => [Kept]_vars
  <2> SUFFICES ASSUME TypeOK, VerdictInv, Next, IsVerdict(answer), there' = Runners,
                      answer' # answer
               PROVE  answer' \in {Errored, "error"}
    BY DEF IInv, IsVerdict
  <2>1. CASE GetCR
    <3>1. stage = "finished"
      BY DEF VerdictInv
    <3> QED BY <2>1, <3>1 DEF GetCR, answerVars
  <2>2. CASE ListPods
    <3>1. there = Runners
      BY <2>2 DEF ListPods, clusterVars
    <3>2. \A p \in there : IsVerdict(StateOf(pods[p]))
      BY <3>1 DEF VerdictInv, Settled
    <3>3. Answer(Errored) \/ Answer(CheckRunnerExitCodes(there))
      BY <2>2 DEF ListPods
    <3>4. CheckRunnerExitCodes(there) # Running
      <4>1. there = {} => ~IsVerdict(CheckRunnerExitCodes(there))
        BY ExitCodesDecide DEF TypeOK
      <4>2. there # {}
        BY <3>1, ParallelismAssumption DEF Runners
      <4> QED BY <3>2, <4>2, ExitCodesDecide DEF TypeOK, IsVerdict
    <3>5. CheckRunnerExitCodes(there) \in {Running, Passed, Failed, Errored}
      BY ExitCodesDecide DEF TypeOK
    <3> QED BY <3>3, <3>4, <3>5 DEF Answer, HasMetrics
  <2>3. CASE ReadLogs
    <3>1. there = Runners /\ answer' = verdict /\ IsVerdict(verdict)
      BY <2>3 DEF ReadLogs, clusterVars, VerdictInv
    <3>2. Settled(verdict) /\ Settled(answer)
      BY <2>3, <3>1 DEF ReadLogs, VerdictInv
    <3> QED BY <3>1, <3>2 DEF Settled, IsVerdict
  <2> QED
    BY <2>1, <2>2, <2>3
       DEF Next, ReadScript, CreateCR, DeleteCR, Restart, ScriptChanges, SetStage, PodMoves,
           PodGoes, CRVanishes, answerVars
<1> QED BY <1>1, SpecIInv, PTL DEF Spec, VerdictKept

-----------------------------------------------------------------------------
(* The backend is the Provider that the plugins are checked against.       *)

USE DEF Abstract!Running, Abstract!Passed, Abstract!Failed, Abstract!Errored,
        Abstract!Aborted, Abstract!Absent, Abstract!Ended

\* What all runners exited with.
Code == CheckRunnerExitCodes(Runners)

FirstDecides ==
  \A p \in Runners :
    ( /\ ~IsVerdict(StateOf(pods[p]))
      /\ \A q \in Runners : q < p => IsVerdict(StateOf(pods[q])) )
    => Code = StateOf(pods[p])

LEMMA FirstDecidesAlways == TypeOK => FirstDecides
BY ExitCodesDecide DEF FirstDecides, Code

LEMMA FirstDecidesNext == TypeOK' => FirstDecides'
BY FirstDecidesAlways, PTL

(***************************************************************************)
(* What the exit codes say is final as soon as it is not Running: the      *)
(* runners before the one that decides have all terminated, and it is      *)
(* itself over or was restarted.                                           *)
(***************************************************************************)
LEMMA CodeIsFinal ==
  ASSUME TypeOK, TypeOK', NEW p \in Runners, PodMoves(p), Code # Running
  PROVE  Code' = Code
<1>1. FirstDecides'
  BY FirstDecidesNext
<1>2. CASE \A q \in Runners : IsVerdict(StateOf(pods[q]))
  <2>1. \A q \in Runners : pods'[q] = pods[q]
    BY <1>2, MovesKeepVerdicts
  <2>2. pods' = pods
    BY <2>1, MovesKeepVerdicts DEF TypeOK
  <2> QED BY <2>2 DEF Code, CheckRunnerExitCodes
<1>3. CASE \E q \in Runners : ~IsVerdict(StateOf(pods[q]))
  <2> DEFINE open == {q \in Runners : ~IsVerdict(StateOf(pods[q]))}
  <2>1. PICK f \in open : \A q \in open : f <= q
    <3>1. open \in SUBSET Nat /\ open # {}
      BY <1>3, RunnersAreNumbers
    <3> HIDE DEF open
    <3> QED BY <3>1, FirstOf
  <2>2. \A q \in Runners : q < f => IsVerdict(StateOf(pods[q]))
    BY <2>1, RunnersAreNumbers
  <2>3. Code = StateOf(pods[f]) /\ f \in Runners
    BY <2>1, <2>2, FirstDecidesAlways DEF FirstDecides
  <2>4. StateOf(pods'[f]) = StateOf(pods[f]) /\ ~IsVerdict(StateOf(pods'[f]))
    BY <2>1, <2>3, MovesKeepVerdicts
  <2>5. \A q \in Runners : q < f => IsVerdict(StateOf(pods'[q]))
    BY <2>2, MovesKeepVerdicts
  <2> QED BY <1>1, <2>3, <2>4, <2>5 DEF FirstDecides
<1> QED BY <1>2, <1>3

LEMMA CodeType == TypeOK => Code \in {Running, Passed, Failed, Errored}
BY ExitCodesDecide DEF Code

LEMMA CodeTypeNext == TypeOK' => (Code \in {Running, Passed, Failed, Errored})'
BY CodeType, PTL

\* The abstract state, in the three cases that matter.
LEMMA AbstractStates ==
  /\ cr = "none" => AbstractState = "Absent"
  /\ cr # "none" /\ stage = "error" => AbstractState = Errored
  /\ cr # "none" /\ stage = "finished" =>
       AbstractState = IF Code = Running THEN "Ended" ELSE Code
  /\ cr = "present" /\ stage \notin {"error", "finished"} => AbstractState = Running
  /\ cr = "deleted" /\ stage \notin {"error", "finished"} => AbstractState = "Aborted"
BY DEF AbstractState, Code

LEMMA AbstractStatesNext ==
  /\ cr' # "none" /\ stage' = "error" => AbstractState' = Errored
  /\ cr' # "none" /\ stage' = "finished" =>
       AbstractState' = IF Code' = Running THEN "Ended" ELSE Code'
  /\ cr' = "present" /\ stage' \notin {"error", "finished"} => AbstractState' = Running
  /\ cr' = "deleted" /\ stage' \notin {"error", "finished"} => AbstractState' = "Aborted"
BY DEF AbstractState, Code

\* The run is stored as long as a poll that found it is in progress.
Stored == cr = "present" \/ pc \in {"list", "logs"}

\* A poll in progress has found the run over.
LEMMA PolledIsOver ==
  IInv /\ pc \in {"list", "logs"} =>
    /\ cr # "none" /\ stage = "finished"
    /\ AbstractState = IF Code = Running THEN "Ended" ELSE Code
BY AbstractStates DEF IInv, VerdictInv

LEMMA AbstractType == IInv => Abstract!ProviderTypeOK
<1> SUFFICES ASSUME IInv PROVE Abstract!ProviderTypeOK
  OBVIOUS
<1>1. AbstractState \in {"Absent", "Ended", "Aborted", Running, Passed, Failed, Errored}
  BY AbstractStates, CodeType DEF IInv, TypeOK
<1>2. Stored \/ there # Runners => cr # "none"
  BY PolledIsOver DEF IInv, VerdictInv, Stored
<1>3. cr # "none" => AbstractState # "Absent"
  BY AbstractStates, CodeType DEF IInv, TypeOK
<1> QED BY <1>1, <1>2, <1>3 DEF Abstract!ProviderTypeOK, Abstract!RunState, Stored

\* The abstract steps, in terms of the abstract state.
LEMMA AbstractSteps ==
  /\ ( /\ AbstractState = "Absent" /\ AbstractState' = Running
       /\ Stored' /\ there' = there ) => Abstract!TriggerRun(run)
  /\ ( /\ \/ AbstractState = "Ended" /\ AbstractState' \in {Passed, Failed, Errored}
          \/ /\ AbstractState = Running /\ Stored
             /\ AbstractState' \in {"Ended", Passed, Failed, Errored}
       /\ Stored' = Stored /\ there' = there ) => Abstract!RunEnds(run)
  /\ ( /\ Stored /\ ~Stored' /\ there' = there
       /\ AbstractState' = IF AbstractState = Running THEN "Aborted" ELSE AbstractState )
     => Abstract!StopRun(run)
  /\ ( /\ AbstractState # "Absent" /\ AbstractState' = AbstractState
       /\ Stored' = Stored /\ there' # Runners ) => Abstract!PodsLost(run)
  /\ ( /\ AbstractState' = AbstractState
       /\ Stored' = Stored /\ there' = there ) => UNCHANGED Abstract!providerVars
BY DEF run, Stored, Abstract!TriggerRun, Abstract!Fresh, Abstract!RunEnds,
       Abstract!Verdicts, Abstract!StopRun, Abstract!DeleteCR, Abstract!Killed,
       Abstract!PodsLost, Abstract!K6Operator, Abstract!GrafanaCloud, Abstract!providerVars

LEMMA StateKept == UNCHANGED <<cr, stage, pods>> => AbstractState' = AbstractState
BY DEF AbstractState, CheckRunnerExitCodes

\* The provider's reads: a run that is deleted under a poll goes with its end.
LEMMA ReadsAbstract ==
  ASSUME IInv, UNCHANGED <<cr, stage, pods, there>>, pc' \in {"list", "logs"} => Stored
  PROVE  Abstract!StopRun(run) \/ UNCHANGED Abstract!providerVars
<1>1. AbstractState' = AbstractState
  BY StateKept
<1>2. CASE Stored' = Stored
  BY <1>1, <1>2, AbstractSteps
<1>3. CASE Stored' # Stored
  <2>1. Stored /\ ~Stored' /\ pc \in {"list", "logs"}
    BY <1>3 DEF Stored
  <2>2. AbstractState # Running
    BY <2>1, PolledIsOver
  <2> QED BY <1>1, <2>1, <2>2, AbstractSteps
<1> QED BY <1>2, <1>3

LEMMA StagesAbstract ==
  ASSUME IInv, NEW s \in Stages, SetStage(s)
  PROVE  Abstract!RunEnds(run) \/ UNCHANGED Abstract!providerVars
<1>1. /\ cr = "present" /\ UNCHANGED <<cr, pods, there>> /\ stage' = s
      /\ stage \notin {"error", "finished"}
      /\ AbstractState = Running /\ Stored /\ Stored'
  BY AbstractStates DEF SetStage, Stored
<1>2. Code' = Code /\ Code \in {Running, Passed, Failed, Errored}
  BY <1>1, CodeType DEF IInv, Code, CheckRunnerExitCodes
<1>3. CASE s = "error"
  BY <1>1, <1>3, AbstractStatesNext, AbstractSteps
<1>4. CASE s = "finished"
  BY <1>1, <1>2, <1>4, AbstractStatesNext, AbstractSteps
<1>5. CASE s \notin {"error", "finished"}
  BY <1>1, <1>5, AbstractStatesNext, AbstractSteps
<1> QED BY <1>3, <1>4, <1>5

LEMMA PodsAbstract ==
  ASSUME IInv, TypeOK', NEW p \in Runners, PodMoves(p)
  PROVE  Abstract!RunEnds(run) \/ UNCHANGED Abstract!providerVars
<1>1. UNCHANGED <<cr, stage, there>> /\ Stored' = Stored
  BY DEF PodMoves, Stored
<1>2. Code \in {Running, Passed, Failed, Errored}
  BY CodeType DEF IInv
<1>3. Code' \in {Running, Passed, Failed, Errored}
  <2>1. TypeOK' => (Code \in {Running, Passed, Failed, Errored})'
    BY CodeTypeNext
  <2> QED BY <2>1
<1>4. Code # Running => Code' = Code
  BY CodeIsFinal DEF IInv
<1>5. CASE cr # "none" /\ stage = "finished"
  <2>1. CASE Code' = Code
    BY <1>1, <1>5, <2>1, AbstractStates, AbstractStatesNext, AbstractSteps
  <2>2. CASE Code' # Code
    <3>1. AbstractState = "Ended" /\ AbstractState' \in {Passed, Failed, Errored}
      BY <1>1, <1>3, <1>4, <1>5, <2>2, AbstractStates, AbstractStatesNext
    <3> QED BY <1>1, <3>1, AbstractSteps
  <2> QED BY <2>1, <2>2
<1>6. CASE cr = "none" \/ stage # "finished"
  <2>1. AbstractState' = AbstractState
    BY <1>1, <1>6 DEF AbstractState
  <2> QED BY <1>1, <2>1, AbstractSteps
<1> QED BY <1>5, <1>6

LEMMA PodLossesAbstract ==
  ASSUME IInv, NEW p \in Runners, PodGoes(p)
  PROVE  Abstract!PodsLost(run)
<1>1. /\ UNCHANGED <<cr, stage, pods>> /\ Stored' = Stored
      /\ there' # Runners /\ stage # ""
  BY DEF PodGoes, PodExists, Stored, IInv, TypeOK
<1>2. cr # "none"
  BY <1>1 DEF IInv, VerdictInv
<1>3. AbstractState # "Absent"
  BY <1>2, AbstractStates, CodeType DEF IInv, TypeOK
<1> QED BY <1>1, <1>3, StateKept, AbstractSteps

LEMMA DeletesAbstract ==
  ASSUME IInv, cr # "none", cr' \in {cr, "deleted"}, UNCHANGED <<stage, pods, there, pc>>
  PROVE  Abstract!StopRun(run) \/ UNCHANGED Abstract!providerVars
<1>1. CASE cr' = cr
  BY <1>1, StateKept, AbstractSteps DEF Stored
<1>2. CASE cr' # cr
  <2>1. cr = "present" /\ cr' = "deleted" /\ Code' = Code /\ Stored
    BY <1>2 DEF IInv, TypeOK, Code, CheckRunnerExitCodes, Stored
  <2>2. AbstractState' = IF AbstractState = Running THEN "Aborted" ELSE AbstractState
    BY <2>1, AbstractStates, AbstractStatesNext, CodeType DEF IInv
  <2>3. CASE pc \in {"list", "logs"}
    <3>1. Stored' = Stored /\ AbstractState # Running
      BY <2>1, <2>3, PolledIsOver DEF Stored
    <3> QED BY <2>2, <3>1, AbstractSteps
  <2>4. CASE pc \notin {"list", "logs"}
    BY <2>1, <2>2, <2>4, AbstractSteps DEF Stored
  <2> QED BY <2>3, <2>4
<1> QED BY <1>1, <1>2

(* The k6-operator backend implements the Provider the two plugins are     *)
(* checked against: the reads of a CR and its pods, their crashes and the  *)
(* moves of single containers are steps of one run that is started once,   *)
(* ends with one verdict, and is deleted.                                  *)
THEOREM BackendIsProvider == Spec => ImplementsProvider
<1> DEFINE Step == \/ Abstract!TriggerRun(run)
                   \/ Abstract!RunEnds(run)
                   \/ Abstract!RunVanishes(run)
                   \/ Abstract!PodsLost(run)
                   \/ Abstract!StopRun(run)
<1>1. Init => Abstract!ProviderTypeOK
  BY InitIInv, AbstractType
<1>2. IInv /\ IInv' /\ [Next]_vars => [Step]_(Abstract!providerVars)
  <2> SUFFICES ASSUME IInv, IInv', [Next]_vars
               PROVE  Step \/ UNCHANGED Abstract!providerVars
    OBVIOUS
  <2>0. TypeOK' /\ (cr = "none" => stage = "")
    BY DEF IInv, VerdictInv
  <2>1. CASE CreateCR
    <3>1. CASE UNCHANGED clusterVars
      BY <2>1, <3>1, ReadsAbstract DEF CreateCR, clusterVars
    <3>2. CASE cr' = "present" /\ UNCHANGED <<stage, pods, there>>
      <4>1. cr = "none" /\ stage = ""
        BY <2>0, <2>1 DEF CreateCR, IInv, TypeOK
      <4>2. AbstractState = "Absent" /\ AbstractState' = Running /\ Stored'
        BY <3>2, <4>1, AbstractStates, AbstractStatesNext DEF Stored
      <4> QED BY <3>2, <4>2, AbstractSteps
    <3> QED BY <2>1, <3>1, <3>2 DEF CreateCR
  <2>2. CASE DeleteCR
    BY <2>2, DeletesAbstract DEF DeleteCR, MayCall
  <2>3. CASE CRVanishes
    BY <2>3, DeletesAbstract DEF CRVanishes
  <2>4. CASE \E s \in Stages : SetStage(s)
    BY <2>4, StagesAbstract
  <2>5. CASE \E p \in Runners : PodMoves(p)
    BY <2>0, <2>5, PodsAbstract
  <2>6. CASE ReadScript \/ GetCR \/ ListPods \/ ReadLogs \/ Restart \/ ScriptChanges \/ UNCHANGED vars
    <3>1. UNCHANGED <<cr, stage, pods, there>>
      BY <2>6 DEF ReadScript, GetCR, ListPods, ReadLogs, Restart, ScriptChanges,
                  vars, clusterVars
    <3>2. pc' \in {"list", "logs"} => Stored
      <4>1. CASE GetCR
        BY <4>1 DEF GetCR, MayCall, Stored, Answer, HasMetrics, StageToRunState
      <4>2. CASE ~GetCR
        BY <2>6, <4>2 DEF ReadScript, ListPods, ReadLogs, Restart, ScriptChanges, vars, Stored
      <4> QED BY <4>1, <4>2
    <3> QED BY <3>1, <3>2, ReadsAbstract
  <2>7. CASE \E p \in Runners : PodGoes(p)
    BY <2>7, PodLossesAbstract
  <2> HIDE DEF Step
  <2>8. \/ UNCHANGED Abstract!providerVars \/ Abstract!StopRun(run) \/ Abstract!RunEnds(run)
        \/ Abstract!PodsLost(run)
          => Step \/ UNCHANGED Abstract!providerVars
    BY DEF Step
  <2> QED BY <2>1, <2>2, <2>3, <2>4, <2>5, <2>6, <2>7, <2>8 DEF Next
<1> QED BY <1>1, <1>2, SpecIInv, PTL DEF Spec, ImplementsProvider

(* An answer that is not an error is one the Provider could give at the    *)
(* last read, however long the call took, and whatever was deleted or lost *)
(* under it.                                                               *)
THEOREM BackendAnswersLikeProvider == Spec => AnswersLikeProvider
<1> DEFINE Asked == /\ GetCR \/ ListPods \/ ReadLogs
                    /\ pc' = "idle"
                    /\ answer' # "error"
           Agrees == Asked => answer' \in Abstract!GetRunResult(run)
<1>1. IInv /\ [Next]_vars => [Agrees]_vars
  <2> SUFFICES ASSUME IInv, Asked
               PROVE  answer' \in Abstract!GetRunResult(run)
    OBVIOUS
  <2>0. TypeOK /\ VerdictInv /\ Code \in {Running, Passed, Failed, Errored}
    BY CodeType DEF IInv
  <2>a. Stored
    BY DEF GetCR, Answer, ListPods, ReadLogs, Stored
  <2>1. CASE AbstractState = answer' /\ answer' # "Ended"
    BY <2>a, <2>1 DEF Abstract!GetRunResult, run, Running, Stored
  <2>2. CASE AbstractState = "Ended" /\ answer' = Running
    BY <2>a, <2>2 DEF Abstract!GetRunResult, run, Stored
  <2>3. CASE AbstractState \notin {"Absent", Running} /\ answer' = Errored
    BY <2>a, <2>3 DEF Abstract!GetRunResult, Abstract!PodsUnread, Abstract!K6Operator, run, Stored
  <2>4. CASE there # Runners /\ answer' \in Abstract!Remaining(AbstractState)
    BY <2>a, <2>4 DEF Abstract!GetRunResult, run, Stored
  <2>5. CASE GetCR
    <3>1. stage # "finished" /\ cr = "present" /\ answer' = StageToRunState(stage)
      BY <2>5 DEF GetCR, Answer, HasMetrics, StageToRunState
    <3>2. AbstractState = answer' /\ answer' # "Ended"
      BY <3>1, AbstractStates DEF StageToRunState
    <3> QED BY <2>1, <3>2
  <2>6. ASSUME pc \in {"list", "logs"}
        PROVE  AbstractState = IF Code = Running THEN "Ended" ELSE Code
    BY <2>6, PolledIsOver
  <2>7. CASE ListPods
    <3>1. /\ answer' \in {CheckRunnerExitCodes(there), Errored} /\ ~IsVerdict(answer')
          /\ pc = "list"
      BY <2>7 DEF ListPods, Answer, HasMetrics, IsVerdict
    <3>2. CASE there = Runners
      BY <2>0, <2>1, <2>2, <2>3, <2>6, <3>1, <3>2 DEF Code
    <3>3. CASE there # Runners
      <4>1. CASE answer' = Errored
        BY <2>0, <2>3, <2>6, <3>1, <4>1
      <4>2. CASE answer' # Errored
        <5>1. answer' = CheckRunnerExitCodes(there) /\ answer' = Running
          BY <2>0, <3>1, <4>2, ExitCodesDecide DEF TypeOK, IsVerdict
        <5>2. there # {}
          BY <5>1 DEF CheckRunnerExitCodes
        <5>3. ~IsVerdict(Code)
          <6>1. there \in SUBSET Runners /\ ~IsVerdict(CheckRunnerExitCodes(there))
            BY <2>0, <3>1, <5>1 DEF TypeOK
          <6>2. \E p \in there : ~IsVerdict(StateOf(pods[p]))
            BY <2>0, <5>2, <6>1, ExitCodesDecide
          <6> QED BY <2>0, <6>1, <6>2, ExitCodesDecide DEF Code
        <5>4. AbstractState \in {"Ended", Errored}
          BY <2>0, <2>6, <3>1, <5>3 DEF IsVerdict
        <5> QED BY <2>4, <3>3, <5>1, <5>4 DEF Abstract!Remaining
      <4> QED BY <4>1, <4>2
    <3> QED BY <3>2, <3>3
  <2>8. CASE ReadLogs
    <3>1. answer' = verdict /\ Settled(verdict) /\ IsVerdict(verdict) /\ pc = "logs"
      BY <2>0, <2>8 DEF ReadLogs, VerdictInv
    <3>2. /\ IsVerdict(Code) => Runners # {} /\ \A p \in Runners : IsVerdict(StateOf(pods[p]))
          /\ Code = Passed => \A p \in Runners : StateOf(pods[p]) = Passed
          /\ Code = Failed => \E p \in Runners : StateOf(pods[p]) = Failed
      BY <2>0, ExitCodesDecide DEF Code
    <3>3. Code = Passed => verdict = Passed
      BY <3>1, <3>2 DEF Settled, IsVerdict
    <3>4. CASE there = Runners
      <4>1. IsVerdict(Code)
        <5>1. Runners # {}
          BY ParallelismAssumption DEF Runners
        <5>2. \A p \in Runners : IsVerdict(StateOf(pods[p]))
          BY <3>1, <3>4 DEF Settled
        <5> QED BY <2>0, <5>1, <5>2, ExitCodesDecide DEF Code
      <4>2. Code = verdict
        BY <3>1, <3>2, <3>4, <4>1 DEF Settled, IsVerdict
      <4> QED BY <2>1, <2>6, <3>1, <4>1, <4>2 DEF IsVerdict
    <3>5. CASE there # Runners
      BY <2>0, <2>4, <2>6, <3>1, <3>3, <3>5 DEF Abstract!Remaining, IsVerdict
    <3> QED BY <3>4, <3>5
  <2> QED BY <2>5, <2>7, <2>8
<1> QED BY <1>1, SpecIInv, PTL DEF Spec, AnswersLikeProvider

=============================================================================
