------------------------- MODULE MetricPlugin_proofs -------------------------
(***************************************************************************)
(* Proofs about the metric plugin, for every pool of runs, both backends,  *)
(* every set of faults, every retention limit and every bound: first what  *)
(* a success says, then which runs generate load, which CRs are left, and  *)
(* that it implements MetricContract.                                      *)
(***************************************************************************)
EXTENDS MetricPlugin, Provider_proofs

USE DEF Running, Passed, Failed, Errored, Aborted, Absent, Ended

(***************************************************************************)
(* The inductive invariant. The measurements of a reconciliation in        *)
(* progress are those in the status with the one in flight updated, or     *)
(* with a new one; and of both a success is of a run that passed, or lost  *)
(* a pod.                                                                  *)
(***************************************************************************)
SoundRuns == {r \in RunID : runState[r] = Passed} \cup incomplete

SoundIn(ms, runs) ==
  \A i \in DOMAIN ms : ms[i].phase = "Successful" => ms[i].runID \in runs

OneMeasured(ms) ==
  IF InFlight THEN Len(ms) = Len(measurements)
  ELSE Len(ms) = Len(measurements) + 1 /\ taken < MaxMeasurements

WorkInv ==
  /\ pc # "idle" => OneMeasured(work)
  /\ pc = "store" => Len(work) <= Limit

IInv ==
  /\ TypeOK /\ BackendInv /\ WorkInv
  /\ SoundIn(measurements, SoundRuns) /\ SoundIn(work, SoundRuns)

-----------------------------------------------------------------------------
(* The measurements.                                                       *)

LEMMA LastInFlight ==
  ASSUME TypeOK, InFlight
  PROVE  /\ Len(measurements) \in DOMAIN measurements
         /\ RunInFlight = measurements[Len(measurements)].runID
         /\ RunInFlight \in RunID
<1>1. Len(measurements) \in DOMAIN measurements
  BY DEF TypeOK, InFlight
<1>2. measurements[Len(measurements)] \in Measurement
  BY <1>1 DEF TypeOK
<1> QED BY <1>1, <1>2 DEF InFlight, RunInFlight, Last, Measurement

LEMMA Taken ==
  ASSUME TypeOK, NEW m \in Measurement
  PROVE  LET ms == Append(measurements, m)
         IN  /\ ms \in Seq(Measurement)
             /\ Len(ms) = Len(measurements) + 1
             /\ Last(ms) = m
             /\ \A i \in DOMAIN ms : ms[i] = m \/ (i \in DOMAIN measurements
                                                   /\ ms[i] = measurements[i])
BY DEF TypeOK, Last

LEMMA Updated ==
  ASSUME TypeOK, InFlight, NEW p \in {"Running", "Successful", "Failed", "Error"}
  PROVE  LET ms == [measurements EXCEPT ![Len(measurements)].phase = p]
         IN  /\ ms \in Seq(Measurement)
             /\ Len(ms) = Len(measurements)
             /\ DOMAIN ms = DOMAIN measurements
             /\ Last(ms).phase = p /\ Last(ms).runID = RunInFlight
             /\ \A i \in DOMAIN ms : ms[i].runID = measurements[i].runID
             /\ \A i \in DOMAIN ms : i # Len(ms) => ms[i] = measurements[i]
             /\ ms[Len(ms)].phase = p
<1> DEFINE n == Len(measurements)
           m == [measurements[n] EXCEPT !.phase = p]
           ms == [measurements EXCEPT ![n] = m]
<1>1. n \in DOMAIN measurements /\ RunInFlight = measurements[n].runID /\ RunInFlight \in RunID
  BY LastInFlight
<1>2. measurements[n] \in Measurement
  BY <1>1 DEF TypeOK
<1>3. m \in Measurement /\ m.phase = p /\ m.runID = measurements[n].runID
  BY <1>1, <1>2, NoRunAssumption DEF Measurement
<1> HIDE DEF m
<1>4. ms \in Seq(Measurement) /\ Len(ms) = n /\ DOMAIN ms = DOMAIN measurements
  BY <1>1, <1>3 DEF TypeOK
<1>5. /\ \A i \in DOMAIN ms : i # n => ms[i] = measurements[i]
      /\ ms[n] = m /\ Last(ms) = m
  BY <1>1, <1>4 DEF TypeOK, Last
<1>6. [measurements EXCEPT ![Len(measurements)].phase = p] = ms
  BY DEF m
<1> HIDE DEF ms
<1> QED BY <1>1, <1>3, <1>4, <1>5, <1>6

LEMMA RetainedAre ==
  ASSUME NEW ms \in Seq(Measurement)
  PROVE  /\ Retained(ms) \in Seq(Measurement)
         /\ Len(Retained(ms)) <= Limit /\ Len(Retained(ms)) <= Len(ms)
         /\ Len(ms) <= Limit => Retained(ms) = ms
         /\ \A i \in DOMAIN Retained(ms) : \E j \in DOMAIN ms : Retained(ms)[i] = ms[j]
         /\ ms # <<>> => Retained(ms) # <<>> /\ Last(Retained(ms)) = Last(ms)
<1>1. CASE Len(ms) <= Limit
  BY <1>1, LimitAssumption DEF Retained
<1>2. CASE Len(ms) > Limit
  <2> DEFINE k == Len(ms) - Limit
             rs == SubSeq(ms, k + 1, Len(ms))
  <2>1. Retained(ms) = rs
    BY <1>2, LimitAssumption DEF Retained
  <2>2. k \in Nat /\ Len(ms) \in Nat /\ k + Limit = Len(ms) /\ Limit > 0 /\ Limit \in Nat
    BY <1>2, LimitAssumption
  <2>3. /\ rs \in Seq(Measurement) /\ Len(rs) = Limit
        /\ \A i \in 1 .. Limit : rs[i] = ms[k + i]
    <3> HIDE DEF k
    <3> QED BY <2>2
  <2> HIDE DEF rs, k
  <2>4. \A i \in 1 .. Limit : k + i \in DOMAIN ms
    BY <2>2
  <2>5. Last(rs) = Last(ms) /\ rs # <<>>
    BY <2>2, <2>3 DEF Last
  <2> QED BY <1>2, <2>1, <2>2, <2>3, <2>4, <2>5
<1> QED BY <1>1, <1>2, LimitAssumption

-----------------------------------------------------------------------------
(* The inductive invariant holds.                                          *)

LEMMA InitIInv == Init => IInv
<1> SUFFICES ASSUME Init PROVE IInv
  OBVIOUS
<1>1. ProviderTypeOK /\ BackendInv
  BY DEF Init, ProviderTypeOK, BackendInv, Verdicts, RunState
<1>2. 0 \in 0 .. MaxMeasurements /\ 0 \in 0 .. MaxCrashes /\ 0 <= Limit
  BY BoundsAssumption, LimitAssumption
<1>3. TypeOK
  <2>1. /\ measurements = <<>> /\ work = <<>> /\ toClean = <<>> /\ Len(measurements) = 0
        /\ taken = 0 /\ crashes = 0
    BY DEF Init
  <2>2. /\ measurements \in Seq(Measurement) /\ work \in Seq(Measurement)
        /\ toClean \in Seq(RunID \cup {NoRun})
    BY <2>1
  <2>3. Len(measurements) <= Limit /\ taken \in Len(measurements) .. MaxMeasurements
        /\ crashes \in 0 .. MaxCrashes
    BY <1>2, <2>1
  <2> QED BY <1>1, <2>2, <2>3 DEF Init, TypeOK
<1> QED BY <1>1, <1>3 DEF Init, IInv, WorkInv, SoundIn

\* Verdicts stay, and with them what is sound.
LEMMA SoundStays ==
  ASSUME NEW ms \in Seq(Measurement), SoundIn(ms, SoundRuns),
         SoundRuns \subseteq SoundRuns'
  PROVE  SoundIn(ms, SoundRuns')
BY DEF SoundIn

LEMMA SoundRunsStay ==
  NothingStarts => SoundRuns \subseteq SoundRuns'
BY DEF NothingStarts, SoundRuns

\* The controller receives the measurements ms.
LEMMA ReturnKeepsIInv ==
  ASSUME IInv, NEW ms \in Seq(Measurement), pc = "idle", Return(ms),
         ProviderTypeOK', BackendInv',
         SoundRuns \subseteq SoundRuns',
         SoundIn(ms, SoundRuns'), OneMeasured(ms)
  PROVE  IInv'
<1>1. /\ work' = ms /\ pc' \in {"collect", "store"}
      /\ pc' = "store" => Len(ms) <= Limit
      /\ UNCHANGED <<analysisVars, toClean>>
  BY LimitAssumption DEF Return
<1>2. TypeOK'
  BY <1>1 DEF IInv, TypeOK, analysisVars
<1>3. WorkInv'
  BY <1>1 DEF WorkInv, OneMeasured, InFlight, analysisVars
<1>4. SoundIn(measurements, SoundRuns')
  BY SoundStays DEF IInv, TypeOK
<1> QED BY <1>1, <1>2, <1>3, <1>4 DEF IInv, analysisVars

\* Run adds a measurement.
LEMMA TakeKeepsIInv ==
  ASSUME IInv, MeasurementIsDue, NEW r \in RunID \cup {NoRun},
         NEW p \in {"Running", "Error"}, p = "Running" => r # NoRun,
         Take(r, p), ProviderTypeOK', BackendInv',
         SoundRuns \subseteq SoundRuns'
  PROVE  IInv'
<1> DEFINE m == [runID |-> r, phase |-> p]
           ms == Append(measurements, m)
<1>1. m \in Measurement /\ m.phase # "Successful"
  BY DEF Measurement
<1>2. SoundIn(measurements, SoundRuns')
  BY SoundStays DEF IInv, TypeOK
<1> HIDE DEF m
<1>3. ms \in Seq(Measurement) /\ OneMeasured(ms) /\ SoundIn(ms, SoundRuns')
  BY <1>1, <1>2, Taken DEF IInv, OneMeasured, MeasurementIsDue, SoundIn
<1>4. Return(ms) /\ pc = "idle"
  BY DEF Take, m, MeasurementIsDue
<1> HIDE DEF ms
<1> QED BY <1>3, <1>4, ReturnKeepsIInv

\* Resume and Terminate update the one in flight.
LEMMA UpdateKeepsIInv ==
  ASSUME IInv, pc = "idle", InFlight, NEW p \in {"Running", "Successful", "Failed", "Error"},
         Update(p), ProviderTypeOK', BackendInv',
         p = "Successful" => RunInFlight \in SoundRuns',
         SoundRuns \subseteq SoundRuns'
  PROVE  IInv'
<1> DEFINE ms == [measurements EXCEPT ![Len(measurements)].phase = p]
<1>1. /\ ms \in Seq(Measurement) /\ Len(ms) = Len(measurements)
      /\ DOMAIN ms = DOMAIN measurements
      /\ \A i \in DOMAIN ms : ms[i].runID = measurements[i].runID
      /\ \A i \in DOMAIN ms : i # Len(ms) => ms[i] = measurements[i]
      /\ ms[Len(ms)].phase = p
  BY Updated DEF IInv
<1>2. SoundIn(measurements, SoundRuns')
  BY SoundStays DEF IInv, TypeOK
<1>3. Return(ms)
  BY DEF Update
<1> HIDE DEF ms
<1>4. SoundIn(ms, SoundRuns')
  BY <1>1, <1>2, LastInFlight, NoRunAssumption DEF IInv, SoundIn
<1>5. OneMeasured(ms)
  BY <1>1 DEF OneMeasured
<1> QED BY <1>1, <1>3, <1>4, <1>5, ReturnKeepsIInv

LEMMA MeasureKeepsIInv == IInv /\ Measure => IInv'
<1> SUFFICES ASSUME IInv, Measure PROVE IInv'
  OBVIOUS
<1>0. ProviderTypeOK /\ BackendInv
  BY DEF IInv, TypeOK
<1>1. UNCHANGED providerVars => /\ ProviderTypeOK' /\ BackendInv' /\ SoundRuns' = SoundRuns
  BY <1>0, UnchangedEffect DEF NothingStarts, SoundRuns, providerVars
<1>2. CASE RunRejects
  BY <1>1, <1>2, TakeKeepsIInv DEF RunRejects
<1>3. CASE RunAttaches
  <2>1. cfg.testRunID \in RunID \cup {NoRun}
    BY ConfigsAssumption DEF IInv, TypeOK, ConfigType
  <2> QED BY <1>1, <1>3, <2>1, TakeKeepsIInv DEF RunAttaches
<1>4. CASE RunTriggers
  <2>1. PICK r \in RunID : TriggerRun(r) /\ Take(r, "Running")
    BY <1>4 DEF RunTriggers
  <2>2. /\ ProviderTypeOK' /\ BackendInv'
        /\ SoundRuns \subseteq SoundRuns'
    BY <1>0, <2>1, TriggerEffect DEF SoundRuns
  <2> QED BY <1>4, <2>1, <2>2, NoRunAssumption, TakeKeepsIInv DEF RunTriggers
<1>5. CASE RunTriggerFails
  <2>1. /\ ProviderTypeOK' /\ BackendInv'
        /\ SoundRuns \subseteq SoundRuns'
    <3>1. CASE \E r \in RunID : TriggerRun(r)
      BY <1>0, <3>1, TriggerEffect DEF SoundRuns
    <3> QED BY <1>1, <1>5, <3>1 DEF RunTriggerFails
  <2> QED BY <1>5, <2>1, TakeKeepsIInv DEF RunTriggerFails
<1>6. CASE Resume
  <2>1. PICK s \in GetRunResult(RunInFlight) :
          Update(IF cfg.value = "unsupported" THEN "Error" ELSE PhaseOf(s))
    BY <1>6 DEF Resume
  <2>2. RunInFlight \in RunID
    BY <1>6, LastInFlight DEF Resume, IInv
  <2>3. PhaseOf(s) \in {"Running", "Successful", "Failed", "Error"}
    BY DEF PhaseOf
  <2>4. PhaseOf(s) = "Successful" => RunInFlight \in SoundRuns
    BY <1>0, <2>1, <2>2, PollReports DEF PhaseOf, SoundRuns
  <2> DEFINE p == IF cfg.value = "unsupported" THEN "Error" ELSE PhaseOf(s)
  <2>5. p \in {"Running", "Successful", "Failed", "Error"} /\ Update(p)
        /\ (p = "Successful" => RunInFlight \in SoundRuns)
    BY <2>1, <2>3, <2>4
  <2> HIDE DEF p
  <2> QED BY <1>1, <1>6, <2>5, UpdateKeepsIInv DEF Resume
<1>7. CASE ResumeFails
  BY <1>1, <1>7, UpdateKeepsIInv DEF ResumeFails
<1>8. CASE Terminate
  <2>1. RunInFlight \in RunID
    BY <1>8, LastInFlight DEF Terminate, IInv
  <2>2. NothingStarts
    BY <1>0, <1>8, <2>1, StopAttemptEffect DEF Terminate
  <2>3. SoundRuns \subseteq SoundRuns'
    BY <2>2, SoundRunsStay
  <2> QED BY <1>8, <2>2, <2>3, UpdateKeepsIInv DEF Terminate, NothingStarts
<1> QED BY <1>2, <1>3, <1>4, <1>5, <1>6, <1>7, <1>8 DEF Measure

\* A step that leaves the measurements and the work as they are.
LEMMA QuietKeepsIInv ==
  ASSUME IInv, NothingStarts, UNCHANGED <<cfg, measurements, taken, done, work>>,
         terminating' \in BOOLEAN, crashes' = crashes,
         toClean' \in Seq(RunID \cup {NoRun}),
         pc' = pc \/ (pc = "collect" /\ pc' = "clean")
  PROVE  IInv'
<1>1. TypeOK'
  BY DEF IInv, TypeOK, NothingStarts
<1>2. WorkInv'
  BY DEF IInv, WorkInv, OneMeasured, InFlight
<1>3. SoundRuns \subseteq SoundRuns'
  BY SoundRunsStay
<1>4. SoundIn(measurements, SoundRuns') /\ SoundIn(work, SoundRuns')
  BY <1>3, SoundStays DEF IInv, TypeOK
<1> QED BY <1>1, <1>2, <1>4 DEF IInv, NothingStarts

\* The loop of GarbageCollect starts nothing.
LEMMA CleanNextEffect == IInv /\ CleanNext => NothingStarts
<1> SUFFICES ASSUME IInv, CleanNext PROVE NothingStarts
  OBVIOUS
<1>0. ProviderTypeOK /\ BackendInv /\ Head(toClean) \in RunID \cup {NoRun}
  BY DEF IInv, TypeOK, CleanNext
<1>1. CASE Head(toClean) = NoRun
  BY <1>0, <1>1, UnchangedEffect DEF CleanNext
<1>2. CASE Head(toClean) # NoRun
  BY <1>0, <1>2, CleanupEffect DEF CleanNext
<1> QED BY <1>1, <1>2

LEMMA StoreKeepsIInv == IInv /\ Store => IInv'
<1> SUFFICES ASSUME IInv, Store PROVE IInv'
  OBVIOUS
<1>1. /\ measurements' = Retained(work)
      /\ taken' = IF InFlight THEN taken ELSE taken + 1
      /\ pc' = "idle" /\ work' = <<>>
      /\ UNCHANGED <<cfg, terminating, done, crashes, toClean, providerVars>>
      /\ OneMeasured(work)
  BY DEF Store, IInv, WorkInv
<1>2. /\ measurements' \in Seq(Measurement) /\ Len(measurements') <= Limit
      /\ Len(measurements') <= Len(work)
      /\ \A i \in DOMAIN measurements' : \E j \in DOMAIN work : measurements'[i] = work[j]
  BY <1>1, RetainedAre DEF IInv, TypeOK
<1>3. taken' \in Len(measurements') .. MaxMeasurements
  <2>1. /\ Len(measurements) \in Nat /\ Len(measurements') \in Nat /\ Len(work) \in Nat
        /\ taken \in Len(measurements) .. MaxMeasurements
    BY <1>2 DEF IInv, TypeOK
  <2> QED BY <1>1, <1>2, <2>1, BoundsAssumption DEF OneMeasured
<1>4. TypeOK'
  BY <1>1, <1>2, <1>3 DEF IInv, TypeOK, ProviderTypeOK, providerVars
<1>5. SoundIn(measurements', SoundRuns) /\ SoundIn(work', SoundRuns) /\ SoundRuns' = SoundRuns
  BY <1>1, <1>2 DEF IInv, SoundIn, SoundRuns, providerVars
<1> QED BY <1>1, <1>4, <1>5 DEF IInv, WorkInv, BackendInv, providerVars

LEMMA NextIInv == IInv /\ [Next]_vars => IInv'
<1> SUFFICES ASSUME IInv, [Next]_vars PROVE IInv'
  OBVIOUS
<1>0. /\ ProviderTypeOK /\ BackendInv /\ terminating \in BOOLEAN
      /\ toClean \in Seq(RunID \cup {NoRun}) /\ work \in Seq(Measurement)
  BY DEF IInv, TypeOK
<1>1. UNCHANGED providerVars => NothingStarts
  BY <1>0, UnchangedEffect
<1>2. CASE Measure
  BY <1>2, MeasureKeepsIInv
<1>3. CASE GarbageCollect
  <2>1. toClean' \in Seq(RunID \cup {NoRun})
    BY <1>0, <1>3 DEF GarbageCollect, RunsToClean, Measurement
  <2> QED BY <1>1, <1>0, <1>3, <2>1, QuietKeepsIInv DEF GarbageCollect, analysisVars
<1>4. CASE CleanNext
  <2>1. toClean' \in Seq(RunID \cup {NoRun})
    BY <1>0, <1>4 DEF CleanNext
  <2> QED BY <1>0, <1>4, <2>1, CleanNextEffect, QuietKeepsIInv DEF CleanNext, analysisVars
<1>5. CASE Store
  BY <1>5, StoreKeepsIInv
<1>6. CASE AskToTerminate
  BY <1>0, <1>1, <1>6, QuietKeepsIInv DEF AskToTerminate, reconcileVars
<1>7. CASE Complete
  <2>1. SoundRuns' = SoundRuns
    BY <1>7 DEF Complete, SoundRuns, providerVars
  <2> QED
    BY <1>1, <1>7, <2>1 DEF Complete, reconcileVars, IInv, TypeOK, WorkInv, OneMeasured,
                            InFlight, NothingStarts, providerVars
<1>8. CASE ReconcileLost
  <2>1. crashes' \in 0 .. MaxCrashes
    BY <1>8, BoundsAssumption DEF ReconcileLost, IInv, TypeOK
  <2> QED
    BY <1>1, <1>8, <2>1 DEF ReconcileLost, IInv, TypeOK, WorkInv, SoundIn, SoundRuns,
                            NothingStarts, providerVars
<1>9. CASE Environment
  <2>1. NothingStarts
    BY <1>0, <1>9, RunMovesEffect DEF Environment, ProviderTypeOK
  <2> QED BY <1>0, <1>9, <2>1, QuietKeepsIInv DEF Environment, analysisVars, reconcileVars
<1>10. CASE UNCHANGED vars
  BY <1>0, <1>1, <1>10, QuietKeepsIInv DEF vars, analysisVars, reconcileVars
<1> QED BY <1>2, <1>3, <1>4, <1>5, <1>6, <1>7, <1>8, <1>9, <1>10 DEF Next, Collect

(* The inductive invariant holds: a success, stored or about to be, is    *)
(* that of its run.                                                        *)
THEOREM SpecIInv == Spec => []IInv
BY InitIInv, NextIInv, PTL DEF Spec

(* Every variable keeps its type: a measurement in flight has a run, and   *)
(* the controller is never left with more than it retains.                 *)
THEOREM TypeCorrect == Spec => []TypeOK
<1>1. IInv => TypeOK
  BY DEF IInv
<1> QED BY <1>1, SpecIInv, PTL

(* A measurement is Successful only if the run in its own metadata passed, *)
(* or had lost a runner pod when its pods were read.                       *)
THEOREM SuccessIsSound == Spec => []SuccessMeansPassed
<1>1. IInv => SuccessMeansPassed
  BY NoRunAssumption DEF IInv, TypeOK, ProviderTypeOK, SoundIn, SoundRuns, SuccessMeansPassed
<1> QED BY <1>1, SpecIInv, PTL

-----------------------------------------------------------------------------
(* The load on the service.                                                *)

(***************************************************************************)
(* The run r is that of the last measurement, which is in flight. While    *)
(* every run that generates load is watched, a new one is only triggered   *)
(* when there is none. Only a StopRun that fails leaves one unwatched, and *)
(* then no measurement follows.                                            *)
(***************************************************************************)
Watched(r) ==
  IF pc = "idle" THEN InFlight /\ RunInFlight = r
  ELSE Last(work).phase = "Running" /\ Last(work).runID = r

StopMayFail == "stopError" \in Faults /\ terminating

LoadInv ==
  ~MeasurementMayLoseRun =>
    /\ \A r1, r2 \in Loading : r1 = r2
    /\ StopMayFail \/ \A r \in Loading : Watched(r)
    /\ done => pc = "idle" /\ ~InFlight /\ (terminating \/ taken = MaxMeasurements)

LEMMA LoadingShrinks ==
  ASSUME NothingStarts, cfg' = cfg
  PROVE  Loading' \subseteq Loading /\ Triggered' \subseteq Triggered
BY DEF NothingStarts, Loading, Triggered

LEMMA InitLoadInv == Init => LoadInv
BY DEF Init, LoadInv, Loading, Triggered

\* The controller receives ms; done and terminating are as they were.
LEMMA ReturnKeepsLoadInv ==
  ASSUME LoadInv, NEW ms, Return(ms), ~MeasurementMayLoseRun, ~done,
         \A r1, r2 \in Loading' : r1 = r2,
         StopMayFail \/ \A r \in Loading' :
                           Last(ms).phase = "Running" /\ Last(ms).runID = r
  PROVE  LoadInv'
BY DEF Return, LoadInv, Watched, StopMayFail, analysisVars

LEMMA MeasureKeepsLoadInv == IInv /\ LoadInv /\ Measure => LoadInv'
<1> SUFFICES ASSUME IInv, LoadInv, Measure, ~MeasurementMayLoseRun PROVE LoadInv'
  BY DEF LoadInv, MeasurementMayLoseRun, Measure, RunRejects, RunAttaches, RunTriggers,
         RunTriggerFails, Resume, ResumeFails, Terminate, Take, Update, Return, analysisVars
<1>0. /\ TypeOK /\ ProviderTypeOK /\ BackendInv /\ pc = "idle" /\ cfg' = cfg
      /\ Faults \cap {"triggerLost", "pollError", "crash"} = {} /\ cfg.value # "unsupported"
  BY DEF IInv, TypeOK, Measure, MeasurementIsDue, RunRejects, RunAttaches, RunTriggers,
         RunTriggerFails, Resume, ResumeFails, Terminate, Take, Update, Return, analysisVars,
         MeasurementMayLoseRun
<1>1. ~done
  <2>1. MeasurementIsDue => taken # MaxMeasurements
    BY <1>0, BoundsAssumption DEF MeasurementIsDue, TypeOK
  <2>2. MeasurementIsDue \/ InFlight
    BY DEF Measure, RunRejects, RunAttaches, RunTriggers, RunTriggerFails,
           Resume, ResumeFails, Terminate
  <2> QED BY <2>1, <2>2 DEF LoadInv, MeasurementIsDue
<1>2. MeasurementIsDue => Loading = {}
  BY DEF LoadInv, MeasurementIsDue, Watched, StopMayFail
<1>3. UNCHANGED providerVars => Loading' = Loading
  BY <1>0 DEF providerVars, Loading, Triggered
<1>4. CASE MeasurementIsDue /\ UNCHANGED providerVars
           /\ \E r \in RunID \cup {NoRun}, p \in {"Running", "Error"} : Take(r, p)
  <2>1. Loading' = {}
    BY <1>2, <1>3, <1>4
  <2> QED BY <1>1, <1>4, <2>1, ReturnKeepsLoadInv DEF Take
<1>5. CASE RunTriggers
  <2>1. PICK r \in RunID : TriggerRun(r) /\ Take(r, "Running")
    BY <1>5 DEF RunTriggers
  <2>2. Loading' \subseteq {r}
    BY <1>0, <1>2, <1>5, <2>1, TriggerEffect DEF RunTriggers, Loading, Triggered
  <2> DEFINE m == [runID |-> r, phase |-> "Running"]
             ms == Append(measurements, m)
  <2>3. m \in Measurement /\ m.phase = "Running" /\ m.runID = r
    BY NoRunAssumption DEF Measurement
  <2>4. Return(ms)
    BY <2>1 DEF Take
  <2> HIDE DEF m
  <2>5. Last(ms) = m
    BY <1>0, <2>3, Taken
  <2> HIDE DEF ms
  <2> QED BY <1>1, <2>2, <2>3, <2>4, <2>5, ReturnKeepsLoadInv
<1>6. CASE Resume \/ ResumeFails \/ Terminate
  <2>1. InFlight /\ RunInFlight \in RunID
    BY <1>0, <1>6, LastInFlight DEF Resume, ResumeFails, Terminate
  <2>2. \A r1, r2 \in Loading : r1 = r2
    BY DEF LoadInv
  <2>3. StopMayFail \/ \A r \in Loading : r = RunInFlight
    BY <1>0 DEF LoadInv, Watched
  <2>4. \A p \in {"Running", "Successful", "Failed", "Error"} :
          /\ Update(p) /\ Loading' \subseteq Loading
          /\ StopMayFail \/ \A r \in Loading' : r = RunInFlight /\ p = "Running"
          => LoadInv'
    <3> SUFFICES ASSUME NEW p \in {"Running", "Successful", "Failed", "Error"},
                        Update(p), Loading' \subseteq Loading,
                        StopMayFail \/ \A r \in Loading' : r = RunInFlight /\ p = "Running"
                 PROVE  LoadInv'
      OBVIOUS
    <3> DEFINE ms == [measurements EXCEPT ![Len(measurements)].phase = p]
    <3>1. Return(ms) /\ Last(ms).phase = p /\ Last(ms).runID = RunInFlight
      BY <1>0, <2>1, Updated DEF Update
    <3> HIDE DEF ms
    <3>2. \A r1, r2 \in Loading' : r1 = r2
      BY <2>2
    <3> QED BY <1>1, <3>1, <3>2, ReturnKeepsLoadInv
  <2>5. CASE Resume
    <3>1. PICK s \in GetRunResult(RunInFlight) : Update(PhaseOf(s))
      BY <1>0, <2>5 DEF Resume
    <3>2. PhaseOf(s) \in {"Running", "Successful", "Failed", "Error"}
      BY DEF PhaseOf
    <3>3. runState[RunInFlight] = Running => s = Running
      BY <1>0, <2>1, PollReports
    <3>4. runState[RunInFlight] = Running => PhaseOf(s) = "Running"
      BY <3>3 DEF PhaseOf
    <3>5. ~StopMayFail
      BY <2>5 DEF Resume, StopMayFail
    <3>6. Loading' = Loading
      BY <1>3, <2>5 DEF Resume
    <3> QED BY <2>3, <2>4, <3>1, <3>2, <3>4, <3>5, <3>6 DEF Loading
  <2>6. CASE ResumeFails
    <3>1. runState[RunInFlight] # Running
      BY <1>0, <2>1, <2>6 DEF ResumeFails, GetRunResultMayFail, BackendInv
    <3> QED BY <1>3, <2>3, <2>4, <2>6, <3>1 DEF ResumeFails, Loading
  <2>7. CASE Terminate
    <3>1. Loading' \subseteq Loading
      BY <1>0, <2>1, <2>7, StopAttemptEffect, LoadingShrinks DEF Terminate
    <3>2. StopMayFail \/ RunInFlight \notin Loading'
      <4>1. CASE StopRun(RunInFlight)
        BY <1>0, <2>1, <4>1, StopRunEffect DEF Loading
      <4>2. CASE StopRunFails(RunInFlight)
        BY <1>0, <1>3, <2>1, <2>7, <4>2 DEF StopRunFails, Terminate, StopMayFail, Loading, BackendInv
      <4> QED BY <2>7, <4>1, <4>2 DEF Terminate
    <3>3. Update("Error")
      BY <2>7 DEF Terminate
    <3>4. StopMayFail \/ \A r \in Loading' : r = RunInFlight /\ "Error" = "Running"
      BY <2>3, <3>1, <3>2
    <3> QED BY <2>4, <3>1, <3>3, <3>4
  <2> QED BY <1>6, <2>5, <2>6, <2>7
<1>7. CASE RunRejects
  BY <1>4, <1>7 DEF RunRejects
<1>8. CASE RunAttaches
  BY <1>0, <1>4, <1>8, ConfigsAssumption DEF RunAttaches, TypeOK, ConfigType
<1>9. CASE RunTriggerFails
  BY <1>0, <1>4, <1>9 DEF RunTriggerFails
<1> QED BY <1>5, <1>6, <1>7, <1>8, <1>9 DEF Measure

\* A step that starts nothing and leaves what watches a run.
LEMMA QuietKeepsLoadInv ==
  ASSUME LoadInv, NothingStarts, UNCHANGED <<cfg, measurements, taken, done, work>>,
         terminating => terminating', pc' = pc \/ (pc = "collect" /\ pc' = "clean")
  PROVE  LoadInv'
<1> SUFFICES ASSUME ~MeasurementMayLoseRun PROVE LoadInv'
  BY DEF LoadInv, MeasurementMayLoseRun
<1>1. Loading' \subseteq Loading
  BY LoadingShrinks
<1>2. \A r \in Loading : Watched(r) => Watched(r)'
  BY DEF Watched, InFlight, RunInFlight
<1> QED BY <1>1, <1>2 DEF LoadInv, StopMayFail, InFlight

\* What the last of the retained measurements is.
LEMMA StoredAreWork ==
  ASSUME IInv, pc # "idle", measurements' = Retained(work)
  PROVE  measurements' # <<>> /\ Last(measurements') = Last(work)
<1>1. work # <<>>
  BY DEF IInv, TypeOK, WorkInv, OneMeasured, InFlight
<1> QED BY <1>1, RetainedAre DEF IInv, TypeOK

LEMMA StoreKeepsLoadInv == IInv /\ LoadInv /\ Store => LoadInv'
<1> SUFFICES ASSUME IInv, LoadInv, Store, ~MeasurementMayLoseRun PROVE LoadInv'
  BY DEF LoadInv, MeasurementMayLoseRun, Store
<1>1. /\ pc # "idle" /\ pc' = "idle" /\ measurements' = Retained(work)
      /\ UNCHANGED <<cfg, terminating, done, providerVars>>
  BY DEF Store
<1>2. measurements' # <<>> /\ Last(measurements') = Last(work)
  BY <1>1, StoredAreWork
<1>3. Loading' = Loading
  BY <1>1 DEF Loading, Triggered, providerVars
<1>4. \A r \in Loading : Watched(r) => Watched(r)'
  BY <1>1, <1>2 DEF Watched, InFlight, RunInFlight
<1> QED BY <1>1, <1>3, <1>4 DEF LoadInv, StopMayFail

LEMMA NextLoadInv == IInv /\ LoadInv /\ [Next]_vars => LoadInv'
<1> SUFFICES ASSUME IInv, LoadInv, [Next]_vars PROVE LoadInv'
  OBVIOUS
<1>0. ProviderTypeOK /\ BackendInv
  BY DEF IInv, TypeOK
<1>1. UNCHANGED providerVars => NothingStarts
  BY <1>0, UnchangedEffect
<1>2. CASE Measure
  BY <1>2, MeasureKeepsLoadInv
<1>3. CASE GarbageCollect
  BY <1>1, <1>3, QuietKeepsLoadInv DEF GarbageCollect, analysisVars
<1>4. CASE CleanNext
  BY <1>4, CleanNextEffect, QuietKeepsLoadInv DEF CleanNext, analysisVars
<1>5. CASE Store
  BY <1>5, StoreKeepsLoadInv
<1>6. CASE AskToTerminate
  BY <1>1, <1>6, QuietKeepsLoadInv DEF AskToTerminate, reconcileVars
<1>7. CASE Complete
  BY <1>7 DEF Complete, reconcileVars, providerVars, LoadInv, MeasurementMayLoseRun,
              Loading, Triggered, Watched, StopMayFail, InFlight, RunInFlight
<1>8. CASE ReconcileLost
  BY <1>8 DEF ReconcileLost, LoadInv, MeasurementMayLoseRun
<1>9. CASE Environment
  BY <1>0, <1>9, RunMovesEffect, QuietKeepsLoadInv
     DEF Environment, ProviderTypeOK, analysisVars, reconcileVars
<1>10. CASE UNCHANGED vars
  BY <1>1, <1>10, QuietKeepsLoadInv DEF vars, analysisVars, reconcileVars
<1> QED BY <1>2, <1>3, <1>4, <1>5, <1>6, <1>7, <1>8, <1>9, <1>10 DEF Next, Collect

(* Every run that generates load is watched by the last measurement.       *)
THEOREM SpecLoadInv == Spec => []LoadInv
BY InitLoadInv, NextLoadInv, SpecIInv, PTL DEF Spec

(* The next run is triggered when the one before it is over, unless a      *)
(* measurement may be finished while its run is in flight.                 *)
THEOREM LoadsDoNotOverlap == Spec => []OneLoadAtATime
<1>1. LoadInv => OneLoadAtATime
  BY DEF LoadInv, OneLoadAtATime
<1> QED BY <1>1, SpecLoadInv, PTL

(* An AnalysisRun that has ended leaves no load, provided StopRun works.   *)
THEOREM LoadEndsWithAnalysis == Spec => []NoRunLeftBehind
<1>1. LoadInv => NoRunLeftBehind
  BY DEF LoadInv, NoRunLeftBehind, StopMayFail, Watched
<1> QED BY <1>1, SpecLoadInv, PTL

-----------------------------------------------------------------------------
(* The CRs that are left.                                                  *)

(***************************************************************************)
(* What has still to be remembered or collected, at every point of a       *)
(* reconciliation: the runs that are left are among those of the           *)
(* measurements, then among those GarbageCollect has to go through. It     *)
(* goes through none when the configuration is rejected, but then no run   *)
(* was ever triggered.                                                     *)
(***************************************************************************)
Left == stored \cap Triggered

RunsOf(ms) == {ms[i].runID : i \in DOMAIN ms}

CollectionWorks ==
  Backend = K6Operator /\ Faults \cap {"triggerLost", "cleanupError", "crash"} = {}

CRInv ==
  CollectionWorks =>
    /\ pc = "idle" => Left \subseteq RunsOf(measurements)
    /\ pc \in {"collect", "store"} => Left \subseteq RunsOf(work)
    /\ pc = "clean" => Left \subseteq {toClean[i] : i \in DOMAIN toClean}
    /\ cfg.parsed = "invalid" => Triggered = {}

LEMMA InitCRInv == Init => CRInv
BY DEF Init, CRInv, Left, Triggered

\* What is left only shrinks unless a run is triggered.
LEMMA LeftShrinks ==
  ASSUME NothingStarts, stored' \subseteq stored, cfg' = cfg
  PROVE  Left' \subseteq Left /\ Triggered' \subseteq Triggered
BY LoadingShrinks DEF Left

LEMMA ReturnKeepsCRInv ==
  ASSUME NEW ms, Return(ms), Left' \subseteq RunsOf(ms),
         cfg.parsed = "invalid" => Triggered' = {}
  PROVE  CRInv'
BY DEF Return, CRInv, analysisVars

LEMMA MeasureKeepsCRInv == IInv /\ CRInv /\ Measure => CRInv'
<1> SUFFICES ASSUME IInv, CRInv, Measure, CollectionWorks PROVE CRInv'
  BY DEF CRInv, CollectionWorks
<1>0. /\ TypeOK /\ ProviderTypeOK /\ BackendInv /\ pc = "idle" /\ cfg' = cfg
      /\ "triggerLost" \notin Faults
  BY DEF IInv, TypeOK, Measure, MeasurementIsDue, RunRejects, RunAttaches, RunTriggers,
         RunTriggerFails, Resume, ResumeFails, Terminate, Take, Update, Return, analysisVars,
         CollectionWorks
<1>1. Left \subseteq RunsOf(measurements) /\ (cfg.parsed = "invalid" => Triggered = {})
  BY <1>0 DEF CRInv
<1>2. UNCHANGED providerVars => Left' = Left /\ Triggered' = Triggered
  BY <1>0 DEF providerVars, Left, Triggered
<1>3. ASSUME NEW r \in RunID \cup {NoRun}, NEW p \in {"Running", "Error"},
             p = "Running" => r # NoRun, Take(r, p), Left' \subseteq Left \cup {r},
             cfg.parsed = "invalid" => Triggered' = {}
      PROVE  CRInv'
  <2> DEFINE m == [runID |-> r, phase |-> p]
             ms == Append(measurements, m)
  <2>1. m \in Measurement /\ m.runID = r
    BY <1>3 DEF Measurement
  <2>2. Return(ms)
    BY <1>3 DEF Take
  <2> HIDE DEF m
  <2>3. RunsOf(measurements) \cup {r} \subseteq RunsOf(ms)
    <3>1. /\ measurements \in Seq(Measurement)
          /\ DOMAIN ms = DOMAIN measurements \cup {Len(measurements) + 1}
          /\ ms[Len(measurements) + 1] = m
          /\ \A i \in DOMAIN measurements : ms[i] = measurements[i]
      BY <1>0, <2>1 DEF TypeOK
    <3> HIDE DEF ms
    <3> QED BY <2>1, <3>1 DEF RunsOf
  <2> HIDE DEF ms
  <2> QED BY <1>1, <1>3, <2>2, <2>3, ReturnKeepsCRInv
<1>4. CASE MeasurementIsDue /\ UNCHANGED providerVars
           /\ \E r \in RunID \cup {NoRun}, p \in {"Running", "Error"} :
                (p = "Running" => r # NoRun) /\ Take(r, p)
  BY <1>1, <1>2, <1>3, <1>4
<1>5. CASE RunTriggers
  <2>1. PICK r \in RunID : TriggerRun(r) /\ Take(r, "Running")
    BY <1>5 DEF RunTriggers
  <2>2. Left' \subseteq Left \cup {r} /\ cfg.parsed # "invalid"
    BY <1>0, <1>5, <2>1 DEF RunTriggers, TriggerRun, ProviderTypeOK, Left, Triggered
  <2> QED BY <1>3, <2>1, <2>2, NoRunAssumption
<1>6. CASE Resume \/ ResumeFails \/ Terminate
  <2>1. InFlight /\ RunInFlight \in RunID
    BY <1>0, <1>6, LastInFlight DEF Resume, ResumeFails, Terminate
  <2>2. Left' \subseteq Left /\ Triggered' \subseteq Triggered
    <3>1. CASE UNCHANGED providerVars
      BY <1>2, <3>1
    <3>2. CASE StopRun(RunInFlight) \/ StopRunFails(RunInFlight)
      <4>1. stored' \subseteq stored
        BY <3>2 DEF StopRun, StopRunFails, DeleteCR, providerVars
      <4> QED BY <1>0, <2>1, <3>2, <4>1, StopAttemptEffect, LeftShrinks
    <3> QED BY <1>6, <3>1, <3>2 DEF Resume, ResumeFails, Terminate
  <2>3. PICK p \in {"Running", "Successful", "Failed", "Error"} : Update(p)
    BY <1>6 DEF Resume, ResumeFails, Terminate, PhaseOf
  <2> DEFINE ms == [measurements EXCEPT ![Len(measurements)].phase = p]
  <2>4. /\ Return(ms) /\ DOMAIN ms = DOMAIN measurements
        /\ \A i \in DOMAIN ms : ms[i].runID = measurements[i].runID
    BY <1>0, <2>1, <2>3, Updated DEF Update
  <2> HIDE DEF ms
  <2>5. RunsOf(ms) = RunsOf(measurements)
    BY <2>4 DEF RunsOf
  <2> QED BY <1>1, <2>2, <2>4, <2>5, ReturnKeepsCRInv
<1>7. CASE RunRejects
  BY <1>4, <1>7 DEF RunRejects
<1>8. CASE RunAttaches
  BY <1>0, <1>4, <1>8, ConfigsAssumption DEF RunAttaches, TypeOK, ConfigType
<1>9. CASE RunTriggerFails
  BY <1>0, <1>4, <1>9 DEF RunTriggerFails
<1> QED BY <1>5, <1>6, <1>7, <1>8, <1>9 DEF Measure

\* A step that neither measures nor collects.
LEMMA QuietKeepsCRInv ==
  ASSUME CRInv, NothingStarts, stored' \subseteq stored,
         UNCHANGED <<cfg, measurements, pc, work, toClean>>
  PROVE  CRInv'
BY LeftShrinks DEF CRInv, RunsOf

LEMMA CollectKeepsCRInv == IInv /\ CRInv /\ Collect => CRInv'
<1> SUFFICES ASSUME IInv, CRInv, Collect, CollectionWorks PROVE CRInv'
  BY DEF CRInv, CollectionWorks
<1>0. TypeOK /\ ProviderTypeOK /\ BackendInv
  BY DEF IInv, TypeOK
<1>1. CASE GarbageCollect
  <2>1. Left \subseteq RunsOf(work) /\ (cfg.parsed = "invalid" => Left = {})
    BY <1>1 DEF GarbageCollect, CRInv, Left
  <2>2. cfg.parsed \in {"valid", "invalid"}
    BY <1>0, ConfigsAssumption DEF TypeOK, ConfigType
  <2>3. DOMAIN RunsToClean = DOMAIN work /\ \A i \in DOMAIN work : RunsToClean[i] = work[i].runID
    BY <1>0 DEF TypeOK, RunsToClean
  <2>4. Left \subseteq {toClean'[i] : i \in DOMAIN toClean'}
    <3>1. CASE cfg.parsed = "valid"
      BY <1>1, <2>1, <2>3, <3>1 DEF GarbageCollect, RunsOf
    <3> QED BY <2>1, <2>2, <3>1
  <2>5. Left' = Left /\ Triggered' = Triggered /\ pc' = "clean" /\ cfg' = cfg
    BY <1>1 DEF GarbageCollect, analysisVars, providerVars, Left, Triggered
  <2> QED BY <2>4, <2>5 DEF CRInv
<1>2. CASE CleanNext
  <2> DEFINE h == Head(toClean)
  <2>1. /\ toClean \in Seq(RunID \cup {NoRun}) /\ toClean # <<>> /\ toClean' = Tail(toClean)
        /\ pc = "clean" /\ UNCHANGED <<analysisVars, pc, work>> /\ h \in RunID \cup {NoRun}
    BY <1>0, <1>2 DEF CleanNext, TypeOK
  <2>2. stored' \subseteq stored /\ (h \in RunID => h \notin stored')
    <3>1. CASE h = NoRun
      BY <1>2, <3>1, NoRunAssumption DEF CleanNext, providerVars
    <3>2. CASE h # NoRun
      BY <1>2, <3>2 DEF CleanNext, CollectionWorks, Cleanup, CleanupFails, DeleteCR, providerVars
    <3> QED BY <3>1, <3>2
  <2>3. Left' \subseteq Left /\ Triggered' \subseteq Triggered
    BY <1>2, <2>1, <2>2, CleanNextEffect, LeftShrinks DEF analysisVars
  <2>4. Left \subseteq {toClean[i] : i \in DOMAIN toClean}
    BY <2>1 DEF CRInv
  <2>5. \A i \in DOMAIN toClean :
          toClean[i] = h \/ \E j \in DOMAIN toClean' : toClean'[j] = toClean[i]
    <3>0. toClean[1] = h
      BY <2>1
    <3> HIDE DEF h
    <3>1. SUFFICES ASSUME NEW i \in DOMAIN toClean, i # 1
                   PROVE  i - 1 \in DOMAIN toClean' /\ toClean'[i - 1] = toClean[i]
      BY <3>0
    <3>2. Len(toClean) \in Nat /\ i \in 1 .. Len(toClean) /\ Len(toClean') = Len(toClean) - 1
      BY <2>1
    <3>3. i - 1 \in 1 .. Len(toClean')
      BY <3>1, <3>2
    <3>4. toClean'[i - 1] = toClean[(i - 1) + 1]
      BY <2>1, <3>3
    <3>5. DOMAIN toClean' = 1 .. Len(toClean')
      BY <2>1
    <3> QED BY <3>2, <3>3, <3>4, <3>5
  <2>6. Left' \subseteq {toClean'[i] : i \in DOMAIN toClean'}
    <3> SUFFICES ASSUME NEW r \in Left' PROVE r \in {toClean'[i] : i \in DOMAIN toClean'}
      OBVIOUS
    <3>1. r \in RunID /\ r \in stored' /\ r # h
      BY <2>2 DEF Left, Triggered
    <3> HIDE DEF h
    <3> QED BY <2>3, <2>4, <2>5, <3>1
  <2> QED BY <2>1, <2>3, <2>6 DEF CRInv, analysisVars
<1>3. CASE Store
  <2>1. Left' = Left /\ Triggered' = Triggered
    BY <1>3 DEF Store, providerVars, Left, Triggered
  <2>2. Left \subseteq RunsOf(measurements')
    <3>1. CASE pc = "store"
      <4>1. measurements' = work
        BY <1>0, <1>3, <3>1, RetainedAre DEF Store, IInv, TypeOK, WorkInv
      <4> QED BY <3>1, <4>1 DEF CRInv
    <3>2. CASE pc = "clean" /\ toClean = <<>>
      BY <3>2 DEF CRInv
    <3> QED BY <1>3, <3>1, <3>2 DEF Store
  <2> QED BY <1>3, <2>1, <2>2 DEF Store, CRInv, RunsOf
<1> QED BY <1>1, <1>2, <1>3 DEF Collect

LEMMA NextCRInv == IInv /\ CRInv /\ [Next]_vars => CRInv'
<1> SUFFICES ASSUME IInv, CRInv, [Next]_vars PROVE CRInv'
  OBVIOUS
<1>0. ProviderTypeOK /\ BackendInv
  BY DEF IInv, TypeOK
<1>1. UNCHANGED providerVars => NothingStarts /\ stored' \subseteq stored
  BY <1>0, UnchangedEffect DEF providerVars
<1>2. CASE Measure
  BY <1>2, MeasureKeepsCRInv
<1>3. CASE Collect
  BY <1>3, CollectKeepsCRInv
<1>4. CASE AskToTerminate \/ Complete
  BY <1>1, <1>4, QuietKeepsCRInv DEF AskToTerminate, Complete, reconcileVars
<1>5. CASE ReconcileLost
  BY <1>5 DEF ReconcileLost, CRInv, CollectionWorks
<1>6. CASE Environment
  <2>1. PICK r \in RunID : RunEnds(r) \/ RunVanishes(r) \/ PodsLost(r)
    BY <1>0, <1>6 DEF Environment, ProviderTypeOK
  <2>2. NothingStarts /\ stored' \subseteq stored
    BY <1>0, <2>1, RunMovesEffect DEF RunEnds, RunVanishes, PodsLost
  <2> QED BY <1>6, <2>2, QuietKeepsCRInv DEF Environment, analysisVars, reconcileVars
<1>7. CASE UNCHANGED vars
  BY <1>1, <1>7, QuietKeepsCRInv DEF vars, analysisVars, reconcileVars
<1> QED BY <1>2, <1>3, <1>4, <1>5, <1>6, <1>7 DEF Next

(* Every run that is left is remembered, or still to be collected.         *)
THEOREM SpecCRInv == Spec => []CRInv
BY InitCRInv, NextCRInv, SpecIInv, PTL DEF Spec

(* A CR whose measurement is no longer retained was collected.             *)
THEOREM CRsAreRemembered == Spec => []NoCRForgotten
<1>1. CRInv => NoCRForgotten
  BY DEF CRInv, NoCRForgotten, CollectionWorks, Left, RunsOf, RememberedRuns
<1> QED BY <1>1, SpecCRInv, PTL

-----------------------------------------------------------------------------
(* The refinement of MetricContract.                                       *)

(***************************************************************************)
(* What a reconciliation in progress will store is a step of the contract; *)
(* the run it adds is not one of the measurements', because those that the *)
(* metric triggered are no longer absent.                                  *)
(***************************************************************************)
Adds(r) ==
  /\ work = Append(measurements, [runID |-> r, phase |-> "Running"])
  /\ IF cfg.testRunID = NoRun
     THEN runState[r] # Absent /\ \A i \in DOMAIN measurements : measurements[i].runID # r
     ELSE r = cfg.testRunID

Finishes(p) ==
  /\ work = [measurements EXCEPT ![Len(measurements)].phase = p]
  /\ p = "Successful" => runState[RunInFlight] = Passed \/ RunInFlight \in incomplete
  /\ p = "Failed" => runState[RunInFlight] = Failed \/ RunInFlight \in incomplete

WorkFollows ==
  IF InFlight THEN \E p \in {"Running", "Successful", "Failed", "Error"} : Finishes(p)
  ELSE \/ work = Append(measurements, [runID |-> NoRun, phase |-> "Error"])
       \/ \E r \in RunID : Adds(r)

ContractInv ==
  /\ cfg.testRunID = NoRun =>
       \A i \in DOMAIN measurements :
         measurements[i].runID # NoRun => runState[measurements[i].runID] # Absent
  /\ pc # "idle" => WorkFollows

LEMMA InitContractInv == Init => ContractInv
BY DEF Init, ContractInv

\* The backend moves, and no measurement is made.
LEMMA MovesKeepContractInv ==
  ASSUME TypeOK, ContractInv, UNCHANGED <<cfg, measurements, work>>, pc = "idle" => pc' = "idle",
         incomplete \subseteq incomplete',
         \A r \in RunID : /\ runState[r] \in {Passed, Failed} => runState'[r] = runState[r]
                          /\ runState[r] # Absent => runState'[r] # Absent
  PROVE  ContractInv'
<1>1. \A i \in DOMAIN measurements : measurements[i].runID \in RunID \cup {NoRun}
  BY DEF TypeOK, Measurement
<1>2. WorkFollows => WorkFollows'
  <2>1. InFlight => RunInFlight \in RunID
    BY LastInFlight
  <2>2. \A p \in {"Running", "Successful", "Failed", "Error"} :
          InFlight /\ Finishes(p) => Finishes(p)'
    BY <2>1 DEF Finishes, RunInFlight
  <2>3. \A r \in RunID : Adds(r) => Adds(r)'
    BY DEF Adds
  <2> QED BY <2>2, <2>3 DEF WorkFollows, InFlight
<1>3. cfg'.testRunID = NoRun =>
        \A i \in DOMAIN measurements' :
          measurements'[i].runID # NoRun => runState'[measurements'[i].runID] # Absent
  BY <1>1 DEF ContractInv
<1> QED BY <1>2, <1>3 DEF ContractInv

LEMMA NothingStartsMoves ==
  NothingStarts =>
    /\ incomplete \subseteq incomplete'
    /\ \A r \in RunID : /\ runState[r] \in {Passed, Failed} => runState'[r] = runState[r]
                        /\ runState[r] # Absent => runState'[r] # Absent
BY DEF NothingStarts

\* The runs of the measurements stay known when the controller gets new work.
LEMMA ReturnKeepsContractInv ==
  ASSUME TypeOK, ContractInv, NEW ms, Return(ms), WorkFollows',
         \A r \in RunID : runState[r] # Absent => runState'[r] # Absent
  PROVE  ContractInv'
<1>1. \A i \in DOMAIN measurements : measurements[i].runID \in RunID \cup {NoRun}
  BY DEF TypeOK, Measurement
<1> QED BY <1>1 DEF ContractInv, Return, analysisVars

LEMMA MeasureKeepsContractInv == IInv /\ ContractInv /\ Measure => ContractInv'
<1> SUFFICES ASSUME IInv, ContractInv, Measure PROVE ContractInv'
  OBVIOUS
<1>0. TypeOK /\ ProviderTypeOK /\ BackendInv
  BY DEF IInv, TypeOK
<1>1. \A r \in RunID : runState[r] # Absent => runState'[r] # Absent
  <2>1. CASE UNCHANGED providerVars
    BY <2>1 DEF providerVars
  <2>2. CASE \E r \in RunID : TriggerRun(r)
    BY <1>0, <2>2, TriggerEffect
  <2>3. CASE Terminate
    BY <1>0, <2>3, LastInFlight, StopAttemptEffect, NothingStartsMoves DEF Terminate
  <2> QED BY <2>1, <2>2, <2>3 DEF Measure, RunRejects, RunAttaches, RunTriggers,
                                  RunTriggerFails, Resume, ResumeFails
<1>2. ASSUME NEW r \in RunID, Take(r, "Running"), MeasurementIsDue,
             IF cfg.testRunID = NoRun THEN runState[r] = Absent /\ runState'[r] # Absent
             ELSE r = cfg.testRunID
      PROVE  ContractInv'
  <2>1. \A i \in DOMAIN measurements : cfg.testRunID = NoRun => measurements[i].runID # r
    BY <1>2, NoRunAssumption DEF ContractInv
  <2>2. Adds(r)'
    BY <1>2, <2>1 DEF Take, Return, analysisVars, Adds
  <2>3. WorkFollows' /\ Return(Append(measurements, [runID |-> r, phase |-> "Running"]))
    BY <1>2, <2>2 DEF MeasurementIsDue, Take, Return, analysisVars, WorkFollows, InFlight
  <2> QED BY <1>0, <1>1, <2>3, ReturnKeepsContractInv
<1>3. ASSUME Take(NoRun, "Error"), MeasurementIsDue
      PROVE  ContractInv'
  <2>1. WorkFollows' /\ Return(Append(measurements, [runID |-> NoRun, phase |-> "Error"]))
    BY <1>3 DEF MeasurementIsDue, Take, Return, analysisVars, WorkFollows, InFlight
  <2> QED BY <1>0, <1>1, <2>1, ReturnKeepsContractInv
<1>4. ASSUME NEW p \in {"Running", "Successful", "Failed", "Error"}, InFlight, Update(p),
             p = "Successful" => runState'[RunInFlight] = Passed \/ RunInFlight \in incomplete',
             p = "Failed" => runState'[RunInFlight] = Failed \/ RunInFlight \in incomplete'
      PROVE  ContractInv'
  <2>1. UNCHANGED <<cfg, measurements>>
        /\ work' = [measurements EXCEPT ![Len(measurements)].phase = p]
    BY <1>4 DEF Update, Return, analysisVars
  <2>2. Finishes(p)'
    BY <1>4, <2>1 DEF Finishes, RunInFlight
  <2>3. WorkFollows'
    BY <1>4, <2>1, <2>2 DEF WorkFollows, InFlight
  <2> QED BY <1>0, <1>1, <1>4, <2>3, ReturnKeepsContractInv DEF Update
<1>5. CASE RunTriggers
  BY <1>0, <1>2, <1>5, TriggerEffect DEF RunTriggers
<1>6. CASE RunAttaches
  BY <1>0, <1>2, <1>6, ConfigsAssumption DEF RunAttaches, TypeOK, ConfigType
<1>7. CASE RunRejects \/ RunTriggerFails
  BY <1>3, <1>7 DEF RunRejects, RunTriggerFails
<1>8. CASE Resume
  <2>1. PICK s \in GetRunResult(RunInFlight) :
          Update(IF cfg.value = "unsupported" THEN "Error" ELSE PhaseOf(s))
    BY <1>8 DEF Resume
  <2>2. RunInFlight \in RunID /\ UNCHANGED <<runState, incomplete>> /\ InFlight
    BY <1>0, <1>8, LastInFlight DEF Resume, providerVars
  <2> DEFINE p == IF cfg.value = "unsupported" THEN "Error" ELSE PhaseOf(s)
  <2>3. /\ p \in {"Running", "Successful", "Failed", "Error"}
        /\ p = "Successful" => s = Passed
        /\ p = "Failed" => s = Failed
    BY DEF PhaseOf
  <2>4. s \in {Passed, Failed} => runState[RunInFlight] = s \/ RunInFlight \in incomplete
    BY <1>0, <2>1, <2>2, PollReports
  <2>5. Update(p)
    BY <2>1
  <2> HIDE DEF p
  <2> QED BY <1>4, <2>2, <2>3, <2>4, <2>5
<1>9. CASE ResumeFails \/ Terminate
  BY <1>4, <1>9 DEF ResumeFails, Terminate
<1> QED BY <1>5, <1>6, <1>7, <1>8, <1>9 DEF Measure

LEMMA StoreKeepsContractInv == IInv /\ ContractInv /\ Store => ContractInv'
<1> SUFFICES ASSUME IInv, ContractInv, Store, cfg.testRunID = NoRun,
                    NEW i \in DOMAIN measurements', measurements'[i].runID # NoRun
             PROVE  runState[measurements'[i].runID] # Absent
  BY DEF Store, ContractInv, providerVars
<1>1. TypeOK /\ work \in Seq(Measurement) /\ pc # "idle" /\ measurements' = Retained(work)
  BY DEF IInv, TypeOK, Store
<1>2. PICK j \in DOMAIN work : measurements'[i] = work[j]
  BY <1>1, RetainedAre
<1>3. \A k \in DOMAIN measurements :
        measurements[k].runID # NoRun => runState[measurements[k].runID] # Absent
  BY DEF ContractInv
<1>4. WorkFollows
  BY <1>1 DEF ContractInv
<1>5. CASE InFlight
  <2>1. PICK p \in {"Running", "Successful", "Failed", "Error"} : Finishes(p)
    BY <1>4, <1>5 DEF WorkFollows
  <2>2. j \in DOMAIN measurements /\ work[j].runID = measurements[j].runID
    BY <1>1, <1>5, <2>1, Updated DEF Finishes
  <2> QED BY <1>2, <1>3, <2>2
<1>6. CASE ~InFlight
  <2>1. PICK m \in Measurement :
          /\ work = Append(measurements, m)
          /\ m.runID # NoRun => runState[m.runID] # Absent
    <3>1. CASE work = Append(measurements, [runID |-> NoRun, phase |-> "Error"])
      BY <3>1 DEF Measurement
    <3>2. CASE \E r \in RunID : Adds(r)
      BY <3>2, NoRunAssumption DEF Adds, Measurement
    <3> QED BY <1>4, <1>6, <3>1, <3>2 DEF WorkFollows
  <2>2. work[j] = m \/ (j \in DOMAIN measurements /\ work[j] = measurements[j])
    BY <1>1, <2>1, Taken
  <2> QED BY <1>2, <1>3, <2>1, <2>2
<1> QED BY <1>5, <1>6

\* Of all other steps it asks only what they leave alone.
LEMMA OthersAreQuiet ==
  IInv /\ [Next]_vars /\ ~Measure /\ ~Store =>
    /\ UNCHANGED <<cfg, measurements>>
    /\ (work' = work /\ (pc = "idle" => pc' = "idle")) \/ pc' = "idle"
    /\ NothingStarts
<1> SUFFICES ASSUME IInv, [Next]_vars, ~Measure, ~Store
             PROVE  /\ UNCHANGED <<cfg, measurements>>
                    /\ (work' = work /\ (pc = "idle" => pc' = "idle")) \/ pc' = "idle"
                    /\ NothingStarts
  OBVIOUS
<1>0. ProviderTypeOK /\ BackendInv
  BY DEF IInv, TypeOK
<1>1. UNCHANGED providerVars => NothingStarts
  BY <1>0, UnchangedEffect
<1>2. CASE GarbageCollect \/ AskToTerminate \/ Complete \/ ReconcileLost \/ UNCHANGED vars
  BY <1>1, <1>2 DEF GarbageCollect, AskToTerminate, Complete, ReconcileLost,
                    vars, analysisVars, reconcileVars
<1>3. CASE CleanNext
  BY <1>3, CleanNextEffect DEF CleanNext, analysisVars
<1>4. CASE Environment
  BY <1>0, <1>4, RunMovesEffect DEF Environment, ProviderTypeOK, analysisVars, reconcileVars
<1> QED BY <1>2, <1>3, <1>4 DEF Next, Collect

LEMMA NextContractInv == IInv /\ ContractInv /\ [Next]_vars => ContractInv'
<1> SUFFICES ASSUME IInv, ContractInv, [Next]_vars PROVE ContractInv'
  OBVIOUS
<1>0. TypeOK
  BY DEF IInv
<1>1. CASE Measure
  BY <1>1, MeasureKeepsContractInv
<1>2. CASE Store
  BY <1>2, StoreKeepsContractInv
<1>3. CASE ~Measure /\ ~Store
  <2>1. /\ UNCHANGED <<cfg, measurements>>
        /\ (work' = work /\ (pc = "idle" => pc' = "idle")) \/ pc' = "idle"
        /\ \A r \in RunID : /\ runState[r] \in {Passed, Failed} => runState'[r] = runState[r]
                            /\ runState[r] # Absent => runState'[r] # Absent
        /\ incomplete \subseteq incomplete'
    BY <1>3, OthersAreQuiet, NothingStartsMoves
  <2>2. CASE work' = work /\ (pc = "idle" => pc' = "idle")
    BY <1>0, <2>1, <2>2, MovesKeepContractInv
  <2>3. CASE pc' = "idle"
    <3>1. \A i \in DOMAIN measurements : measurements[i].runID \in RunID \cup {NoRun}
      BY <1>0 DEF TypeOK, Measurement
    <3> QED BY <2>1, <2>3, <3>1 DEF ContractInv
  <2> QED BY <2>1, <2>2, <2>3
<1> QED BY <1>1, <1>2, <1>3

(* What a reconciliation will store is a step of the contract.             *)
THEOREM SpecContractInv == Spec => []ContractInv
BY InitContractInv, NextContractInv, SpecIInv, PTL DEF Spec

\* Storing the work is a step of the contract.
LEMMA StoreIsContract ==
  IInv /\ ContractInv /\ Store => [Contract!Next]_(Contract!vars)
<1> SUFFICES ASSUME IInv, ContractInv, Store
             PROVE  Contract!Next \/ UNCHANGED Contract!vars
  OBVIOUS
<1>1. /\ TypeOK /\ work \in Seq(Measurement) /\ pc # "idle" /\ measurements' = Retained(work)
      /\ UNCHANGED <<cfg, runState, stored, incomplete>>
      /\ Len(measurements) <= Limit /\ measurements \in Seq(Measurement)
  BY DEF IInv, TypeOK, Store, providerVars
<1> DEFINE outcome == [r \in RunID |-> IF runState[r] = Ended THEN Running ELSE runState[r]]
<1>2. outcome' = outcome
  BY <1>1
<1>3. InFlight <=> Contract!InFlight
  BY DEF InFlight, Contract!InFlight, Last
<1>4. WorkFollows
  BY <1>1 DEF ContractInv
<1>5. CASE InFlight
  <2>1. PICK p \in {"Running", "Successful", "Failed", "Error"} : Finishes(p)
    BY <1>4, <1>5 DEF WorkFollows
  <2>2. Len(work) = Len(measurements)
    BY <1>1, <1>5, <2>1, Updated DEF Finishes
  <2>3. measurements' = [measurements EXCEPT ![Len(measurements)].phase = p]
    BY <1>1, <2>1, <2>2, RetainedAre DEF Finishes
  <2>4. RunInFlight \in RunID /\ RunInFlight = measurements[Len(measurements)].runID
        /\ Len(measurements) \in DOMAIN measurements
    BY <1>1, <1>5, LastInFlight
  <2>5. CASE p = "Running"
    <3>1. measurements[Len(measurements)].phase = "Running"
          /\ measurements[Len(measurements)] \in Measurement
      BY <1>1, <1>5, <2>4 DEF InFlight, Last
    <3> DEFINE m == measurements[Len(measurements)]
    <3>2. [m EXCEPT !.phase = p] = m
      BY <2>5, <3>1 DEF Measurement
    <3>3. measurements' = [measurements EXCEPT ![Len(measurements)] = m]
      BY <2>3, <3>2
    <3>4. measurements' = measurements
      BY <1>1, <2>4, <3>3
    <3> QED BY <1>1, <1>2, <3>4 DEF Contract!vars
  <2>6. CASE p # "Running"
    <3>1. Contract!Speaks(measurements[Len(measurements)].runID, p)
      BY <2>1, <2>4 DEF Finishes, Contract!Speaks
    <3>2. Contract!Finish(p)
      BY <1>1, <1>2, <1>3, <1>5, <2>3, <3>1 DEF Contract!Finish
    <3> QED BY <2>1, <2>6, <3>2 DEF Contract!Next
  <2> QED BY <2>5, <2>6
<1>6. CASE ~InFlight
  <2>1. ASSUME NEW m \in Measurement, work = Append(measurements, m)
        PROVE  Contract!Add(m)
    <3>1. CASE Len(work) <= Limit
      <4>1. measurements' = work /\ ~(Len(work) > Limit)
        BY <1>1, <3>1, RetainedAre, LimitAssumption
      <4> QED BY <2>1, <4>1 DEF Contract!Add
    <3>2. CASE Len(work) > Limit
      <4>1. Len(work) = Limit + 1 /\ Limit \in Nat /\ work # <<>>
        BY <1>1, <2>1, <3>2, LimitAssumption
      <4>2. Retained(work) = SubSeq(work, 2, Len(work))
        BY <3>2, <4>1 DEF Retained
      <4>3. Retained(work) = Tail(work)
        BY <1>1, <4>1, <4>2
      <4> QED BY <1>1, <2>1, <3>2, <4>3 DEF Contract!Add
    <3> QED BY <1>1, <3>1, <3>2, LimitAssumption
  <2>2. CASE work = Append(measurements, [runID |-> NoRun, phase |-> "Error"])
    <3>1. Contract!Add([runID |-> NoRun, phase |-> "Error"])
      BY <2>1, <2>2 DEF Measurement
    <3> QED BY <1>1, <1>2, <1>3, <1>6, <3>1 DEF Contract!Refuse, Contract!Next
  <2>3. CASE \E r \in RunID : Adds(r)
    <3>1. PICK r \in RunID : Adds(r)
      BY <2>3
    <3>2. Contract!Add([runID |-> r, phase |-> "Running"])
      BY <2>1, <3>1, NoRunAssumption DEF Measurement, Adds
    <3>3. Contract!Begin(r)
      BY <1>1, <1>2, <1>3, <1>6, <3>1, <3>2 DEF Contract!Begin, Adds
    <3> QED BY <3>3 DEF Contract!Next
  <2> QED BY <1>4, <1>6, <2>2, <2>3 DEF WorkFollows
<1> QED BY <1>5, <1>6

\* In all other steps only the runs move.
LEMMA RunsMoveIsContract ==
  ASSUME UNCHANGED <<cfg, measurements>>, ProviderTypeOK,
         ProviderTypeOK', incomplete \subseteq incomplete',
         \A r \in RunID : /\ runState[r] \notin {Absent, Running, Ended} => runState'[r] = runState[r]
                          /\ runState[r] # Absent => runState'[r] # Absent
  PROVE  Contract!Next
<1> DEFINE outcome == [r \in RunID |-> IF runState[r] = Ended THEN Running ELSE runState[r]]
<1>1. outcome' \in [RunID -> {"Absent", "Running"} \cup Contract!Verdicts]
  BY DEF ProviderTypeOK, RunState, Contract!Verdicts
<1>2. \A r \in RunID :
        /\ outcome[r] \in Contract!Verdicts => outcome'[r] = outcome[r]
        /\ outcome'[r] = "Absent" => outcome[r] = "Absent"
  BY DEF ProviderTypeOK, RunState, Contract!Verdicts
<1> QED BY <1>1, <1>2 DEF ProviderTypeOK, Contract!RunsMove, Contract!Next

(* A reader of the AnalysisRun sees one measurement at a time, each of a   *)
(* run of its own, finished once with the verdict of that run, or of the   *)
(* pods that are left of it, or with an error.                             *)
THEOREM MetricImplementsContract == Spec => ImplementsContract
<1>1. Init => Contract!Init
  <2> SUFFICES ASSUME Init PROVE Contract!Init
    OBVIOUS
  <2>1. cfg.testRunID \in RunID \cup {NoRun}
    BY ConfigsAssumption DEF Init, ConfigType
  <2> QED BY <2>1 DEF Init, Contract!Init, Contract!Verdicts, Verdicts
<1>2. IInv /\ IInv' /\ ContractInv /\ [Next]_vars => [Contract!Next]_(Contract!vars)
  <2> SUFFICES ASSUME IInv, IInv', ContractInv, [Next]_vars
               PROVE  Contract!Next \/ UNCHANGED Contract!vars
    OBVIOUS
  <2>0. TypeOK /\ ProviderTypeOK /\ BackendInv /\ ProviderTypeOK'
    BY DEF IInv, TypeOK
  <2>1. CASE Store
    BY <2>1, StoreIsContract
  <2>2. CASE ~Store
    <3>1. UNCHANGED <<cfg, measurements>>
      BY <2>2, OthersAreQuiet DEF Measure, RunRejects, RunAttaches, RunTriggers,
         RunTriggerFails, Resume, ResumeFails, Terminate, Take, Update, Return, analysisVars
    <3>2. /\ incomplete \subseteq incomplete'
          /\ \A r \in RunID :
               /\ runState[r] \notin {Absent, Running, Ended} => runState'[r] = runState[r]
               /\ runState[r] # Absent => runState'[r] # Absent
      <4>1. CASE NothingStarts
        BY <4>1 DEF NothingStarts
      <4>2. CASE UNCHANGED providerVars
        BY <4>2 DEF providerVars
      <4>3. CASE \E r \in RunID : TriggerRun(r)
        BY <2>0, <4>3, TriggerEffect
      <4>4. CASE Terminate
        BY <2>0, <4>1, <4>4, LastInFlight, StopAttemptEffect DEF Terminate
      <4> QED BY <2>2, <4>1, <4>2, <4>3, <4>4, OthersAreQuiet DEF Measure, RunRejects,
                 RunAttaches, RunTriggers, RunTriggerFails, Resume, ResumeFails
    <3> QED BY <2>0, <3>1, <3>2, RunsMoveIsContract
  <2> QED BY <2>1, <2>2
<1> QED BY <1>1, <1>2, SpecIInv, SpecContractInv, PTL DEF Spec, ImplementsContract, Contract!Spec

=============================================================================
