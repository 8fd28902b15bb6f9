-------------------------- MODULE StepPlugin_proofs --------------------------
(***************************************************************************)
(* Proofs about the step plugin, for every pool of runs, both backends,    *)
(* every set of faults, every timeout and every bound.                     *)
(***************************************************************************)
EXTENDS StepPlugin, Provider_proofs

USE DEF Running, Passed, Failed, Errored, Aborted, Absent, Ended

(***************************************************************************)
(* The inductive invariant. TypeOK alone is not enough for anything: what  *)
(* a call in progress works on must be tied to the stored status and to    *)
(* the run it is about.                                                    *)
(***************************************************************************)

\* A call works on the run of the stored status if there is one, and its
\* clock agrees with the stored one; only a usable configuration gets a run.
InCall == pc \in {"deadline", "stop", "poll", "cleanup", "return"}

CallInv ==
  /\ pc \in {"idle", "terminate", "abort"} => state = ZeroState /\ answer = "None"
  /\ pc = "trigger" => /\ state = ZeroState /\ status = ZeroState
                       /\ cfg.parsed = "valid" /\ cfg.testRunID = NoRun
  /\ pc \in {"deadline", "stop", "poll", "cleanup"} => state.runID # NoRun
  /\ pc = "return" => answer # "None"
  /\ pc = "cleanup" => answer \in Final
  /\ pc = "return" /\ answer # "RpcError" /\ cfg.parsed = "valid"
       => state.runID # NoRun
  /\ status.runID = NoRun => status = ZeroState
  /\ state.runID = NoRun => state = ZeroState
  /\ status.runID # NoRun /\ InCall =>
       /\ state.runID = status.runID
       /\ state.elapsed = status.elapsed
       /\ status.cleanupDone = TRUE => state.cleanupDone = TRUE
  /\ cfg.parsed # "valid" => /\ status = ZeroState /\ state = ZeroState
                             /\ answer \in {"None", "Failed"}
                             /\ pc \in {"idle", "return", "terminate", "abort"}
  /\ pc = "cleanup" => state.cleanupDone = FALSE

\* An answer, on its way or stored, agrees with the run it is about.
Sound(r) == runState[r] = Passed \/ r \in incomplete

AnswerInv ==
  /\ pc \in {"cleanup", "return"} /\ answer = "Successful" => Sound(state.runID)
  /\ phase = "Successful" => status.runID # NoRun /\ Sound(status.runID)
  /\ pc = "cleanup" => runState[state.runID] \notin {Running, Absent}

IInv == TypeOK /\ BackendInv /\ CallInv /\ AnswerInv

-----------------------------------------------------------------------------
(* The inductive invariant holds.                                          *)

USE DEF InCall, Final

LEMMA ZeroStateIsStepState == ZeroState \in StepState
BY TimeoutAssumption DEF ZeroState, StepState, FinalStatuses

LEMMA ZeroStateFields ==
  /\ ZeroState.runID = NoRun
  /\ ZeroState.elapsed = 0
  /\ ZeroState.finalStatus = ""
  /\ ZeroState.cleanupDone = FALSE
BY DEF ZeroState

\* The fields a call writes keep their types.
LEMMA StepStateUpdates ==
  ASSUME NEW s \in StepState
  PROVE  /\ \A r \in RunID : [s EXCEPT !.runID = r, !.elapsed = 0] \in StepState
         /\ \A f \in FinalStatuses : [s EXCEPT !.finalStatus = f] \in StepState
         /\ [s EXCEPT !.cleanupDone = TRUE] \in StepState
<1>1. ASSUME NEW r \in RunID
      PROVE  [s EXCEPT !.runID = r, !.elapsed = 0] \in StepState
  <2>1. 0 \in 0 .. Timeout + 1
    BY TimeoutAssumption
  <2>2. [s EXCEPT !.runID = r] \in StepState
    BY DEF StepState
  <2> QED BY <2>1, <2>2 DEF StepState
<1>2. ASSUME NEW f \in FinalStatuses
      PROVE  [s EXCEPT !.finalStatus = f] \in StepState
  BY DEF StepState
<1>3. [s EXCEPT !.cleanupDone = TRUE] \in StepState
  BY DEF StepState
<1> QED BY <1>1, <1>2, <1>3

LEMMA InitIInv == Init => IInv
<1> SUFFICES ASSUME Init PROVE IInv
  OBVIOUS
<1> USE DEF Init
<1>1. TypeOK
  <2>1. ProviderTypeOK
    BY DEF ProviderTypeOK, Verdicts, RunState
  <2>2. 0 \in 0 .. MaxReplays /\ 0 \in 0 .. MaxCrashes
    BY BoundsAssumption
  <2>3. replays \in 0 .. MaxReplays /\ crashes \in 0 .. MaxCrashes
    BY <2>2
  <2>4. status \in StepState /\ state \in StepState
    BY ZeroStateIsStepState
  <2> QED
    BY <2>1, <2>3, <2>4 DEF TypeOK
<1>2. BackendInv
  BY DEF BackendInv
<1>3. CallInv
  BY DEF CallInv
<1>4. AnswerInv
  BY DEF AnswerInv
<1> QED BY <1>1, <1>2, <1>3, <1>4 DEF IInv

\* What a call to the backend that starts nothing leaves of AnswerInv.
LEMMA AnswersKept ==
  ASSUME IInv, NothingStarts, UNCHANGED <<phase, status>>
  PROVE  /\ phase' = "Successful" =>
              status'.runID # NoRun /\ Sound(status.runID)'
         /\ \A r \in RunID : Sound(r) => Sound(r)'
         /\ \A r \in RunID : runState[r] \notin {Running, Absent} =>
              runState'[r] \notin {Running, Absent}
BY DEF IInv, TypeOK, StepState, AnswerInv, Sound, NothingStarts

LEMMA CallRunKeepsIInv == IInv /\ CallRun => IInv'
<1> SUFFICES ASSUME IInv, CallRun PROVE IInv'
  OBVIOUS
<1> USE DEF IInv, CallRun, RunIsDue, Return, FirstCall
<1>1. TypeOK'
  <2>1. state' \in StepState
    <3>1. CASE UNCHANGED state \/ state' = status
      BY <3>1 DEF TypeOK
    <3>2. CASE /\ cfg.testRunID # NoRun
               /\ state' = [status EXCEPT !.runID = cfg.testRunID, !.elapsed = 0]
      BY <3>2, ConfigsAssumption, StepStateUpdates DEF TypeOK, ConfigType
    <3> QED BY <3>1, <3>2
  <2>2. replays' \in 0 .. MaxReplays
    BY BoundsAssumption DEF TypeOK
  <2>3. ProviderTypeOK'
    BY DEF TypeOK, ProviderTypeOK, providerVars
  <2> QED BY <2>1, <2>2, <2>3 DEF TypeOK
<1>2. BackendInv'
  BY DEF BackendInv, providerVars
<1>3. CallInv'
  BY NoRunAssumption DEF CallInv, TypeOK, StepState
<1>4. AnswerInv'
  BY DEF AnswerInv, Sound, CallInv, providerVars
<1> QED BY <1>1, <1>2, <1>3, <1>4

LEMMA TriggerKeepsIInv == IInv /\ Trigger => IInv'
<1> SUFFICES ASSUME IInv, Trigger PROVE IInv'
  OBVIOUS
<1> USE DEF IInv, Trigger, controllerVars
<1>1. PICK r \in RunID : /\ TriggerRun(r)
                         /\ state' = [state EXCEPT !.runID = r, !.elapsed = 0]
  OBVIOUS
<1>2. /\ ProviderTypeOK' /\ BackendInv'
      /\ \A q \in RunID : q # r => runState'[q] = runState[q]
      /\ runState[r] = Absent /\ runState'[r] = Running
      /\ incomplete' = incomplete
  BY <1>1, TriggerEffect DEF TypeOK
<1>3. TypeOK'
  BY <1>1, <1>2, StepStateUpdates DEF TypeOK
<1>4. CallInv'
  <2>1. /\ state'.runID = r
        /\ r # NoRun
        /\ status = ZeroState /\ status' = status
        /\ cfg' = cfg /\ cfg.parsed = "valid"
        /\ pc' = "deadline"
    BY <1>1, NoRunAssumption DEF CallInv, TypeOK, StepState
  <2> QED BY <2>1, ZeroStateFields DEF CallInv
<1>5. AnswerInv'
  <2>1. pc' = "deadline" /\ UNCHANGED <<phase, status>>
    OBVIOUS
  <2>2. phase = "Successful" => status.runID \in RunID /\ Sound(status.runID)'
    BY <1>2 DEF AnswerInv, Sound, TypeOK, StepState
  <2> QED BY <2>1, <2>2, NoRunAssumption DEF AnswerInv, Sound
<1> QED BY <1>2, <1>3, <1>4, <1>5

LEMMA TriggerFailsKeepsIInv == IInv /\ TriggerFails => IInv'
<1> SUFFICES ASSUME IInv, TriggerFails PROVE IInv'
  OBVIOUS
<1> USE DEF IInv, TriggerFails, Return, controllerVars
<1>1. /\ ProviderTypeOK' /\ BackendInv' /\ forgotten' \in SUBSET RunID
      /\ \A q \in RunID : Sound(q) => Sound(q)'
  <2>1. CASE UNCHANGED <<forgotten, providerVars>>
    BY <2>1, UnchangedEffect DEF TypeOK, NothingStarts, Sound
  <2>2. CASE \E r \in RunID : TriggerRun(r) /\ forgotten' = forgotten \cup {r}
    BY <2>2, TriggerEffect DEF TypeOK, Sound
  <2> QED BY <2>1, <2>2
<1>2. TypeOK'
  BY <1>1 DEF TypeOK
<1>3. CallInv'
  BY DEF CallInv, TypeOK
<1>4. AnswerInv'
  BY <1>1 DEF AnswerInv, Sound, CallInv, TypeOK, StepState
<1> QED BY <1>1, <1>2, <1>3, <1>4

LEMMA CheckDeadlineKeepsIInv == IInv /\ CheckDeadline => IInv'
<1> SUFFICES ASSUME IInv, CheckDeadline PROVE IInv'
  OBVIOUS
<1> USE DEF IInv, CheckDeadline, controllerVars, providerVars
<1>1. TypeOK'
  BY DEF TypeOK, ProviderTypeOK
<1>2. BackendInv' /\ AnswerInv'
  BY DEF BackendInv, AnswerInv, Sound
<1>3. CallInv'
  BY DEF CallInv
<1> QED BY <1>1, <1>2, <1>3

LEMMA StopOnTimeoutKeepsIInv == IInv /\ StopOnTimeout => IInv'
<1> SUFFICES ASSUME IInv, StopOnTimeout PROVE IInv'
  OBVIOUS
<1> USE DEF IInv, StopOnTimeout, Return, controllerVars
<1>1. state.runID \in RunID
  BY DEF CallInv, TypeOK, StepState
<1>2. NothingStarts
  BY <1>1, StopAttemptEffect DEF TypeOK
<1>3. TypeOK' /\ BackendInv'
  BY <1>2 DEF TypeOK, NothingStarts, StepState, FinalStatuses
<1>4. CallInv'
  BY <1>1 DEF CallInv, TypeOK, StepState
<1>5. AnswerInv'
  BY <1>2, AnswersKept DEF AnswerInv
<1> QED BY <1>3, <1>4, <1>5

LEMMA PollFailsKeepsIInv == IInv /\ PollFails => IInv'
<1> SUFFICES ASSUME IInv, PollFails PROVE IInv'
  OBVIOUS
<1> USE DEF IInv, PollFails, Return, controllerVars, providerVars
<1>1. TypeOK'
  BY DEF TypeOK, ProviderTypeOK
<1>2. BackendInv' /\ AnswerInv'
  BY DEF BackendInv, AnswerInv, Sound
<1>3. CallInv'
  BY DEF CallInv
<1> QED BY <1>1, <1>2, <1>3

LEMMA PollKeepsIInv == IInv /\ Poll => IInv'
<1> SUFFICES ASSUME IInv, Poll PROVE IInv'
  OBVIOUS
<1> USE DEF IInv, controllerVars, providerVars
<1>1. state.runID \in RunID
  BY DEF Poll, CallInv, TypeOK, StepState
<1>2. PICK s \in GetRunResult(state.runID) :
        /\ state' = [state EXCEPT !.finalStatus = IF IsTerminal(s) THEN s ELSE @]
        /\ answer' = PhaseOf(s)
        /\ pc' = IF CleanupIsDue(s) THEN "cleanup" ELSE "return"
  BY DEF Poll
<1>3. /\ s \in RunState
      /\ \/ s = runState[state.runID]
         \/ s = Errored /\ runState[state.runID] # Running
         \/ s = Running /\ runState[state.runID] = Ended
         \/ state.runID \in incomplete /\ runState[state.runID] # Running
      /\ runState[state.runID] # Absent
  BY <1>1, <1>2, PollReports DEF TypeOK
<1>4. answer' \in {"Running"} \cup Final /\ (answer' = "Successful" => s = Passed)
  BY <1>2, <1>3 DEF PhaseOf, RunState
<1>4a. pc' = "cleanup" => answer' \in Final
  BY <1>2 DEF PhaseOf, CleanupIsDue
<1>5. TypeOK'
  <2>1. state' \in StepState
    <3>1. (IF IsTerminal(s) THEN s ELSE state.finalStatus) \in FinalStatuses
      BY <1>3 DEF TypeOK, StepState, FinalStatuses, RunState, IsTerminal
    <3> QED BY <1>2, <3>1, StepStateUpdates DEF TypeOK
  <2> QED
    BY <1>2, <1>4, <2>1 DEF TypeOK, ProviderTypeOK, Poll
<1>6. CallInv'
  BY <1>1, <1>2, <1>4, <1>4a, NoRunAssumption
     DEF CallInv, TypeOK, StepState, Poll, CleanupIsDue
<1>7. AnswerInv'
  BY <1>1, <1>2, <1>3, <1>4
     DEF AnswerInv, Sound, TypeOK, StepState, Poll, CleanupIsDue
<1>8. BackendInv'
  BY DEF BackendInv, Poll
<1> QED BY <1>5, <1>6, <1>7, <1>8

LEMMA CleanupRunKeepsIInv == IInv /\ CleanupRun => IInv'
<1> SUFFICES ASSUME IInv, CleanupRun PROVE IInv'
  OBVIOUS
<1> USE DEF IInv, CleanupRun, controllerVars
<1>1. state.runID \in RunID
  BY DEF CallInv, TypeOK, StepState
<1>2. NothingStarts
  BY <1>1, CleanupEffect DEF TypeOK
<1>3. TypeOK' /\ BackendInv'
  BY <1>2, StepStateUpdates DEF TypeOK, NothingStarts
<1>4. CallInv'
  <2>1. /\ state'.runID = state.runID /\ state'.elapsed = state.elapsed
        /\ state'.cleanupDone = TRUE
        /\ state.runID # NoRun /\ cfg.parsed = "valid"
    BY DEF TypeOK, StepState, CallInv
  <2> QED BY <2>1 DEF CallInv
<1>5. AnswerInv'
  BY <1>1, <1>2, AnswersKept DEF AnswerInv, TypeOK, StepState
<1> QED BY <1>3, <1>4, <1>5

\* What is forgotten are runs.
LEMMA ForgetType ==
  ASSUME TypeOK, Forget \/ UNCHANGED forgotten
  PROVE  forgotten' \in SUBSET RunID
BY DEF Forget, TypeOK, StepState

LEMMA StoreAnswerKeepsIInv == IInv /\ StoreAnswer => IInv'
<1> SUFFICES ASSUME IInv, StoreAnswer PROVE IInv'
  OBVIOUS
<1> USE DEF IInv, StoreAnswer, providerVars
<1>1. TypeOK'
  <2>1. phase' \in {"None", "Running", "Error"} \cup Final
    BY DEF TypeOK, CallInv
  <2>2. forgotten' \in SUBSET RunID
    BY ForgetType DEF TypeOK
  <2> QED BY <2>1, <2>2, ZeroStateIsStepState DEF TypeOK, ProviderTypeOK
<1>2. BackendInv'
  BY DEF BackendInv
<1>3. CallInv'
  BY DEF CallInv, TypeOK
<1>4. AnswerInv'
  BY DEF AnswerInv, Sound, CallInv, TypeOK
<1> QED BY <1>1, <1>2, <1>3, <1>4

LEMMA AskToStopKeepsIInv ==
  ASSUME IInv, NEW w \in {"terminate", "abort"}, AskToStop(w)
  PROVE  IInv'
<1> USE DEF IInv, AskToStop, callVars, providerVars
<1>1. TypeOK'
  BY DEF TypeOK, ProviderTypeOK
<1>2. BackendInv' /\ CallInv' /\ AnswerInv'
  BY DEF BackendInv, CallInv, AnswerInv, Sound
<1> QED BY <1>1, <1>2

LEMMA CallStopKeepsIInv ==
  ASSUME IInv, NEW w \in {"terminate", "abort"}, CallStop(w)
  PROVE  IInv'
<1> USE DEF IInv, CallStop, controllerVars
<1>1. NothingStarts
  <2>1. CASE UNCHANGED providerVars
    BY <2>1, UnchangedEffect DEF TypeOK
  <2>2. CASE ~UNCHANGED providerVars
    BY <2>2, StopAttemptEffect DEF StopActiveRun, TypeOK, StepState
  <2> QED BY <2>1, <2>2
<1>2. TypeOK' /\ BackendInv'
  BY <1>1 DEF TypeOK, NothingStarts
<1>3. CallInv'
  BY DEF CallInv
<1>4. AnswerInv'
  BY <1>1, AnswersKept DEF AnswerInv
<1> QED BY <1>2, <1>3, <1>4

LEMMA StoreStoppedKeepsIInv == IInv /\ StoreStopped => IInv'
<1> SUFFICES ASSUME IInv, StoreStopped PROVE IInv'
  OBVIOUS
<1> USE DEF IInv, StoreStopped, providerVars
<1>1. TypeOK'
  BY DEF TypeOK, ProviderTypeOK
<1>2. BackendInv' /\ CallInv' /\ AnswerInv'
  BY DEF BackendInv, CallInv, AnswerInv, Sound
<1> QED BY <1>1, <1>2

LEMMA CallLostKeepsIInv == IInv /\ CallLost => IInv'
<1> SUFFICES ASSUME IInv, CallLost PROVE IInv'
  OBVIOUS
<1> USE DEF IInv, CallLost, providerVars
<1>1. TypeOK'
  BY ForgetType, ZeroStateIsStepState, BoundsAssumption DEF TypeOK, ProviderTypeOK
<1>2. BackendInv' /\ CallInv' /\ AnswerInv'
  BY DEF BackendInv, CallInv, AnswerInv, Sound, TypeOK
<1> QED BY <1>1, <1>2

\* The clock touches nothing but elapsed.
LEMMA AgedKeeps ==
  ASSUME NEW s \in StepState
  PROVE  /\ Aged(s) \in StepState
         /\ Aged(s).runID = s.runID
         /\ Aged(s).finalStatus = s.finalStatus
         /\ Aged(s).cleanupDone = s.cleanupDone
         /\ s.runID = NoRun => Aged(s) = s
         /\ Aged(s).elapsed >= s.elapsed
         /\ Aged(s).elapsed =
              IF s.runID # NoRun /\ s.elapsed <= Timeout
              THEN s.elapsed + 1 ELSE s.elapsed
BY TimeoutAssumption DEF Aged, StepState

LEMMA TickKeepsIInv == IInv /\ Tick => IInv'
<1> SUFFICES ASSUME IInv, Tick PROVE IInv'
  OBVIOUS
<1> USE DEF IInv, Tick, providerVars
<1>1. TypeOK'
  BY AgedKeeps DEF TypeOK, ProviderTypeOK
<1>2. BackendInv' /\ AnswerInv'
  BY AgedKeeps DEF BackendInv, AnswerInv, Sound, TypeOK
<1>3. CallInv'
  <2>1. status \in StepState /\ state \in StepState
    BY DEF TypeOK
  <2>2. (status.runID = NoRun => status' = status) /\ (state.runID = NoRun => state' = state)
    BY <2>1, AgedKeeps
  <2>3. /\ status'.runID = status.runID /\ status'.cleanupDone = status.cleanupDone
        /\ state'.runID = state.runID /\ state'.cleanupDone = state.cleanupDone
    BY <2>1, AgedKeeps
  <2>4. status.runID # NoRun /\ InCall => state'.elapsed = status'.elapsed
    BY <2>1, AgedKeeps DEF CallInv
  <2> HIDE DEF Tick
  <2>5. UNCHANGED <<pc, answer, cfg>>
    BY DEF Tick
  <2> QED BY <2>2, <2>3, <2>4, <2>5, ZeroStateFields DEF CallInv
<1> QED BY <1>1, <1>2, <1>3

LEMMA EnvironmentKeepsIInv == IInv /\ Environment => IInv'
<1> SUFFICES ASSUME IInv, Environment PROVE IInv'
  OBVIOUS
<1> USE DEF IInv, Environment, controllerVars, callVars
<1>1. NothingStarts
  <2>1. stored \subseteq RunID
    BY DEF TypeOK, ProviderTypeOK
  <2> QED BY <2>1, RunMovesEffect DEF TypeOK
<1>2. TypeOK' /\ BackendInv'
  BY <1>1 DEF TypeOK, NothingStarts
<1>3. CallInv'
  BY DEF CallInv
<1>4. AnswerInv'
  BY <1>1, AnswersKept DEF AnswerInv, Sound, CallInv, TypeOK, StepState
<1> QED BY <1>2, <1>3, <1>4

LEMMA NextIInv == IInv /\ [Next]_vars => IInv'
<1> SUFFICES ASSUME IInv, [Next]_vars PROVE IInv'
  OBVIOUS
<1>1. CASE CallRun       BY <1>1, CallRunKeepsIInv
<1>2. CASE RunStep
  BY <1>2, TriggerKeepsIInv, TriggerFailsKeepsIInv, CheckDeadlineKeepsIInv,
     StopOnTimeoutKeepsIInv, PollFailsKeepsIInv, PollKeepsIInv,
     CleanupRunKeepsIInv DEF RunStep
<1>3. CASE StoreAnswer   BY <1>3, StoreAnswerKeepsIInv
<1>4. CASE \E w \in {"terminate", "abort"} : AskToStop(w)
  BY <1>4, AskToStopKeepsIInv
<1>5. CASE StopStep
  BY <1>5, CallStopKeepsIInv, StoreStoppedKeepsIInv DEF StopStep, Terminate, Abort
<1>6. CASE CallLost      BY <1>6, CallLostKeepsIInv
<1>7. CASE Tick          BY <1>7, TickKeepsIInv
<1>8. CASE Environment   BY <1>8, EnvironmentKeepsIInv
<1>9. CASE UNCHANGED vars
  <2> USE <1>9 DEF vars, controllerVars, callVars, providerVars, IInv
  <2>1. TypeOK'
    BY DEF TypeOK, ProviderTypeOK
  <2>2. CallInv'
    BY DEF CallInv
  <2>3. BackendInv' /\ AnswerInv'
    BY DEF BackendInv, AnswerInv, Sound
  <2> QED BY <2>1, <2>2, <2>3
<1> QED
  BY <1>1, <1>2, <1>3, <1>4, <1>5, <1>6, <1>7, <1>8, <1>9 DEF Next

\* The inductive invariant holds in every reachable state.
THEOREM SpecIInv == Spec => []IInv
BY InitIInv, NextIInv, PTL DEF Spec

-----------------------------------------------------------------------------
(* Theorems.                                                               *)

(* Every variable keeps its type, for every instance.                      *)
THEOREM TypeCorrect == Spec => []TypeOK
<1>1. IInv => TypeOK
  BY DEF IInv
<1> QED BY <1>1, SpecIInv, PTL

(* A step is Successful only if the run it names has passed, or had lost a *)
(* runner pod when its pods were read.                                     *)
THEOREM SuccessIsSound == Spec => []SuccessMeansPassed
<1>1. IInv => SuccessMeansPassed
  BY DEF IInv, AnswerInv, Sound, SuccessMeansPassed
<1> QED BY <1>1, SpecIInv, PTL

(* Cleanup never reaches a run in flight.                                  *)
THEOREM CleanupIsSafe == Spec => []CleanupSparesRunInFlight
<1>1. IInv => CleanupSparesRunInFlight
  BY DEF IInv, AnswerInv, CleanupSparesRunInFlight
<1> QED BY <1>1, SpecIInv, PTL

(* Cleanup is not fired again after its completion was stored.             *)
THEOREM CleanupIsFiredOnce == Spec => []CleanupNotRepeated
<1>1. IInv => CleanupNotRepeated
  BY ZeroStateFields DEF IInv, CallInv, CleanupNotRepeated, TypeOK, StepState
<1> QED BY <1>1, SpecIInv, PTL

=============================================================================
