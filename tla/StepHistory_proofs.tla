-------------------------- MODULE StepHistory_proofs --------------------------
(***************************************************************************)
(* Proofs about what a step has done: the answers it stores never change   *)
(* the run it stands on, keep its contract, and do not take a failure      *)
(* back; and of the runs it starts and does not forget, there is only one, *)
(* and it does not outlive the step.                                       *)
(***************************************************************************)
EXTENDS StepPlugin_proofs

USE DEF Running, Passed, Failed, Errored, Aborted, Absent, Ended, InCall, Final

(* Nothing but a stored answer and the clock touches the stored status.    *)
LEMMA StatusMoves ==
  ASSUME [Next]_vars, ~StoreAnswer, ~Tick
  PROVE  status' = status /\ phase' = phase
BY DEF Next, vars, CallRun, RunStep, Trigger, TriggerFails, CheckDeadline,
       StopOnTimeout, PollFails, Poll, CleanupRun, AskToStop, StopStep,
       Terminate, Abort, CallStop, StoreStopped, CallLost, Environment,
       controllerVars

(* A stored run id is never replaced, and its clock never goes back.       *)
THEOREM AttachmentIsStable == Spec => AttachmentStable
<1>1. ASSUME IInv, [Next]_vars, status.runID # NoRun
      PROVE  status'.runID = status.runID /\ status'.elapsed >= status.elapsed
  <2>1. status \in StepState /\ status.elapsed >= status.elapsed
    BY <1>1, TimeoutAssumption DEF IInv, TypeOK, StepState
  <2>2. CASE StoreAnswer
    BY <1>1, <2>1, <2>2 DEF StoreAnswer, IInv, CallInv
  <2>3. CASE Tick
    BY <2>1, <2>3, AgedKeeps DEF Tick
  <2>4. CASE ~StoreAnswer /\ ~Tick
    BY <1>1, <2>1, <2>4, StatusMoves
  <2> QED BY <2>2, <2>3, <2>4
<1>2. IInv /\ [Next]_vars =>
        [status.runID # NoRun =>
           /\ status'.runID = status.runID
           /\ status'.elapsed >= status.elapsed]_vars
  BY <1>1
<1> QED BY <1>2, SpecIInv, PTL DEF Spec, AttachmentStable

-----------------------------------------------------------------------------
(* The step keeps its contract.                                            *)

\* A call made for a step that has already answered is a counted replay.
ReplayInv ==
  phase \in Final /\ (pc = "trigger" \/ InCall) => replays > 0

LEMMA InitReplayInv == Init => ReplayInv
BY DEF Init, ReplayInv

LEMMA NextReplayInv == IInv /\ ReplayInv /\ [Next]_vars => ReplayInv'
<1> SUFFICES ASSUME IInv, ReplayInv, [Next]_vars PROVE ReplayInv'
  OBVIOUS
<1> USE DEF ReplayInv
<1>1. CASE CallRun
  BY <1>1 DEF CallRun, IInv, TypeOK
<1>2. CASE StoreAnswer \/ CallLost \/ StoreStopped \/ (\E w \in {"terminate", "abort"} : CallStop(w))
  BY <1>2 DEF StoreAnswer, CallLost, StoreStopped, CallStop
<1>3. CASE RunStep
  BY <1>3 DEF RunStep, Trigger, TriggerFails, CheckDeadline, StopOnTimeout,
              PollFails, Poll, CleanupRun, Return, controllerVars
<1>4. CASE (\E w \in {"terminate", "abort"} : AskToStop(w)) \/ Tick \/ Environment \/ UNCHANGED vars
  BY <1>4 DEF AskToStop, Tick, Environment, vars, controllerVars, callVars
<1> QED BY <1>1, <1>2, <1>3, <1>4 DEF Next, StopStep, Terminate, Abort

\* No step but a trigger starts a run.
LEMMA RunsStartOrNot ==
  ASSUME IInv, [Next]_vars, ~StoreAnswer, ~Tick
  PROVE  NothingStarts \/ \E r \in RunID : TriggerRun(r)
<1>0. ProviderTypeOK /\ BackendInv
  BY DEF IInv, TypeOK
<1>1. CASE UNCHANGED providerVars
  BY <1>0, <1>1, UnchangedEffect
<1>2. CASE Trigger \/ TriggerFails
  BY <1>1, <1>2 DEF Trigger, TriggerFails
<1>3. CASE StopOnTimeout
  BY <1>0, <1>3, StopAttemptEffect DEF StopOnTimeout, IInv, CallInv, TypeOK, StepState
<1>4. CASE CleanupRun
  BY <1>0, <1>4, CleanupEffect DEF CleanupRun, IInv, CallInv, TypeOK, StepState
<1>5. CASE \E w \in {"terminate", "abort"} : CallStop(w)
  BY <1>0, <1>1, <1>5, StopAttemptEffect DEF CallStop, StopActiveRun, IInv, TypeOK, StepState
<1>6. CASE Environment
  BY <1>0, <1>6, RunMovesEffect DEF Environment, ProviderTypeOK
<1> QED
  BY <1>1, <1>2, <1>3, <1>4, <1>5, <1>6
     DEF Next, vars, CallRun, RunStep, CheckDeadline, PollFails, Poll, AskToStop,
         StopStep, Terminate, Abort, StoreStopped, CallLost

\* What the backend does to its runs is what the contract lets runs do.
LEMMA RunsMoveRefines ==
  ASSUME IInv, [Next]_vars, ~StoreAnswer, ~Tick
  PROVE  Contract!RunsMove
<1>1. ProviderTypeOK /\ BackendInv
  BY DEF IInv, TypeOK
<1>2. ProviderTypeOK'
  BY NextIInv DEF IInv, TypeOK
<1>3. CASE NothingStarts
  BY <1>1, <1>2, <1>3, StatusMoves
     DEF Contract!RunsMove, Contract!Ended, NothingStarts, Outcome, ProviderTypeOK, RunState
<1>4. CASE \E r \in RunID : TriggerRun(r)
  <2>1. PICK r \in RunID : TriggerRun(r)
    BY <1>4
  <2>2. /\ runState[r] = Absent /\ runState'[r] = Running
        /\ \A q \in RunID : q # r => runState'[q] = runState[q]
        /\ incomplete' = incomplete
    BY <1>1, <2>1, TriggerEffect
  <2> QED
    BY <1>1, <1>2, <2>2, StatusMoves
       DEF Contract!RunsMove, Contract!Ended, Outcome, ProviderTypeOK, RunState
<1> QED BY <1>3, <1>4, RunsStartOrNot

\* A stored answer is a report, a rejection or a retry of the contract.
LEMMA StoreAnswerRefines ==
  ASSUME IInv, ReplayInv, StoreAnswer
  PROVE  Contract!Next
<1> USE DEF StoreAnswer, IInv
<1>1. Contract!MayAnswer
  BY BoundsAssumption DEF Contract!MayAnswer, Contract!Final, ReplayInv, TypeOK
<1>2. /\ [r \in RunID |-> Outcome(runState[r])]' = [r \in RunID |-> Outcome(runState[r])]
      /\ incomplete' = incomplete
  BY DEF providerVars
<1>3. CASE answer = "RpcError"
  <2>1. Contract!Retry
    BY <1>1, <1>2, <1>3 DEF Contract!Retry
  <2> QED BY <2>1 DEF Contract!Next
<1>4. CASE answer # "RpcError" /\ cfg.parsed # "valid"
  <2>1. Contract!Reject
    BY <1>1, <1>2, <1>4, ZeroStateFields DEF Contract!Reject, CallInv
  <2> QED BY <2>1 DEF Contract!Next
<1>5. CASE answer # "RpcError" /\ cfg.parsed = "valid"
  <2>1. state.runID \in RunID /\ answer \in {"Running"} \cup Contract!Final
    BY <1>5 DEF CallInv, TypeOK, StepState, Contract!Final
  <2>2. answer = "Successful" =>
          \/ [r \in RunID |-> Outcome(runState[r])][state.runID] = "Passed"
          \/ state.runID \in incomplete
    BY <2>1 DEF AnswerInv, Sound, Outcome
  <2>3. Contract!Report(state.runID, answer)
    BY <1>1, <1>2, <1>5, <2>1, <2>2 DEF Contract!Report, CallInv
  <2> QED BY <2>1, <2>3 DEF Contract!Next
<1> QED BY <1>3, <1>4, <1>5

(* Every behaviour of the step, seen from the Rollout's status, is one of  *)
(* the contract: initial states are the contract's, and every step is one  *)
(* of it or leaves what it speaks of alone.                                *)
THEOREM StepImplementsContract == Spec => ImplementsContract
<1>1. Init => Contract!Init
  <2> SUFFICES ASSUME Init PROVE Contract!Init
    OBVIOUS
  <2>1. \A r \in RunID : Outcome(runState[r]) \in {"Absent", "Running"} \cup Contract!Ended
    BY DEF Outcome, Contract!Ended
  <2>2. status.runID = NoRun /\ phase = "None" /\ incomplete = {}
    BY ZeroStateFields DEF Init
  <2> QED BY <2>1, <2>2 DEF Contract!Init
<1>2. IInv /\ ReplayInv /\ [Next]_vars => [Contract!Next]_Contract!vars
  <2> SUFFICES ASSUME IInv, ReplayInv, [Next]_vars
               PROVE  Contract!Next \/ UNCHANGED Contract!vars
    OBVIOUS
  <2>1. CASE StoreAnswer
    BY <2>1, StoreAnswerRefines
  <2>2. CASE Tick
    BY <2>2, AgedKeeps DEF Tick, Contract!vars, IInv, TypeOK, providerVars
  <2>3. CASE ~StoreAnswer /\ ~Tick
    BY <2>3, RunsMoveRefines DEF Contract!Next
  <2> QED BY <2>1, <2>2, <2>3
<1> QED
  BY <1>1, <1>2, SpecIInv, InitReplayInv, NextReplayInv, PTL
     DEF Spec, ImplementsContract, Contract!Spec

-----------------------------------------------------------------------------
(* A failure is final.                                                     *)

USE DEF BadStatuses

\* A verdict written into a status is the run's own, as long as it is complete,
\* or the timeout's. A call that starts from a bad one cannot come to a success.
Repeated(f, r) == r # NoRun /\ (runState[r] = f \/ r \in incomplete)

VerdictInv ==
  /\ pc \in {"trigger", "deadline", "stop", "poll"} => answer = "None"
  /\ status.finalStatus \in {Failed, Errored, Aborted} =>
       Repeated(status.finalStatus, status.runID)
  /\ state.finalStatus \in {Failed, Errored, Aborted} =>
       Repeated(state.finalStatus, state.runID)
  /\ status.finalStatus = "TimedOut" =>
       /\ status.runID # NoRun
       /\ status.elapsed > Timeout
       /\ pc \notin {"poll", "cleanup"}
  /\ state.finalStatus = "TimedOut" => state.elapsed > Timeout
  /\ pc = "stop" => state.elapsed > Timeout
  /\ status.finalStatus \in BadStatuses /\ InCall /\ state.runID # NoRun =>
       \/ state.finalStatus \in BadStatuses /\ answer # "Successful"
       \/ status.runID \in incomplete
  /\ pc \in {"cleanup", "return"} /\ state.finalStatus \in BadStatuses =>
       answer # "Successful"
  /\ status.finalStatus \in BadStatuses => phase # "Successful"

LEMMA InitVerdictInv == Init => VerdictInv
BY ZeroStateFields DEF Init, VerdictInv

\* The backend keeps a bad verdict it has given.
LEMMA BadVerdictsKept ==
  ASSUME IInv, [Next]_vars, ~StoreAnswer, ~Tick, NEW r \in RunID,
         NEW f \in {Failed, Errored, Aborted}, Repeated(f, r)
  PROVE  runState'[r] = f \/ r \in incomplete'
<1>1. ProviderTypeOK /\ BackendInv
  BY DEF IInv, TypeOK
<1>2. CASE NothingStarts
  BY <1>2 DEF NothingStarts, Repeated
<1>3. CASE \E q \in RunID : TriggerRun(q)
  BY <1>1, <1>3, TriggerEffect DEF Repeated
<1> QED BY <1>2, <1>3, RunsStartOrNot

LEMMA IncompleteStays ==
  ASSUME IInv, [Next]_vars, ~StoreAnswer, ~Tick
  PROVE  incomplete \subseteq incomplete'
BY RunsStartOrNot, TriggerEffect DEF NothingStarts, IInv, TypeOK

LEMMA NextVerdictInv ==
  ASSUME "podListError" \notin Faults, IInv, VerdictInv, [Next]_vars
  PROVE  VerdictInv'
<1> USE DEF VerdictInv, Repeated
<1>t. /\ status \in StepState /\ state \in StepState
      /\ status.elapsed \in Nat /\ state.elapsed \in Nat /\ Timeout \in Nat
  BY TimeoutAssumption DEF IInv, TypeOK, StepState
<1>a. CASE CallRun
  <2>1. UNCHANGED <<status, phase, runState, incomplete>>
    BY <1>a DEF CallRun, providerVars
  <2>2. CASE pc' = "return"
    BY <1>a, <2>1, <2>2, <1>t, ZeroStateFields DEF CallRun, RunIsDue, Return, IInv, CallInv
  <2>3. CASE pc' # "return"
    <3>1. /\ pc' \in {"trigger", "deadline"} /\ answer' = "None" /\ pc = "idle"
      BY <1>a, <2>3 DEF CallRun, RunIsDue, Return, IInv, CallInv
    <3>2. state'.finalStatus = status.finalStatus
      BY <1>a, <2>3, <1>t DEF CallRun, Return, StepState
    <3>3. status.runID # NoRun => state' = status
      BY <1>a, <2>3 DEF CallRun, Return, FirstCall
    <3>4. status.runID = NoRun => status.finalStatus = ""
      BY ZeroStateFields DEF IInv, CallInv
    <3> QED BY <2>1, <3>1, <3>2, <3>3, <3>4
  <2> QED BY <2>2, <2>3
<1>b. CASE Trigger \/ TriggerFails
  <2>1. status = ZeroState /\ state = ZeroState /\ status' = status /\ phase' = phase
    BY <1>b DEF Trigger, TriggerFails, controllerVars, IInv, CallInv
  <2>2. state'.finalStatus = ""
    BY <1>b, <1>t, <2>1, ZeroStateFields DEF Trigger, TriggerFails, StepState
  <2>3. (pc' = "deadline" /\ answer' = "None") \/ (pc' = "return" /\ answer' = "RpcError")
    BY <1>b DEF Trigger, TriggerFails, Return
  <2> QED BY <2>1, <2>2, <2>3, ZeroStateFields
<1>c. CASE CheckDeadline
  <2>1. status.finalStatus = "TimedOut" => pc' = "stop"
    BY <1>c, <1>t DEF CheckDeadline, IInv, CallInv
  <2> QED BY <1>c, <1>t, <2>1 DEF CheckDeadline, controllerVars, providerVars
<1>d. CASE StopOnTimeout
  <2>1. /\ state'.finalStatus = "TimedOut" /\ state'.elapsed = state.elapsed
        /\ state'.runID = state.runID
    BY <1>d, <1>t DEF StopOnTimeout, StepState
  <2>2. ~StoreAnswer /\ ~Tick
    BY <1>d DEF StopOnTimeout, Return, StoreAnswer, Tick, controllerVars
  <2>3. status.finalStatus \in {Failed, Errored, Aborted} =>
          \/ runState'[status.runID] = status.finalStatus
          \/ status.runID \in incomplete'
    BY <2>2, <1>t, BadVerdictsKept DEF StepState
  <2>4. incomplete \subseteq incomplete'
    BY <2>2, IncompleteStays
  <2> QED BY <1>d, <2>1, <2>3, <2>4 DEF StopOnTimeout, Return, controllerVars
<1>e. CASE PollFails
  BY <1>e DEF PollFails, Return, controllerVars, providerVars
<1>f. CASE Poll
  <2>1. state.runID \in RunID
    BY <1>f, <1>t DEF Poll, IInv, CallInv, StepState
  <2>2. PICK s \in GetRunResult(state.runID) :
          /\ state' = [state EXCEPT !.finalStatus = IF IsTerminal(s) THEN s ELSE @]
          /\ answer' = PhaseOf(s)
          /\ pc' = IF CleanupIsDue(s) THEN "cleanup" ELSE "return"
    BY <1>f DEF Poll
  <2>3. /\ \/ s = runState[state.runID]
           \/ s = Running /\ runState[state.runID] = Ended
           \/ state.runID \in incomplete
        /\ s \in RunState
    <3>1. ~PodsUnread(state.runID)
      BY DEF PodsUnread
    <3>2. \/ s = IF runState[state.runID] = Ended THEN Running ELSE runState[state.runID]
          \/ state.runID \in incomplete
      BY <2>2, <3>1 DEF GetRunResult
    <3>3. s \in RunState
      BY <2>1, <2>2, PollReports DEF IInv, TypeOK
    <3> QED BY <3>2, <3>3
  <2>4. /\ state'.runID = state.runID /\ state'.elapsed = state.elapsed
        /\ state'.finalStatus = IF s = Running THEN state.finalStatus ELSE s
    BY <1>t, <2>2 DEF IsTerminal, StepState
  <2>5. UNCHANGED <<status, phase, runState, incomplete>> /\ pc = "poll" /\ pc' \in {"cleanup", "return"}
    BY <1>f, <2>2 DEF Poll, controllerVars, providerVars
  <2>6. answer' = "Successful" => s = Passed
    BY <2>2, <2>3 DEF PhaseOf, RunState
  <2>7. status.finalStatus \in BadStatuses =>
          /\ status.finalStatus \in {Failed, Errored, Aborted}
          /\ status.runID = state.runID
    BY <2>5, <1>t DEF IInv, CallInv
  <2>8. status.finalStatus \in BadStatuses =>
          s = status.finalStatus \/ status.runID \in incomplete
    BY <2>3, <2>7
  <2>9. state.finalStatus \in {Failed, Errored, Aborted} =>
          s = state.finalStatus \/ state.runID \in incomplete
    BY <2>3
  <2>10. state'.finalStatus \in {Failed, Errored, Aborted} =>
           \/ runState[state.runID] = state'.finalStatus
           \/ state.runID \in incomplete
    BY <2>3, <2>4
  <2>11. state'.finalStatus = "TimedOut" => state'.elapsed > Timeout
    BY <2>3, <2>4 DEF RunState
  <2>12. state'.finalStatus \in BadStatuses => answer' # "Successful"
    BY <2>4, <2>6
  <2>13. status.finalStatus \in BadStatuses =>
           \/ state'.finalStatus \in BadStatuses /\ answer' # "Successful"
           \/ status.runID \in incomplete
    BY <2>4, <2>7, <2>8, <2>12
  <2> QED
    BY NoRunAssumption, <2>1, <2>4, <2>5, <2>10, <2>11, <2>12, <2>13
<1>g. CASE CleanupRun
  <2>1. /\ state'.finalStatus = state.finalStatus /\ state'.elapsed = state.elapsed
        /\ state'.runID = state.runID
    BY <1>g, <1>t DEF CleanupRun, StepState
  <2>2. ~StoreAnswer /\ ~Tick
    BY <1>g DEF CleanupRun, StoreAnswer, Tick, controllerVars
  <2>3. /\ status.finalStatus \in {Failed, Errored, Aborted} =>
             \/ runState'[status.runID] = status.finalStatus
             \/ status.runID \in incomplete'
        /\ state.finalStatus \in {Failed, Errored, Aborted} =>
             \/ runState'[state.runID] = state.finalStatus
             \/ state.runID \in incomplete'
    BY <2>2, <1>t, BadVerdictsKept DEF StepState
  <2>4. incomplete \subseteq incomplete'
    BY <2>2, IncompleteStays
  <2> QED BY <1>g, <2>1, <2>3, <2>4 DEF CleanupRun, controllerVars
<1>h. CASE StoreAnswer
  <2>1. pc' = "idle" /\ state' = ZeroState /\ UNCHANGED <<runState, incomplete>>
    BY <1>h DEF StoreAnswer, providerVars
  <2>2. CASE answer = "RpcError"
    BY <1>h, <2>1, <2>2, ZeroStateFields DEF StoreAnswer
  <2>3. CASE answer # "RpcError" /\ state.runID # NoRun
    BY <1>h, <2>1, <2>3, ZeroStateFields DEF StoreAnswer
  <2>4. CASE answer # "RpcError" /\ state.runID = NoRun
    BY <1>h, <2>1, <2>4, ZeroStateFields DEF StoreAnswer, IInv, CallInv
  <2> QED BY <2>2, <2>3, <2>4
<1>i. CASE (\E w \in {"terminate", "abort"} : CallStop(w)) \/ StoreStopped
  <2>1. UNCHANGED <<status, phase, state>> /\ state = ZeroState
    BY <1>i DEF CallStop, StoreStopped, controllerVars, IInv, CallInv
  <2>2. status.finalStatus \in {Failed, Errored, Aborted} =>
          \/ runState'[status.runID] = status.finalStatus
          \/ status.runID \in incomplete'
    <3>1. ~StoreAnswer /\ ~Tick
      BY <1>i DEF CallStop, StoreStopped, StoreAnswer, Tick, controllerVars
    <3> QED BY <3>1, <1>t, BadVerdictsKept DEF StepState
  <2>3. pc' \in {"idle", "terminate", "abort"}
    BY <1>i DEF CallStop, StoreStopped
  <2> QED BY <2>1, <2>2, <2>3, ZeroStateFields
<1>j. CASE CallLost
  BY <1>j, ZeroStateFields DEF CallLost, providerVars
<1>k. CASE Tick
  <2>1. /\ status'.runID = status.runID /\ status'.finalStatus = status.finalStatus
        /\ state'.runID = state.runID /\ state'.finalStatus = state.finalStatus
        /\ status.elapsed > Timeout => status'.elapsed > Timeout
        /\ state.elapsed > Timeout => state'.elapsed > Timeout
    BY <1>k, <1>t, AgedKeeps DEF Tick
  <2>2. UNCHANGED <<pc, answer, phase, runState, incomplete>>
    BY <1>k DEF Tick, providerVars
  <2> QED BY <2>1, <2>2
<1>l. CASE (\E w \in {"terminate", "abort"} : AskToStop(w)) \/ UNCHANGED vars
  BY <1>l DEF AskToStop, vars, controllerVars, callVars, providerVars
<1>m. CASE Environment
  <2>1. UNCHANGED <<status, phase, state, pc, answer>>
    BY <1>m DEF Environment, controllerVars, callVars
  <2>2. NothingStarts
    BY <1>m, RunMovesEffect DEF Environment, ProviderTypeOK, IInv, TypeOK
  <2>3. /\ status.finalStatus \in {Failed, Errored, Aborted} =>
             Repeated(status.finalStatus, status.runID)'
        /\ state.finalStatus \in {Failed, Errored, Aborted} =>
             Repeated(state.finalStatus, state.runID)'
    BY <2>1, <2>2, <1>t DEF NothingStarts, StepState
  <2>4. incomplete \subseteq incomplete'
    BY <2>2 DEF NothingStarts
  <2> QED BY <2>1, <2>3, <2>4
<1> QED
  BY <1>a, <1>b, <1>c, <1>d, <1>e, <1>f, <1>g, <1>h, <1>i, <1>j, <1>k, <1>l, <1>m
     DEF Next, RunStep, StopStep, Terminate, Abort

(* A stored failure is never turned into a success, as long as the runner  *)
(* pods of a run that is over can be listed and none of them is gone.      *)
THEOREM FailuresAreFinal == Spec => FailureIsFinal
<1> DEFINE Kept == ( /\ "podListError" \notin Faults
                     /\ status.finalStatus \in BadStatuses
                     /\ status.runID \notin incomplete' ) =>
                     /\ status'.finalStatus \in BadStatuses
                     /\ phase' # "Successful"
           VInv == "podListError" \notin Faults => VerdictInv
<1>1. Init => VInv
  BY InitVerdictInv
<1>2. IInv /\ VInv /\ [Next]_vars => VInv'
  BY NextVerdictInv
<1>3. IInv /\ VInv /\ [Next]_vars => [Kept]_vars
  <2> SUFFICES ASSUME IInv, VInv, [Next]_vars, "podListError" \notin Faults,
                      status.finalStatus \in BadStatuses,
                      status.runID \notin incomplete'
               PROVE  status'.finalStatus \in BadStatuses /\ phase' # "Successful"
    OBVIOUS
  <2>1. VerdictInv'
    BY NextVerdictInv
  <2>2. status'.finalStatus \in BadStatuses
    <3>1. CASE StoreAnswer
      BY <3>1 DEF StoreAnswer, VerdictInv, IInv, CallInv, ZeroState, providerVars
    <3>2. CASE Tick
      BY <3>2, AgedKeeps DEF Tick, IInv, TypeOK
    <3>3. CASE ~StoreAnswer /\ ~Tick
      BY <3>3, StatusMoves
    <3> QED BY <3>1, <3>2, <3>3
  <2> QED BY <2>1, <2>2 DEF VerdictInv
<1> QED BY <1>1, <1>2, <1>3, SpecIInv, PTL DEF Spec, FailureIsFinal

-----------------------------------------------------------------------------
(* The runs a step starts.                                                 *)

LEMMA InitTriggered == Init => Triggered = {}
BY DEF Init, Triggered

\* A step of the specification starts a run only as a trigger.
LEMMA TriggeredMoves ==
  ASSUME IInv, [Next]_vars, ~Trigger, ~TriggerFails
  PROVE  NothingStarts
<1>0. ProviderTypeOK /\ BackendInv
  BY DEF IInv, TypeOK
<1>1. CASE UNCHANGED providerVars
  BY <1>0, <1>1, UnchangedEffect
<1>2. CASE StopOnTimeout
  BY <1>0, <1>2, StopAttemptEffect DEF StopOnTimeout, IInv, CallInv, TypeOK, StepState
<1>3. CASE CleanupRun
  BY <1>0, <1>3, CleanupEffect DEF CleanupRun, IInv, CallInv, TypeOK, StepState
<1>4. CASE \E w \in {"terminate", "abort"} : CallStop(w)
  BY <1>0, <1>1, <1>4, StopAttemptEffect DEF CallStop, StopActiveRun, IInv, TypeOK, StepState
<1>5. CASE Environment
  BY <1>0, <1>5, RunMovesEffect DEF Environment, ProviderTypeOK
<1> QED
  BY <1>1, <1>2, <1>3, <1>4, <1>5
     DEF Next, vars, CallRun, RunStep, CheckDeadline, PollFails, Poll, AskToStop,
         StopStep, Terminate, Abort, StoreStopped, CallLost, StoreAnswer, Tick

LEMMA ConfigFixed == [Next]_vars => cfg' = cfg
BY DEF Next, vars, CallRun, RunStep, Trigger, TriggerFails, CheckDeadline,
       StopOnTimeout, PollFails, Poll, CleanupRun, AskToStop, StopStep,
       Terminate, Abort, CallStop, StoreStopped, CallLost, Environment,
       StoreAnswer, Tick, controllerVars

LEMMA TriggeredKept ==
  ASSUME NothingStarts, cfg' = cfg, ProviderTypeOK
  PROVE  /\ Triggered' = Triggered
         /\ \A r \in RunID : runState'[r] = Running => runState[r] = Running
BY DEF NothingStarts, Triggered, ProviderTypeOK, RunState

-----------------------------------------------------------------------------
(* One run per step.                                                       *)

\* A run that is not forgotten is the stored one or the one the call in
\* progress is about.
OneRunInv == Remembered \subseteq {status.runID, state.runID}

LEMMA InitOneRunInv == Init => OneRunInv
BY InitTriggered DEF OneRunInv, Remembered

\* A call that ends without its answer being stored forgets its own run.
LEMMA ForgottenRun ==
  ASSUME OneRunInv, Forget, cfg' = cfg, runState' = runState
  PROVE  Remembered' \subseteq {status.runID}
BY NoRunAssumption DEF OneRunInv, Forget, Remembered, Triggered

LEMMA NextOneRunInv == IInv /\ OneRunInv /\ [Next]_vars => OneRunInv'
<1> SUFFICES ASSUME IInv, OneRunInv, [Next]_vars PROVE OneRunInv'
  OBVIOUS
<1>0. /\ ProviderTypeOK /\ BackendInv /\ cfg' = cfg
      /\ status \in StepState /\ state \in StepState /\ NoRun \notin RunID
  BY ConfigFixed, NoRunAssumption DEF IInv, TypeOK
<1>1. CASE Trigger
  <2>1. PICK r \in RunID : TriggerRun(r) /\ state' = [state EXCEPT !.runID = r, !.elapsed = 0]
    BY <1>1 DEF Trigger
  <2>2. \A q \in RunID : q # r => runState'[q] = runState[q]
    BY <1>0, <2>1, TriggerEffect
  <2>3. /\ state.runID = NoRun /\ status.runID = NoRun /\ state'.runID = r
        /\ forgotten' = forgotten
    BY <1>0, <1>1, <2>1, ZeroStateFields DEF Trigger, IInv, CallInv, StepState
  <2>4. Remembered = {}
    BY <1>0, <2>3 DEF OneRunInv, Remembered, Triggered
  <2>5. Remembered' \subseteq {r}
    BY <1>0, <2>2, <2>3, <2>4 DEF Remembered, Triggered
  <2> QED BY <2>3, <2>5 DEF OneRunInv
<1>2. CASE TriggerFails
  <2>1. UNCHANGED <<status, state>>
    BY <1>2 DEF TriggerFails, controllerVars
  <2>2. CASE UNCHANGED <<forgotten, providerVars>>
    BY <1>0, <2>1, <2>2 DEF OneRunInv, Remembered, Triggered, providerVars
  <2>3. CASE \E r \in RunID : TriggerRun(r) /\ forgotten' = forgotten \cup {r}
    <3>1. PICK r \in RunID : TriggerRun(r) /\ forgotten' = forgotten \cup {r}
      BY <2>3
    <3>2. \A q \in RunID : q # r => runState'[q] = runState[q]
      BY <1>0, <3>1, TriggerEffect
    <3>3. Remembered' \subseteq Remembered
      BY <1>0, <3>1, <3>2 DEF Remembered, Triggered
    <3> QED BY <2>1, <3>3 DEF OneRunInv
  <2> QED BY <1>2, <2>2, <2>3 DEF TriggerFails
<1>3. CASE StoreAnswer
  <2>1. state'.runID = NoRun /\ runState' = runState
    BY <1>3, ZeroStateFields DEF StoreAnswer, providerVars
  <2>2. CASE answer = "RpcError"
    BY <1>0, <1>3, <2>1, <2>2, ForgottenRun DEF StoreAnswer, OneRunInv
  <2>3. CASE answer # "RpcError"
    <3>1. /\ status' = state /\ forgotten' = forgotten
          /\ status.runID # NoRun => state.runID = status.runID
      BY <1>3, <2>3 DEF StoreAnswer, IInv, CallInv
    <3> QED BY <1>0, <2>1, <3>1 DEF OneRunInv, Remembered, Triggered
  <2> QED BY <2>2, <2>3
<1>4. CASE CallLost
  BY <1>0, <1>4, ForgottenRun DEF CallLost, OneRunInv, providerVars
<1>5. CASE ~Trigger /\ ~TriggerFails /\ ~StoreAnswer /\ ~CallLost
  <2>0. Triggered' = Triggered
    BY <1>0, <1>5, TriggeredMoves, TriggeredKept
  <2>1. forgotten' = forgotten
    BY <1>5 DEF Next, vars, CallRun, RunStep, CheckDeadline, StopOnTimeout, PollFails,
                Poll, CleanupRun, AskToStop, StopStep, Terminate, Abort, CallStop,
                StoreStopped, Environment, Tick
  <2>2. CASE CallRun
    <3>1. state.runID = NoRun /\ status' = status
      BY <2>2, ZeroStateFields DEF CallRun, RunIsDue, IInv, CallInv
    <3> QED BY <1>0, <2>0, <2>1, <3>1 DEF OneRunInv, Remembered, Triggered
  <2>3. CASE ~CallRun
    <3>1. status'.runID = status.runID /\ state'.runID = state.runID
      <4>1. CASE Tick
        BY <1>0, <4>1, AgedKeeps DEF Tick
      <4>2. CASE StopOnTimeout \/ Poll \/ CleanupRun
        BY <1>0, <4>2 DEF StopOnTimeout, Poll, CleanupRun, StepState, controllerVars
      <4>3. CASE UNCHANGED <<status, state>>
        BY <4>3
      <4> QED
        BY <1>5, <2>3, <4>1, <4>2, <4>3
           DEF Next, vars, RunStep, CheckDeadline, PollFails, AskToStop, StopStep,
               Terminate, Abort, CallStop, StoreStopped, Environment, controllerVars,
               callVars
    <3> QED BY <2>0, <2>1, <3>1 DEF OneRunInv, Remembered
  <2> QED BY <2>2, <2>3
<1> QED BY <1>1, <1>2, <1>3, <1>4, <1>5

LEMMA OneStoredRun ==
  ASSUME IInv
  PROVE  status.runID # NoRun /\ state.runID # NoRun => state.runID = status.runID
BY ZeroStateFields DEF IInv, CallInv, TypeOK

(* A step starts one run, whatever fails, is lost or is replayed, besides  *)
(* those of which no call got as far as storing the id.                    *)
THEOREM StepStartsOneRun == Spec => []OneRunPerStep
<1>1. IInv /\ OneRunInv => OneRunPerStep
  <2> SUFFICES ASSUME IInv, OneRunInv, NEW r1 \in Remembered, NEW r2 \in Remembered
               PROVE  r1 = r2
    BY DEF OneRunPerStep
  <2>1. r1 \in RunID /\ r2 \in RunID
    BY DEF Remembered, Triggered
  <2> QED BY <2>1, OneStoredRun, NoRunAssumption DEF OneRunInv
<1> QED BY <1>1, InitOneRunInv, NextOneRunInv, SpecIInv, PTL DEF Spec

-----------------------------------------------------------------------------
(* No run is left behind.                                                  *)

\* An answer that ends the step, like an answered Terminate or Abort, finds its
\* run not in flight.
LeftInv ==
  /\ pc \in {"cleanup", "return"} /\ answer \in Final /\ state.runID # NoRun =>
       runState[state.runID] # Running
  /\ phase \in Final /\ status.runID # NoRun => runState[status.runID] # Running
  /\ settled \/ pc \in {"terminate", "abort"} =>
       (status.runID # NoRun => runState[status.runID] # Running)
  /\ settled => wanted # "run" /\ pc \in {"idle", "terminate", "abort"}
  /\ pc \in {"terminate", "abort"} => wanted # "run"

LEMMA InitLeftInv == Init => LeftInv
BY ZeroStateFields DEF LeftInv, Init

LEMMA NextLeftInv ==
  ASSUME "stopError" \notin Faults, IInv, LeftInv, [Next]_vars
  PROVE  LeftInv'
<1>0. /\ ProviderTypeOK /\ BackendInv
      /\ status \in StepState /\ state \in StepState
  BY DEF IInv, TypeOK
<1>r. /\ status.runID # NoRun => status.runID \in RunID
      /\ state.runID # NoRun => state.runID \in RunID
  BY <1>0 DEF StepState
<1>1. CASE Trigger \/ TriggerFails
  <2>1. /\ status.runID = NoRun /\ pc = "trigger" /\ ~settled
        /\ UNCHANGED <<status, phase, settled, wanted>>
        /\ pc' = "deadline" \/ (pc' = "return" /\ answer' = "RpcError")
    BY <1>1, ZeroStateFields
       DEF Trigger, TriggerFails, Return, controllerVars, IInv, CallInv, LeftInv
  <2> QED BY <2>1 DEF LeftInv
<1>2. CASE ~Trigger /\ ~TriggerFails
  <2>0. \A r \in RunID : runState'[r] = Running => runState[r] = Running
    BY <1>0, <1>2, TriggeredMoves, TriggeredKept, ConfigFixed
  <2>1. CASE CallRun
    <3>1. /\ state.runID = NoRun /\ pc = "idle" /\ wanted = "run" /\ ~settled
          /\ UNCHANGED <<status, phase, settled, wanted>>
      BY <2>1, ZeroStateFields DEF CallRun, RunIsDue, IInv, CallInv, LeftInv
    <3>2. pc' \in {"trigger", "deadline"} \/ (pc' = "return" /\ state' = state)
      BY <2>1 DEF CallRun, Return
    <3> QED BY <1>r, <2>0, <3>1, <3>2 DEF LeftInv
  <2>2. CASE CheckDeadline \/ PollFails
    BY <2>2 DEF CheckDeadline, PollFails, Return, controllerVars, providerVars, LeftInv
  <2>3. CASE StopOnTimeout
    <3>1. /\ state'.runID = state.runID /\ state.runID \in RunID
          /\ pc' = "return" /\ pc = "stop"
          /\ UNCHANGED <<status, phase, settled, wanted>>
      BY <1>0, <1>r, <2>3 DEF StopOnTimeout, Return, StepState, controllerVars, IInv, CallInv
    <3>2. runState'[state.runID] # Running
      <4>1. CASE StopRun(state.runID)
        BY <1>0, <3>1, <4>1, StopRunEffect
      <4>2. CASE StopRunFails(state.runID)
        BY <1>0, <3>1, <4>2 DEF StopRunFails, BackendInv, providerVars
      <4> QED BY <2>3, <4>1, <4>2 DEF StopOnTimeout
    <3> QED BY <1>r, <2>0, <3>1, <3>2 DEF LeftInv
  <2>4. CASE Poll
    <3>1. PICK s \in GetRunResult(state.runID) :
            /\ state' = [state EXCEPT !.finalStatus = IF IsTerminal(s) THEN s ELSE @]
            /\ answer' = PhaseOf(s)
            /\ pc' = IF CleanupIsDue(s) THEN "cleanup" ELSE "return"
      BY <2>4 DEF Poll
    <3>2. state'.runID = state.runID /\ state.runID \in RunID
      BY <1>0, <1>r, <2>4, <3>1 DEF Poll, StepState, IInv, CallInv
    <3>3. answer' \in Final => runState[state.runID] # Running
      BY <1>0, <3>1, <3>2, PollReports DEF PhaseOf
    <3>4. pc = "poll" /\ pc' \in {"cleanup", "return"}
      BY <2>4, <3>1 DEF Poll
    <3>5. UNCHANGED <<status, phase, settled, wanted, runState>>
      BY <2>4 DEF Poll, controllerVars, providerVars
    <3> QED BY <3>2, <3>3, <3>4, <3>5 DEF LeftInv
  <2>5. CASE CleanupRun
    <3>1. /\ state'.runID = state.runID /\ state.runID \in RunID
          /\ pc = "cleanup" /\ pc' = "return" /\ answer' = answer /\ answer \in Final
          /\ UNCHANGED <<status, phase, settled, wanted>>
      BY <1>0, <1>r, <2>5 DEF CleanupRun, StepState, controllerVars, IInv, CallInv
    <3> QED BY <1>r, <2>0, <3>1 DEF LeftInv
  <2>6. CASE StoreAnswer
    <3>1. /\ pc' = "idle" /\ pc = "return" /\ state'.runID = NoRun
          /\ UNCHANGED <<settled, wanted, runState>>
      BY <2>6, ZeroStateFields DEF StoreAnswer, providerVars
    <3>2. CASE answer = "RpcError"
      BY <2>6, <3>1, <3>2 DEF StoreAnswer, LeftInv
    <3>3. CASE answer # "RpcError"
      BY <2>6, <3>1, <3>3 DEF StoreAnswer, LeftInv
    <3> QED BY <3>2, <3>3
  <2>7. CASE Tick
    <3>1. status'.runID = status.runID /\ state'.runID = state.runID
      BY <1>0, <2>7, AgedKeeps DEF Tick
    <3> QED BY <2>7, <3>1 DEF Tick, providerVars, LeftInv
  <2>8. CASE \E w \in {"terminate", "abort"} : CallStop(w)
    <3>1. /\ pc = "idle" /\ pc' \in {"terminate", "abort"} /\ wanted # "run"
          /\ UNCHANGED <<status, phase, state, answer, settled, wanted>>
          /\ StopActiveRun
      BY <2>8 DEF CallStop, controllerVars
    <3>2. status.runID # NoRun => runState'[status.runID] # Running
      <4> SUFFICES ASSUME status.runID # NoRun PROVE runState'[status.runID] # Running
        OBVIOUS
      <4>0. cfg.parsed # "invalid"
        BY ZeroStateFields DEF IInv, CallInv
      <4>1. CASE StopRun(status.runID)
        BY <1>0, <1>r, <4>1, StopRunEffect
      <4>2. CASE StopRunFails(status.runID)
        BY <1>0, <1>r, <4>2 DEF StopRunFails, BackendInv, providerVars
      <4> QED BY <3>1, <4>0, <4>1, <4>2 DEF StopActiveRun
    <3> QED BY <3>1, <3>2 DEF LeftInv
  <2>9. CASE StoreStopped
    <3>1. /\ pc \in {"terminate", "abort"} /\ pc' = "idle" /\ wanted' = wanted
          /\ UNCHANGED <<status, phase, state, answer, runState>>
      BY <2>9 DEF StoreStopped, providerVars
    <3> QED BY <3>1 DEF LeftInv
  <2>10. CASE CallLost
    BY <2>10 DEF CallLost, providerVars, LeftInv
  <2>11. CASE \E w \in {"terminate", "abort"} : AskToStop(w)
    BY <2>11 DEF AskToStop, callVars, providerVars, LeftInv
  <2>12. CASE Environment
    <3>1. UNCHANGED <<status, phase, state, answer, pc, settled, wanted>>
      BY <2>12 DEF Environment, controllerVars, callVars
    <3> QED BY <1>r, <2>0, <3>1 DEF LeftInv
  <2>13. CASE UNCHANGED vars
    BY <2>13 DEF vars, controllerVars, callVars, providerVars, LeftInv
  <2> QED
    BY <1>2, <2>1, <2>2, <2>3, <2>4, <2>5, <2>6, <2>7, <2>8, <2>9, <2>10, <2>11,
       <2>12, <2>13
       DEF Next, RunStep, StopStep, Terminate, Abort
<1> QED BY <1>1, <1>2

(* When the step is over, none of the runs it started and did not forget   *)
(* is in flight, provided that StopRun works.                              *)
THEOREM NoRunOutlivesTheStep == Spec => []NoRunLeftBehind
<1> DEFINE Inv == OneRunInv /\ ("stopError" \notin Faults => LeftInv)
<1>1. Init => Inv
  BY InitOneRunInv, InitLeftInv
<1>2. IInv /\ Inv /\ [Next]_vars => Inv'
  BY NextOneRunInv, NextLeftInv
<1>3. IInv /\ Inv => NoRunLeftBehind
  <2> SUFFICES ASSUME IInv, OneRunInv, LeftInv, Over, NEW r \in Remembered,
                      runState[r] = Running
               PROVE  FALSE
    BY DEF NoRunLeftBehind
  <2>1. state.runID = NoRun /\ r \in RunID
    BY ZeroStateFields DEF Over, IInv, CallInv, Remembered, Triggered
  <2>2. r = status.runID
    BY <2>1, NoRunAssumption DEF OneRunInv
  <2> QED BY <2>1, <2>2, NoRunAssumption DEF LeftInv, Over
<1> QED BY <1>1, <1>2, <1>3, SpecIInv, PTL DEF Spec

=============================================================================
