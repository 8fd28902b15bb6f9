--------------------------- MODULE Provider_proofs ---------------------------
(***************************************************************************)
(* What the proofs about the two plugins need to know of the backend: what *)
(* each of its steps leaves of the runs, for every pool of runs, both      *)
(* backends and every set of faults.                                       *)
(***************************************************************************)
EXTENDS Provider, TLAPS

USE DEF Running, Passed, Failed, Errored, Aborted, Absent, Ended

\* The backend loses sight only of runs that are not in flight any more.
BackendInv == \A r \in RunID : runState[r] = Running => r \in stored

\* No run is started and no verdict revised; what is deleted is not in flight,
\* and pods that are gone do not come back.
NothingStarts ==
  /\ ProviderTypeOK'
  /\ BackendInv'
  /\ incomplete \subseteq incomplete'
  /\ \A r \in RunID :
       runState[r] \notin {Running, Ended} => runState'[r] = runState[r]
  /\ \A r \in RunID : runState[r] = Running => runState'[r] # Absent
  /\ \A r \in RunID :
       runState[r] = Ended => runState'[r] \notin {Absent, Running}

LEMMA DeleteCREffect ==
  ASSUME ProviderTypeOK, BackendInv, NEW r \in RunID, DeleteCR(r)
  PROVE  NothingStarts /\ runState'[r] # Running
BY DEF ProviderTypeOK, BackendInv, DeleteCR, Killed, NothingStarts, RunState, providerVars

\* A stop that succeeds leaves the run not in flight.
LEMMA StopRunEffect ==
  ASSUME ProviderTypeOK, BackendInv, NEW r \in RunID, StopRun(r)
  PROVE  NothingStarts /\ runState'[r] # Running
<1>1. CASE Backend = K6Operator
  BY <1>1, DeleteCREffect DEF StopRun
<1>2. CASE Backend # K6Operator
  BY <1>2 DEF StopRun, ProviderTypeOK, BackendInv, Killed, NothingStarts, RunState, providerVars
<1> QED BY <1>1, <1>2

LEMMA UnchangedEffect ==
  ASSUME ProviderTypeOK, BackendInv, UNCHANGED providerVars
  PROVE  NothingStarts
BY DEF ProviderTypeOK, BackendInv, NothingStarts, providerVars

LEMMA CleanupEffect ==
  ASSUME ProviderTypeOK, BackendInv, NEW r \in RunID,
         Cleanup(r) \/ CleanupFails(r)
  PROVE  NothingStarts
BY DeleteCREffect, UnchangedEffect DEF Cleanup, CleanupFails

LEMMA StopAttemptEffect ==
  ASSUME ProviderTypeOK, BackendInv, NEW r \in RunID,
         StopRun(r) \/ StopRunFails(r)
  PROVE  NothingStarts
BY StopRunEffect, UnchangedEffect DEF StopRunFails

LEMMA RunMovesEffect ==
  ASSUME ProviderTypeOK, BackendInv, NEW r \in RunID,
         RunEnds(r) \/ RunVanishes(r) \/ PodsLost(r)
  PROVE  NothingStarts
<1>1. CASE RunEnds(r)
  BY <1>1 DEF ProviderTypeOK, BackendInv, RunEnds, Verdicts, NothingStarts, RunState
<1>2. CASE RunVanishes(r)
  BY <1>2 DEF ProviderTypeOK, BackendInv, RunVanishes, Killed, NothingStarts, RunState
<1>3. CASE PodsLost(r)
  BY <1>3 DEF ProviderTypeOK, BackendInv, PodsLost, NothingStarts, RunState
<1> QED BY <1>1, <1>2, <1>3

LEMMA TriggerEffect ==
  ASSUME ProviderTypeOK, BackendInv, NEW r \in RunID, TriggerRun(r)
  PROVE  /\ ProviderTypeOK'
         /\ BackendInv'
         /\ runState[r] = Absent
         /\ runState'[r] = Running
         /\ r \in stored'
         /\ incomplete' = incomplete
         /\ \A q \in RunID : q # r => runState'[q] = runState[q]
BY DEF ProviderTypeOK, BackendInv, TriggerRun, Fresh, RunState

\* What a poll reports of a run: Running while it has no verdict, then its
\* verdict; or Errored once it is over, or what the pods that are left say.
LEMMA PollReports ==
  ASSUME ProviderTypeOK, NEW r \in RunID, NEW s \in GetRunResult(r)
  PROVE  /\ s \in RunState
         /\ \/ s = runState[r]
            \/ s = Errored /\ runState[r] # Running
            \/ s = Running /\ runState[r] = Ended
            \/ r \in incomplete /\ runState[r] # Running
         /\ runState[r] # Absent
         /\ r \in stored
BY DEF ProviderTypeOK, GetRunResult, PodsUnread, Remaining, RunState

=============================================================================
