---------------------------- MODULE StepContract ----------------------------
(***************************************************************************)
(* What the step plugin promises to whoever reads a Rollout's status:      *)
(* which run a step stands on, what it says of it, and how that relates to *)
(* what became of the run. Nothing is said of calls, retries, timeouts,    *)
(* lost answers, cleanups, or of how a run is stopped.                     *)
(***************************************************************************)
CONSTANTS
  RunID,      \* the run ids
  NoRun,      \* no run id
  MayReplay   \* may a step that has answered be asked again?

VARIABLES
  attached,  \* the run the step stands on
  answer,    \* what it says: its phase
  outcome,   \* what became of every run
  incomplete \* the runs whose outcome cannot be read in full any more

vars == <<attached, answer, outcome, incomplete>>

Ended == {"Passed", "NotPassed"}
Final == {"Successful", "Failed"}

Init ==
  /\ attached = NoRun
  /\ answer = "None"
  /\ outcome \in [RunID -> {"Absent", "Running"} \cup Ended]
  /\ incomplete = {}

\* A step that has given its answer gives no other.
MayAnswer == answer \in Final => MayReplay

\* The step speaks about a run: the one it already stands on, if there is one.
\* It speaks of a success only if that run has passed, or what is left of it.
Report(r, a) ==
  /\ MayAnswer
  /\ attached \in {NoRun, r}
  /\ a = "Successful" => outcome[r] = "Passed" \/ r \in incomplete
  /\ attached' = r
  /\ answer' = a
  /\ UNCHANGED <<outcome, incomplete>>

\* The step cannot be run at all.
Reject ==
  /\ MayAnswer
  /\ attached = NoRun
  /\ answer' = "Failed"
  /\ UNCHANGED <<attached, outcome, incomplete>>

\* The step could not find out; it will be asked again.
Retry ==
  /\ MayAnswer
  /\ answer' = "Error"
  /\ UNCHANGED <<attached, outcome, incomplete>>

\* Runs start, end and are lost sight of, several at once when a backend call
\* does both, and an outcome is never revised.
RunsMove ==
  /\ outcome' \in [RunID -> {"Absent", "Running"} \cup Ended]
  /\ \A r \in RunID :
       /\ outcome[r] \in Ended => outcome'[r] = outcome[r]
       /\ outcome'[r] = "Absent" => outcome[r] = "Absent"
  /\ incomplete' \in SUBSET RunID
  /\ incomplete \subseteq incomplete'
  /\ UNCHANGED <<attached, answer>>

Next ==
  \/ \E r \in RunID, a \in {"Running"} \cup Final : Report(r, a)
  \/ Reject
  \/ Retry
  \/ RunsMove

Spec == Init /\ [][Next]_vars

=============================================================================
