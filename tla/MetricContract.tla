---------------------------- MODULE MetricContract ----------------------------
(***************************************************************************)
(* What the metric plugin and the analysis controller promise together to  *)
(* whoever reads an AnalysisRun's status: which run a measurement is of,   *)
(* what it says of it, and that what it said stays. Nothing is said of     *)
(* calls, reconciliations, lost answers, terminations, or of how CRs are   *)
(* collected.                                                              *)
(***************************************************************************)
EXTENDS Naturals, Sequences

CONSTANTS
  RunID,  \* the run ids
  NoRun,  \* no run id
  Limit   \* how many measurements are retained

VARIABLES
  asked,         \* the run the user asks to measure, or NoRun
  measurements,  \* the measurements, oldest first
  outcome,       \* what became of every run
  incomplete     \* the runs whose outcome cannot be read in full any more

vars == <<asked, measurements, outcome, incomplete>>

Verdicts == {"Passed", "Failed", "Errored", "Aborted"}

Init ==
  /\ asked \in RunID \cup {NoRun}
  /\ measurements = <<>>
  /\ outcome \in [RunID -> {"Absent", "Running"} \cup Verdicts]
  /\ incomplete = {}

InFlight ==
  measurements # <<>> /\ measurements[Len(measurements)].phase = "Running"

\* The oldest measurement goes when there is no room for it.
Add(m) ==
  LET ms == Append(measurements, m)
  IN  measurements' = IF Len(ms) > Limit THEN Tail(ms) ELSE ms

\* A measurement begins when the one before it is finished. It is of the run
\* the user asks for, or of one that exists and no measurement shows already.
Begin(r) ==
  /\ ~InFlight
  /\ IF asked = NoRun
     THEN /\ outcome[r] # "Absent"
          /\ \A i \in DOMAIN measurements : measurements[i].runID # r
     ELSE r = asked
  /\ Add([runID |-> r, phase |-> "Running"])
  /\ UNCHANGED <<asked, outcome, incomplete>>

\* No run could be had.
Refuse ==
  /\ ~InFlight
  /\ Add([runID |-> NoRun, phase |-> "Error"])
  /\ UNCHANGED <<asked, outcome, incomplete>>

\* Success and failure are the verdicts of the run the measurement is of, or
\* of what is left of it.
Speaks(r, p) ==
  /\ p = "Successful" => outcome[r] = "Passed" \/ r \in incomplete
  /\ p = "Failed" => outcome[r] = "Failed" \/ r \in incomplete

\* The measurement in flight is finished. The others stay as they are.
Finish(p) ==
  /\ InFlight
  /\ Speaks(measurements[Len(measurements)].runID, p)
  /\ measurements' = [measurements EXCEPT ![Len(measurements)].phase = p]
  /\ UNCHANGED <<asked, outcome, incomplete>>

\* Runs start, end and are lost sight of, and a verdict is never revised.
RunsMove ==
  /\ outcome' \in [RunID -> {"Absent", "Running"} \cup Verdicts]
  /\ \A r \in RunID :
       /\ outcome[r] \in Verdicts => outcome'[r] = outcome[r]
       /\ outcome'[r] = "Absent" => outcome[r] = "Absent"
  /\ incomplete' \in SUBSET RunID
  /\ incomplete \subseteq incomplete'
  /\ UNCHANGED <<asked, measurements>>

Next ==
  \/ \E r \in RunID : Begin(r)
  \/ Refuse
  \/ \E p \in {"Successful", "Failed", "Error"} : Finish(p)
  \/ RunsMove

Spec == Init /\ [][Next]_vars

=============================================================================
