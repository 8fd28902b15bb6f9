---------------------------- MODULE MCStepPlugin ----------------------------
(***************************************************************************)
(* Small instances of StepPlugin for TLC.                                  *)
(***************************************************************************)
EXTENDS StepPlugin, Config

CONSTANTS g1, r1   \* g1: a run the user may ask the step to attach to

MCTwoRuns == {g1, r1}

\* What Run's parseConfig and parseTimeout make of a configuration.
MCStepConfig(c, id) == [parsed |-> StepParses(c), testRunID |-> id]

MCOperator == UserConfig("k6-operator", "complete", "", 0, <<>>)

MCTriggering == MCStepConfig(MCOperator, NoRun)
MCPollOnly   == MCStepConfig([MCOperator EXCEPT !.testRunID = <<"g1">>], g1)

MCAllConfigs ==
  { MCTriggering, MCPollOnly,
    MCStepConfig([MCOperator EXCEPT !.configMapRef = "nil"], NoRun),
    MCStepConfig([MCOperator EXCEPT !.timeout = [given |-> "malformed", ms |-> 0]], NoRun) }
MCTriggerOnly  == {MCTriggering}
MCPollOnlyOnly == {MCPollOnly}

\* Everything can go wrong; all that can on Grafana Cloud, but for what keeps
\* StopRun from working; and one failing poll.
MCAllFaults   == AllFaults
MCCloudFaults == {"triggerError", "triggerLost", "pollError", "vanish", "crash"}
MCPollFault   == {"pollError"}
MCNoFaults    == {}

=============================================================================
