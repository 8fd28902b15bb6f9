--------------------------- MODULE MCMetricPlugin ---------------------------
(***************************************************************************)
(* Small instances of MetricPlugin for TLC.                                *)
(***************************************************************************)
EXTENDS MetricPlugin, Config

CONSTANTS g1, r1, r2, r3   \* g1: a run the user may ask to measure

MCTwoRuns   == {g1, r1}
MCThreeRuns == {r1, r2, r3}

\* What parseConfig and extractMetricValue make of a configuration.
MCMetricConfig(c, id) ==
  [ parsed    |-> MetricParses(c),
    value     |-> IF MetricIsKnown(c) THEN "known" ELSE "unsupported",
    testRunID |-> id ]

MCOperator == UserConfig("k6-operator", "complete", "", 0, <<>>)

MCTriggering  == MCMetricConfig(MCOperator, NoRun)
MCPollOnly    == MCMetricConfig([MCOperator EXCEPT !.testRunID = <<"g1">>], g1)
MCUnsupported == MCMetricConfig([MCOperator EXCEPT !.metric = "http_req_duration"], NoRun)
MCInvalid     == MCMetricConfig([MCOperator EXCEPT !.parallelism = -1], NoRun)

MCAllConfigs  == {MCTriggering, MCPollOnly, MCUnsupported, MCInvalid}
MCTriggerOnly == {MCTriggering}

\* Everything but what keeps StopRun from working; nothing that makes a
\* measurement lose its run, a cleanup fail or a poll differ from the verdict;
\* and nothing.
MCStopFaults == AllFaults \ {"stopError"}
MCTidyFaults == {"triggerError", "vanish"}
MCNoFaults   == {}

=============================================================================
