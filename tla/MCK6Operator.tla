---------------------------- MODULE MCK6Operator ----------------------------
(***************************************************************************)
(* A small instance of K6Operator for TLC.                                 *)
(***************************************************************************)
EXTENDS K6Operator

\* Thresholds passed, thresholds breached, and an error of k6.
MCExitCodes == {0, 99, 107}
MCAllFaults == AllFaults

=============================================================================
