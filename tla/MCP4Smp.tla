------------------------------ MODULE MCP4Smp ------------------------------
(* Instances of P4Smp for TLC.                                             *)
EXTENDS P4Smp
============================================================================
