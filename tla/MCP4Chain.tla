----------------------------- MODULE MCP4Chain -----------------------------
(* Instances of P4Chain for TLC.                                           *)
EXTENDS P4Chain
============================================================================
