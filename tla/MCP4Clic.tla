----------------------------- MODULE MCP4Clic ------------------------------
(***************************************************************************)
(* Instances of P4Clic for TLC.  The startup code has routed source 79 on  *)
(* hart 0 (line 2), source 80 on hart 1 (line 0) and the device on both    *)
(* (line 9); the other entries keep the identity default: source 80 is     *)
(* line 16 of hart 0, source 79 line 15 of hart 1.                         *)
(***************************************************************************)
EXTENDS P4Clic

MCLines == {0, 2, 9, 15, 20}
MCSoftIds == {0}
MCDevice == 41
MCStartMap == [h \in Harts |-> [s \in Sources |->
                 CASE s = FromCpu(h) -> 2 - 2 * h [] s = Device -> 9 [] OTHER -> s]]
MCLevels == [id \in Ids |-> IF id \in {16, 18} THEN 2 ELSE 1]
NoArgs == {}

(* Configuration, masking and delivery: each hart enables its crosscore    *)
(* line, which has the highest level, and device lines, and hart 1 the     *)
(* CLINT soft interrupt and ID 0.  Hart 1 sets thresholds through the ROM  *)
(* call (the level of its crosscore line), the CSR and the register.       *)
MCEnables == [h \in Harts |-> IF h = 0 THEN {18, 25, 36} ELSE {16, 25, 3, 0}]
MCRoutes == {<<0, 41, 9>>}
MCMaps == {<<0, 41, 0>>, <<0, 41, 36>>}
MCPrios == {<<0, 9, 2>>, <<0, 9, 1>>}
MCMasks == {<<1, 9>>}
MCRomThresh == {<<1, 0>>, <<1, 2>>}
MCCsrThresh == {<<1, 3>>}
MCMmioThresh == {<<1, 0>>}
MCClint == {<<1, 3>>}
MCRmw == {<<1, 0>>}
MCPend == {<<1, 0>>}

(* Hart 1 reconfigures the device's line while its source may be up.       *)
DeviceRmw == {<<1, 25>>}

(* Hart 1 takes the device on line 15, where its map still has source 79.  *)
SharedEnables == [h \in Harts |-> IF h = 0 THEN {18} ELSE {16, 31}]
SharedRoutes == {<<1, 41, 15>>}
=============================================================================
