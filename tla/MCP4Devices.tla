---------------------------- MODULE MCP4Devices ----------------------------
(***************************************************************************)
(* Instances of P4Devices for TLC.                                         *)
(***************************************************************************)
EXTENDS P4Devices

AllDrivers == {"uart", "i2c", "dma_tx", "dma_rx", "twai", "syst", "t0",
               "wdt", "gpio", "pcnt", "pwm"}
I2cOnly == {"i2c"}

MCClr == {RxBits, {"full"}, {"tx"}}
MCEna == {{}, RxBits}

(* Register writes, write-then-read and probes of an absent device; the    *)
(* first two registers also in the legacy driver's form.                   *)
Write(n) == Cmd("write", n)
MCCmds == {<<1, Cmd("rstart", 0)>>, <<2, Write(1)>>, <<2, Write(2)>>,
           <<3, Cmd("rstart", 0)>>, <<3, Cmd("stop", 0)>>, <<3, Write(1)>>,
           <<4, Write(1)>>, <<4, Cmd("end", 0)>>, <<5, Cmd("read", 2)>>}
MCData == {160, 161, 1}

(* 1 -> 2 (empty) -> 3 -> 5, whose buffer is outside RAM; 4 is a ring of   *)
(* its own; 98 is outside RAM.                                             *)
OutsideRam == 99
MCDescs == [d \in 1 .. 5 |->
  [words |-> <<2, 0, 1, 1, 1>>[d], buf |-> IF d = 5 THEN OutsideRam ELSE d,
   next |-> <<2, 3, 5, 4, 0>>[d]]]
MCHeads == {1, 4, 98}

MCTargets == {OneShot, [period |-> TRUE, p |-> 2]}
T0(en, inc, reload) ==
  [en |-> en, increase |-> inc, reload |-> reload, alarm_en |-> TRUE]
MCTimg == {T0(TRUE, TRUE, TRUE), T0(TRUE, FALSE, FALSE)}

(* Firmware drives pad 7, which is also the button's, and 30, beyond the   *)
(* effective outputs; 6 is the pulse source's, 2 has a peripheral.  The    *)
(* counter has pads with a check on every edge and one without.            *)
MCOutPads == 0 .. 29
MCPins == {<<7, "any">>, <<30, "high">>}
MCChannels == <<[pin |-> 6, rise |-> "up", fall |-> "down"],
                [pin |-> 7, rise |-> "up", fall |-> "hold"]>>

(* High from zero to the first compare value, up and down.                 *)
MCGen == [e \in Events |-> CASE e \in {"utez", "dcmp0"} -> "high"
                             [] e \in {"ucmp0", "dtez"} -> "low"
                             [] OTHER -> "keep"]
=============================================================================
