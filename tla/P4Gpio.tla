------------------------------- MODULE P4Gpio -------------------------------
(***************************************************************************)
(* GPIO pads of the P4, their interrupt, and one unit of the pulse counter *)
(* (PCNT) behind them.  A pad is high when its input is driven (gpio_in:   *)
(* the virtual button, the virtual pulse source, or a peripheral routed to *)
(* the pad) or its enabled output is.  Edges are found by comparing the    *)
(* pads with the ones seen last, in every firmware write and when the      *)
(* button moves; the pads that a peripheral or the pulse source drives     *)
(* change without such a comparison.                                       *)
(* The matrix (FUNCn_OUT_SEL, FUNCn_IN_SEL) and the unit's configuration   *)
(* are the ones programmed.                                                *)
(***************************************************************************)
EXTENDS Integers, Sequences

CONSTANTS
  Pins,       \* pads in use
  OutPads,    \* pads whose output esp32p4_gpio_eff_out reads (0 .. 29)
  Button,     \* the virtual button's pad (7)
  Pulse,      \* the virtual pulse source's pad (6)
  Routed,     \* pads with a peripheral signal (FUNCn_OUT_SEL # 256)
  Outputs,    \* pads that firmware drives
  PinArgs,    \* <<pad, type>> written to the PINn registers
  StatusArgs, \* sets of pads written to STATUS_W1TS and _W1TC
  Channels,   \* the unit's channels as the loops meet them, in order of
              \* their pins: [pin, rise, fall], actions in Actions
  Watch,      \* enabled thresholds, limits and zero of the unit
  CntHalf,    \* half the range of the counter (2^15)
  MaxCounted  \* bound: edges a history counts

Actions == {"hold", "up", "down"}
Types == {"off", "rise", "fall", "any", "low", "high"}   \* off: also when not enabled

ASSUME GpioAssumption ==
  /\ Button \in (Pins \cap OutPads) \ Routed /\ Routed \subseteq Pins
  /\ Pulse \in Pins \ {Button}
  /\ Outputs \subseteq Pins /\ PinArgs \subseteq Pins \X Types
  /\ StatusArgs \subseteq SUBSET Pins
  /\ Channels \in Seq([pin : Pins, rise : Actions, fall : Actions])
  /\ Watch \subseteq Int
  /\ CntHalf \in Nat \ {0} /\ MaxCounted \in Nat

VARIABLES
  gpio_in, gpio_out, gpio_enable,   \* sets of pads
  gpio_in_prev,                     \* pads that were high at the last check
  pin_type,                         \* per pad: its interrupt type
  gpio_status, gpio_source,
  pcnt_cnt, pcnt_paused,
  pcnt_raw, pcnt_ena, pcnt_source,
  counted,  \* history: what the unit has to count, without wrapping
  missed,   \* history: a pad it counts changed without a check
  bare      \* history: STATUS_W1TS of 0 since the source was last cleared

padVars == <<gpio_in, gpio_out, gpio_enable, gpio_in_prev, counted, missed>>
gpioInt == <<gpio_status, gpio_source, bare>>
pcntInt == <<pcnt_raw, pcnt_source>>
gpioVars == <<padVars, pin_type, gpioInt, pcnt_cnt, pcnt_paused, pcnt_ena, pcntInt>>

GpioInit ==
  /\ gpio_in = {} /\ gpio_out = {} /\ gpio_enable = {} /\ gpio_in_prev = {}
  /\ pin_type = [p \in Pins |-> "off"]
  /\ gpio_status = {} /\ gpio_source = FALSE
  /\ pcnt_cnt = 0 /\ pcnt_paused = FALSE
  /\ pcnt_raw = FALSE /\ pcnt_ena = FALSE /\ pcnt_source = FALSE
  /\ counted = 0 /\ missed = FALSE /\ bare = FALSE

----------------------------------------------------------------------------
(* Pads.                                                                   *)

(* esp32p4_gpio_eff_out: the output of a routed pad is what its peripheral *)
(* drives.                                                                 *)
EffOut(in, out, enable) ==
  {p \in enable \cap OutPads : IF p \in Routed THEN p \in in ELSE p \in out}

(* GPIO_IN.                                                                *)
Pads(in, out, enable) == in \cup EffOut(in, out, enable)
Live == Pads(gpio_in, gpio_out, gpio_enable)

ButtonPadsInputs(in) == in

(* The pads as the button's check computes them: gpio_out of routed pads   *)
(* and of pads beyond OutPads too.                                         *)
ButtonPads(in) == in \cup (gpio_out \cap gpio_enable)

LevelMatches(p, up) == pin_type[p] = (IF up THEN "high" ELSE "low")

(* The interrupt of a pad that changed to the level up.                    *)
Triggers(p, up) ==
  pin_type[p] = "any" \/ pin_type[p] = (IF up THEN "rise" ELSE "fall")
                      \/ LevelMatches(p, up)

(* int16_t.                                                                *)
Signed(n) == ((n + CntHalf) % (2 * CntHalf)) - CntHalf

Delta(act) == CASE act = "up" -> 1 [] act = "down" -> -1 [] OTHER -> 0

(* The unit after the edges of the pads changed, now high where in new:    *)
(* after each the count is compared with the watched values.               *)
Edge(u, ch, changed, new) ==
  IF ch.pin \notin changed THEN u
  ELSE LET n == Signed(u.cnt + Delta(IF ch.pin \in new THEN ch.rise ELSE ch.fall))
       IN  [cnt |-> n, hit |-> u.hit \/ n \in Watch]
Counted(changed, new) ==
  LET unit[i \in 0 .. Len(Channels)] ==
        IF i = 0 THEN [cnt |-> pcnt_cnt, hit |-> FALSE]
        ELSE Edge(unit[i - 1], Channels[i], changed, new)
  IN  unit[IF pcnt_paused \/ changed = {} THEN 0 ELSE Len(Channels)]

(* esp32p4_gpio_edge_check; more: pads whose interrupt is raised besides.  *)
EdgeCheck(new, more) ==
  LET changed == (new \ gpio_in_prev) \cup (gpio_in_prev \ new)
      fired == more \cup {p \in changed : Triggers(p, p \in new)}
      unit == Counted(changed, new)
  IN  /\ gpio_status' = gpio_status \cup fired
      /\ gpio_source' = (gpio_source \/ fired # {})
      /\ pcnt_cnt' = unit.cnt
      /\ pcnt_raw' = (pcnt_raw \/ unit.hit)
      /\ pcnt_source' = (pcnt_source \/ (unit.hit /\ pcnt_ena))
      /\ gpio_in_prev' = new
      /\ UNCHANGED bare

(* What the unit has to count when the pads change from old to new.        *)
Worth(ch, old, new) ==
  CASE ch.pin \in new \ old -> Delta(ch.rise)
    [] ch.pin \in old \ new -> Delta(ch.fall)
    [] OTHER -> 0
Tally(old, new) ==
  LET sum[i \in 0 .. Len(Channels)] ==
        IF i = 0 THEN counted ELSE sum[i - 1] + Worth(Channels[i], old, new)
  IN  /\ counted' = sum[IF pcnt_paused \/ old = new THEN 0 ELSE Len(Channels)]
      /\ counted' \in -MaxCounted .. MaxCounted

(* The unit counts a pad that is in one of the sets and not in the other.  *)
CountedPadIn(a, b) == \E i \in DOMAIN Channels : Channels[i].pin \in (a \ b) \cup (b \ a)

(* The GPIO part of esp32p4_periodic: the button may have moved (flip),    *)
(* level interrupts are raised again; then the pulse source's pad takes    *)
(* its level (the one the second of its two blocks computes, as nothing    *)
(* reads the pad between them), and later in the poll the routed pads take *)
(* the levels that LEDC and MCPWM drive.                                   *)
GpioPoll(flip, pulse, drive) ==
  LET in == IF ~flip THEN gpio_in
            ELSE IF Button \in gpio_in THEN gpio_in \ {Button}
            ELSE gpio_in \cup {Button}
      held == {p \in Pins : LevelMatches(p, p \in in)}
      pulsed == IF pulse THEN in \cup {Pulse} ELSE in \ {Pulse}
      checked == Pads(in, gpio_out, gpio_enable)
      new == Pads(gpio_in', gpio_out, gpio_enable)
  IN  /\ EdgeCheck(IF flip THEN ButtonPads(in) ELSE gpio_in_prev, held)
      /\ gpio_in' = (pulsed \ Routed) \cup drive
      /\ Tally(Live, new)
      /\ missed' = (missed \/ CountedPadIn(checked, new) \/ (flip /\ CountedPadIn(ButtonPads(in), checked)))
      /\ UNCHANGED <<gpio_out, gpio_enable, pin_type, pcnt_paused, pcnt_ena>>

GpioDriveUnchecked(out, enable) ==
  LET new == Pads(gpio_in, out, enable)
  IN  /\ gpio_out' = out /\ gpio_enable' = enable
      /\ IF enable = gpio_enable THEN EdgeCheck(new, {})
         ELSE UNCHANGED <<gpio_in_prev, gpioInt, pcnt_cnt, pcntInt>>
      /\ Tally(Live, new)
      /\ UNCHANGED <<gpio_in, pin_type, pcnt_paused, pcnt_ena, missed>>

(* OUT, ENABLE and their W1TS and W1TC forms.                              *)
GpioDrive(out, enable) ==
  LET new == Pads(gpio_in, out, enable)
  IN  /\ gpio_out' = out /\ gpio_enable' = enable
      /\ EdgeCheck(new, {})
      /\ Tally(Live, new)
      /\ UNCHANGED <<gpio_in, pin_type, pcnt_paused, pcnt_ena, missed>>

(* PINn.                                                                   *)
GpioPin(p, type) ==
  /\ pin_type' = [pin_type EXCEPT ![p] = type]
  /\ UNCHANGED <<padVars, gpioInt, pcnt_cnt, pcnt_paused, pcnt_ena, pcntInt>>

(* STATUS_W1TS, which raises the source also without a bit, and _W1TC.     *)
GpioStatusSet(pins) ==
  /\ gpio_status' = gpio_status \cup pins
  /\ gpio_source' = TRUE
  /\ bare' = (bare \/ pins = {})
  /\ UNCHANGED <<padVars, pin_type, pcnt_cnt, pcnt_paused, pcnt_ena, pcntInt>>

GpioStatusClearAlways(pins) ==
  /\ gpio_status' = gpio_status \ pins
  /\ gpio_source' = FALSE
  /\ bare' = FALSE
  /\ UNCHANGED <<padVars, pin_type, pcnt_cnt, pcnt_paused, pcnt_ena, pcntInt>>

GpioStatusClear(pins) ==
  /\ gpio_status' = gpio_status \ pins
  /\ gpio_source' = (gpio_source /\ gpio_status' # {})
  /\ bare' = (bare /\ gpio_status' # {})
  /\ UNCHANGED <<padVars, pin_type, pcnt_cnt, pcnt_paused, pcnt_ena, pcntInt>>

----------------------------------------------------------------------------
(* Registers of the pulse counter.                                         *)

(* CTRL: reset and pause bits of the unit.                                 *)
PcntCtrl(reset, pause) ==
  /\ pcnt_paused' = pause
  /\ pcnt_cnt' = IF reset THEN 0 ELSE pcnt_cnt
  /\ counted' = IF reset THEN 0 ELSE counted
  /\ missed' = IF reset THEN CountedPadIn(gpio_in_prev, Live) ELSE missed
  /\ UNCHANGED <<gpio_in, gpio_out, gpio_enable, gpio_in_prev, pin_type, gpioInt,
                 pcnt_ena, pcntInt>>

PcntIntEna(on) ==
  /\ pcnt_ena' = on
  /\ UNCHANGED <<padVars, pin_type, gpioInt, pcnt_cnt, pcnt_paused, pcntInt>>

(* INT_CLR with the unit's bit.                                            *)
PcntIntClr ==
  /\ pcnt_raw' = FALSE /\ pcnt_source' = FALSE
  /\ UNCHANGED <<padVars, pin_type, gpioInt, pcnt_cnt, pcnt_paused, pcnt_ena>>

(* What firmware writes to the pads, to their interrupt registers and to   *)
(* the unit.                                                               *)
PadGuest ==
  \E pads \in SUBSET Outputs :
    GpioDrive(pads, gpio_enable) \/ GpioDrive(gpio_out, pads)

GpioIntGuest ==
  \/ \E a \in PinArgs : GpioPin(a[1], a[2])
  \/ \E pins \in StatusArgs : GpioStatusSet(pins) \/ GpioStatusClear(pins)

PcntGuest ==
  \/ \E reset, pause \in BOOLEAN : PcntCtrl(reset, pause)
  \/ \E on \in BOOLEAN : PcntIntEna(on)
  \/ PcntIntClr

----------------------------------------------------------------------------
(* Properties.                                                             *)

(* The unit has counted every edge of its pads exactly once, modulo its    *)
(* width: edges come from outputs, output enables and the button, several  *)
(* at a time, and the ones that pass while it is paused do not count.  It  *)
(* is so until the pulse source or a peripheral changes a pad it counts:   *)
(* the code has no check there.  A reset starts again if all its pads have *)
(* been checked.                                                           *)
PcntCounts == ~missed => pcnt_cnt = Signed(counted)

(* The GPIO source is pending exactly while a status bit is set - two pads *)
(* share it and are acknowledged one by one -, or after STATUS_W1TS of 0;  *)
(* that of the counter only while its event is.                            *)
SourcesBacked ==
  /\ gpio_source <=> gpio_status # {} \/ bare
  /\ pcnt_source => pcnt_raw

(* A change of a pad that firmware or the button drives sets the status    *)
(* bit of the interrupt it is configured for, whichever step changes it.   *)
(* The pads of the pulse source and of peripherals change with no check.   *)
ChangeAnnounced(old, new) ==
  \A p \in ((new \ old) \cup (old \ new)) \ (Routed \cup {Pulse}) :
    Triggers(p, p \in new) => p \in gpio_status'
EdgesAnnounced == [][ChangeAnnounced(Live, Live')]_gpioVars
=============================================================================
