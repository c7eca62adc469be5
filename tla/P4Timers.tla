------------------------------ MODULE P4Timers ------------------------------
(***************************************************************************)
(* Timers of the P4: the SYSTIMER with its alarm targets, and one timer    *)
(* group (timer T0 and the watchdog).  esp32p4_periodic advances them by   *)
(* the cycles d that hart 0 ran since the last poll; a register write      *)
(* anchors at the cycle counter of the hart that writes, which may be up   *)
(* to Ahead cycles ahead of hart 0's (hart 1 ran a quantum) or up to       *)
(* Behind cycles behind it (a handler of hart 0 ran inside hart 1's poll). *)
(* Anchors and expiry times are kept relative to hart 0's counter.         *)
(***************************************************************************)
EXTENDS Integers

CONSTANTS
  Ahead, Behind, \* bounds of the writer's clock skew
  MaxStep,       \* bound: cycles between two polls
  MaxCount,      \* bound: SYSTIMER ticks, and cycles a history counts
  SystDiv,       \* cycles per SYSTIMER tick (5)
  Targets,       \* the alarm targets
  TargetArgs,    \* [period, p] values written to TARGETn_CONF
  CompArgs,      \* values written to the comparators
  TimgStep,      \* cycles per T0 tick (divider and clock)
  TimgArgs,      \* [en, increase, reload, alarm_en] values of T0CONFIG
  TimgLoad, TimgAlarm,  \* the programmed load and alarm values
  WdtArgs        \* timeouts in cycles (CONFIG1 and CONFIG2)

(* The timeout of zeroed registers: one tick of the undivided clock.       *)
HoldAtReset == 2

ASSUME TimersAssumption ==
  /\ Ahead \in Nat /\ Behind \in Nat /\ MaxStep \in Nat /\ MaxCount \in Nat
  /\ SystDiv \in Nat \ {0} /\ TimgStep \in Nat \ {0}
  /\ TargetArgs \subseteq [period : BOOLEAN, p : Nat]
  /\ CompArgs \subseteq Nat
  /\ TimgArgs \subseteq [en : BOOLEAN, increase : BOOLEAN, reload : BOOLEAN,
                         alarm_en : BOOLEAN]
  /\ TimgLoad \in Nat /\ TimgAlarm \in Nat
  /\ WdtArgs \subseteq Nat \ {0} /\ HoldAtReset \in WdtArgs
  /\ \A hold \in WdtArgs : hold + Ahead < MaxCount   \* the history sees it bite

VARIABLES
  systimer_counter, systimer_frac,
  work_en,           \* targets with their WORK_EN bit
  target_conf, comp, crossed,    \* per target; crossed: periods seen
  systimer_raw, systimer_ena, systimer_source,  \* sets of targets
  timg_cfg, timg_counter, timg_frac,
  timg_skew,         \* timg_anchor - hart 0's cycle
  timg_raw, timg_ena,            \* of {"t0", "wdt"}
  timg_source,       \* the pending ones of the group's two sources
  wdt_en, wdt_unlock, wdt_hold,
  wdt_left,          \* wdt_expire - hart 0's cycle, 0 when passed
  timg_base, timg_age,  \* history: value and hart 0 cycles at the last anchor
  wdt_age            \* history: hart 0 cycles since the watchdog was (re)armed

systConf == <<work_en, target_conf, comp, crossed>>
systInt == <<systimer_raw, systimer_ena, systimer_source>>
systVars == <<systimer_counter, systimer_frac, systConf, systInt>>
t0Vars == <<timg_cfg, timg_counter, timg_frac, timg_skew, timg_base, timg_age>>
timgInt == <<timg_raw, timg_ena, timg_source>>
wdtVars == <<wdt_en, wdt_unlock, wdt_hold, wdt_left, wdt_age>>
timerVars == <<systVars, t0Vars, timgInt, wdtVars>>

Skews == -Behind .. Ahead
OneShot == [period |-> FALSE, p |-> 0]
Clip(x) == IF x > MaxCount THEN MaxCount ELSE x

TimersInit ==
  /\ systimer_counter = 0 /\ systimer_frac = 0
  /\ work_en = {}
  /\ target_conf = [t \in Targets |-> OneShot]
  /\ comp = [t \in Targets |-> 0]
  /\ crossed = [t \in Targets |-> 0]
  /\ systimer_raw = {} /\ systimer_ena = {} /\ systimer_source = {}
  /\ timg_cfg = [en |-> FALSE, increase |-> FALSE, reload |-> FALSE,
                 alarm_en |-> FALSE]
  /\ timg_counter = 0 /\ timg_frac = 0 /\ timg_skew = 0
  /\ timg_raw = {} /\ timg_ena = {} /\ timg_source = {}
  /\ wdt_en = FALSE /\ wdt_unlock = FALSE
  /\ wdt_hold = HoldAtReset
  /\ wdt_left = 0 /\ wdt_age = 0
  /\ timg_base = 0 /\ timg_age = 0

----------------------------------------------------------------------------
(* SYSTIMER.                                                               *)

Periods(conf, cnt) == cnt \div conf.p

Periodic(t) == target_conf[t].period /\ target_conf[t].p # 0

(* A target fires: a period boundary since the last one it saw, or the     *)
(* comparator reached (level: again at every poll).                        *)
Fires(t, cnt) ==
  /\ t \in work_en
  /\ IF target_conf[t].period
     THEN Periodic(t) /\ Periods(target_conf[t], cnt) > crossed[t]
     ELSE comp[t] # 0 /\ cnt >= comp[t]

SystPoll(d) ==
  LET total == systimer_frac + d
      cnt == systimer_counter + total \div SystDiv
      firing == {t \in Targets : Fires(t, cnt)}
  IN  /\ cnt <= MaxCount
      /\ systimer_counter' = cnt
      /\ systimer_frac' = total % SystDiv
      /\ crossed' = [t \in Targets |->
                       IF t \in firing /\ Periodic(t)
                       THEN Periods(target_conf[t], cnt) ELSE crossed[t]]
      /\ systimer_raw' = systimer_raw \cup firing
      /\ systimer_source' = systimer_source \cup (firing \cap systimer_ena)
      /\ UNCHANGED <<work_en, target_conf, comp, systimer_ena>>

SystConfNoSync(on) ==
  /\ work_en' = on
  /\ UNCHANGED <<systimer_counter, systimer_frac, target_conf, comp, crossed,
                 systInt>>

(* SYSTIMER_CONF: the enables; every periodic target skips the boundaries  *)
(* it has not seen.                                                        *)
SystConf(on) ==
  /\ work_en' = on
  /\ crossed' = [t \in Targets |->
       IF Periodic(t) THEN Periods(target_conf[t], systimer_counter)
                      ELSE crossed[t]]
  /\ UNCHANGED <<systimer_counter, systimer_frac, target_conf, comp, systInt>>

(* TARGETn_CONF: mode and period of one target, likewise.                  *)
SystTargetConf(t, conf) ==
  /\ target_conf' = [target_conf EXCEPT ![t] = conf]
  /\ crossed' = IF conf.period /\ conf.p # 0
                THEN [crossed EXCEPT ![t] = Periods(conf, systimer_counter)]
                ELSE crossed
  /\ UNCHANGED <<systimer_counter, systimer_frac, work_en, comp, systInt>>

(* TARGETn_LO and _HI.                                                     *)
SystTarget(t, v) ==
  /\ comp' = [comp EXCEPT ![t] = v]
  /\ UNCHANGED <<systimer_counter, systimer_frac, work_en, target_conf,
                 crossed, systInt>>

SystIntEna(on) ==
  /\ systimer_ena' = on
  /\ UNCHANGED <<systimer_counter, systimer_frac, systConf, systimer_raw,
                 systimer_source>>

SystIntClrKeepsSource(t) ==
  /\ systimer_raw' = systimer_raw \ {t}
  /\ UNCHANGED <<systimer_counter, systimer_frac, systConf, systimer_ena,
                 systimer_source>>

(* INT_CLR: only the sources of the bits cleared.                          *)
SystIntClr(t) ==
  /\ systimer_raw' = systimer_raw \ {t}
  /\ systimer_source' = systimer_source \ {t}
  /\ UNCHANGED <<systimer_counter, systimer_frac, systConf, systimer_ena>>

SystGuest ==
  \/ \E on \in SUBSET Targets : SystConf(on) \/ SystIntEna(on)
  \/ \E t \in Targets :
       \/ \E conf \in TargetArgs : SystTargetConf(t, conf)
       \/ \E v \in CompArgs : SystTarget(t, v)
       \/ SystIntClr(t)

----------------------------------------------------------------------------
(* Timer group: T0.                                                        *)

ElapsedUnclamped(d) == (d - timg_skew) % 256

(* Cycles since the anchor; an anchor in the future gives none.            *)
Elapsed(d) == IF d >= timg_skew THEN d - timg_skew ELSE 0

(* One poll of T0: counter, fraction and whether the alarm is passed.      *)
T0After(d) ==
  LET total == timg_frac + Elapsed(d)
      ticks == total \div TimgStep
      cnt == IF timg_cfg.increase THEN timg_counter + ticks
             ELSE IF ticks > timg_counter THEN 0 ELSE timg_counter - ticks
  IN  [cnt |-> cnt, frac |-> total % TimgStep,
       past |-> /\ timg_cfg.alarm_en /\ TimgAlarm # 0
                /\ IF timg_cfg.increase THEN cnt >= TimgAlarm
                                        ELSE cnt <= TimgAlarm]

(* The group's part of esp32p4_periodic: T0, then the watchdog.  A source  *)
(* is raised when any enabled bit of the group is up.                      *)
TimgPoll(d) ==
  LET a == T0After(d)
      past == timg_cfg.en /\ a.past
      reload == past /\ timg_cfg.reload
      left == IF wdt_left > d THEN wdt_left - d ELSE 0
      expired == wdt_en /\ left = 0
      raw1 == timg_raw \cup (IF past THEN {"t0"} ELSE {})
      raw2 == raw1 \cup (IF expired THEN {"wdt"} ELSE {})
  IN  /\ IF timg_cfg.en
         THEN /\ timg_counter' = IF reload THEN TimgLoad ELSE a.cnt
              /\ timg_frac' = IF reload THEN 0 ELSE a.frac
              /\ timg_skew' = 0
              /\ timg_base' = IF reload THEN TimgLoad ELSE timg_base
              /\ timg_age' = IF reload THEN 0 ELSE timg_age + d
              /\ timg_age' <= MaxCount
         ELSE UNCHANGED <<timg_counter, timg_frac, timg_skew, timg_base, timg_age>>
      /\ timg_raw' = raw2
      /\ timg_source' = timg_source
           \cup (IF past /\ raw1 \cap timg_ena # {} THEN {"t0"} ELSE {})
           \cup (IF expired /\ raw2 \cap timg_ena # {} THEN {"wdt"} ELSE {})
      /\ wdt_left' = left
      /\ wdt_age' = Clip(wdt_age + d)
      /\ UNCHANGED <<timg_cfg, timg_ena, wdt_en, wdt_unlock, wdt_hold>>

(* T0CONFIG: the anchor is the writer's cycle.                             *)
TimgConfig(cfg, skew) ==
  /\ timg_cfg' = cfg
  /\ timg_skew' = skew /\ timg_frac' = 0
  /\ timg_base' = timg_counter /\ timg_age' = 0
  /\ UNCHANGED <<timg_counter, timgInt, wdtVars>>

(* T0LOAD.                                                                 *)
TimgLoadNow(skew) ==
  /\ timg_counter' = TimgLoad
  /\ timg_skew' = skew /\ timg_frac' = 0
  /\ timg_base' = TimgLoad /\ timg_age' = 0
  /\ UNCHANGED <<timg_cfg, timgInt, wdtVars>>

TimgIntEna(on) ==
  /\ timg_ena' = on
  /\ UNCHANGED <<t0Vars, timg_raw, timg_source, wdtVars>>

(* INT_CLR drops T0's source, and only when no enabled bit is left.        *)
TimgIntClr(bits) ==
  /\ timg_raw' = timg_raw \ bits
  /\ timg_source' = IF timg_raw' \cap timg_ena = {} THEN timg_source \ {"t0"}
                                                    ELSE timg_source
  /\ UNCHANGED <<t0Vars, timg_ena, wdtVars>>

----------------------------------------------------------------------------
(* Timer group: the watchdog.                                              *)

Expiry(hold, skew) == IF hold + skew > 0 THEN hold + skew ELSE 0

WdtProtect(unlock) ==
  /\ wdt_unlock' = unlock
  /\ UNCHANGED <<t0Vars, timgInt, wdt_en, wdt_hold, wdt_left, wdt_age>>

(* WDT_CONFIG0 while unlocked: arm, or disarm and clear; while locked it   *)
(* has no effect.                                                          *)
WdtConfig(on, skew) ==
  /\ wdt_unlock
  /\ wdt_en' = on
  /\ wdt_left' = IF on THEN Expiry(wdt_hold, skew) ELSE wdt_left
  /\ wdt_age' = IF on THEN 0 ELSE wdt_age
  /\ timg_raw' = IF on THEN timg_raw ELSE timg_raw \ {"wdt"}
  /\ timg_source' = IF on THEN timg_source ELSE timg_source \ {"wdt"}
  /\ UNCHANGED <<t0Vars, timg_ena, wdt_unlock, wdt_hold>>

(* WDT_CONFIG1 and 2: no protection; an armed watchdog starts over.        *)
WdtTimeout(hold, skew) ==
  /\ wdt_hold' = hold
  /\ wdt_left' = IF wdt_en THEN Expiry(hold, skew) ELSE wdt_left
  /\ wdt_age' = IF wdt_en THEN 0 ELSE wdt_age
  /\ UNCHANGED <<t0Vars, timgInt, wdt_en, wdt_unlock>>

WdtFeedNoRearm(skew) ==
  /\ wdt_unlock
  /\ timg_raw' = timg_raw \ {"wdt"}
  /\ timg_source' = timg_source \ {"wdt"}
  /\ wdt_age' = 0
  /\ UNCHANGED <<t0Vars, timg_ena, wdt_en, wdt_unlock, wdt_hold, wdt_left>>

(* WDT_FEED.                                                               *)
WdtFeed(skew) ==
  /\ wdt_unlock
  /\ timg_raw' = timg_raw \ {"wdt"}
  /\ timg_source' = IF timg_raw' \cap timg_ena = {} THEN timg_source \ {"wdt"}
                                                    ELSE timg_source
  /\ wdt_left' = Expiry(wdt_hold, skew)
  /\ wdt_age' = 0
  /\ UNCHANGED <<t0Vars, timg_ena, wdt_en, wdt_unlock, wdt_hold>>

T0Guest ==
  \E skew \in Skews :
    \/ \E cfg \in TimgArgs : TimgConfig(cfg, skew)
    \/ TimgLoadNow(skew)

WdtGuest ==
  \/ \E skew \in Skews :
       \/ \E on \in BOOLEAN : WdtConfig(on, skew)
       \/ \E hold \in WdtArgs : WdtTimeout(hold, skew)
       \/ WdtFeed(skew)
  \/ \E unlock \in BOOLEAN : WdtProtect(unlock)

TimgIntGuest ==
  \E on \in SUBSET {"t0", "wdt"} : TimgIntEna(on) \/ TimgIntClr(on)

TimgGuest == T0Guest \/ WdtGuest \/ TimgIntGuest

TimersPoll(d) == SystPoll(d) /\ TimgPoll(d)

TimersNext ==
  \/ \E d \in 0 .. MaxStep : TimersPoll(d)
  \/ SystGuest /\ UNCHANGED <<t0Vars, timgInt, wdtVars>>
  \/ TimgGuest /\ UNCHANGED systVars

TimersSpec == TimersInit /\ [][TimersNext]_timerVars

----------------------------------------------------------------------------
(* Properties.                                                             *)

(* Fractions below a tick, sources of existing bits.                       *)
TimersTypeOK ==
  /\ systimer_counter \in 0 .. MaxCount /\ systimer_frac \in 0 .. SystDiv - 1
  /\ work_en \subseteq Targets /\ systimer_raw \subseteq Targets
  /\ systimer_source \subseteq systimer_raw
  /\ crossed \in [Targets -> Nat]
  /\ timg_counter \in Nat /\ timg_frac \in 0 .. TimgStep - 1
  /\ timg_skew \in Skews
  /\ wdt_left \in Nat

(* An enabled periodic alarm has seen exactly the boundaries there were:   *)
(* enabling or reprogramming any target, or enabling another one, neither  *)
(* fires for old boundaries nor swallows a new one.                        *)
MarkersInStep ==
  \A t \in work_en : Periodic(t) =>
     crossed[t] = Periods(target_conf[t], systimer_counter)

(* T0 keeps hart 0's time: since its last anchor it has counted hart 0's   *)
(* cycles, less at most Ahead and plus at most Behind - never a wrapped    *)
(* difference, whichever hart wrote the anchor.                            *)
TimgKeepsTime ==
  LET ticks == IF timg_cfg.increase THEN timg_counter - timg_base
                                    ELSE timg_base - timg_counter
      counted == ticks * TimgStep + timg_frac
  IN  timg_cfg.en =>
        /\ counted <= timg_age + Behind
        /\ timg_counter > 0 => counted >= timg_age - Ahead

(* The watchdog bites neither early nor late by hart 0's time: its bit     *)
(* rises only when the timeout, less the skew, has passed since the last   *)
(* feed or arming, and it is up after every poll beyond timeout and skew.  *)
WdtOnTime ==
  [][/\ "wdt" \in timg_raw' \ timg_raw => wdt_age' >= wdt_hold - Behind
     /\ wdt_en /\ wdt_age' > wdt_age /\ wdt_age' > wdt_hold + Ahead
          => "wdt" \in timg_raw']_timerVars
=============================================================================
