------------------------------- MODULE P4Pwm -------------------------------
(***************************************************************************)
(* MCPWM of the P4: one timer and a generator of an operator connected to  *)
(* it (the three of each are copies).  esp32p4_periodic advances the timer *)
(* by the ticks that fit into the cycles since the last poll, and applies  *)
(* the generator's action at every tick that meets an event.  A start is   *)
(* anchored at the cycle counter of the hart that writes the command; the  *)
(* anchor is kept relative to hart 0's counter, which the polls use.       *)
(* The pad force fields, the pads and the interrupt registers, which       *)
(* nothing sets, are left out.                                             *)
(***************************************************************************)
EXTENDS Integers

CONSTANTS
  PwmAhead, PwmBehind, \* bounds of the writer's clock skew
  PwmMaxStep,          \* bound: cycles between two polls
  PwmMaxAge,           \* bound: cycles between two starts
  PwmStep,             \* cycles per tick (the prescalers)
  PeriodArgs,          \* periods written to TIMER_CFG0
  Cmp0, Cmp1,          \* the programmed compare values
  Gen                  \* action of the generator at each event

Up == 0
Down == 1
Events == {"utez", "utep", "ucmp0", "ucmp1", "dtep", "dtez", "dcmp1", "dcmp0", "none"}

ASSUME PwmAssumption ==
  /\ PwmAhead \in Nat /\ PwmBehind \in Nat /\ PwmMaxStep \in Nat /\ PwmMaxAge \in Nat
  /\ PwmStep \in Nat \ {0}
  /\ PeriodArgs \subseteq Nat
  /\ Cmp0 \in Nat /\ Cmp1 \in Nat
  /\ Gen \in [Events -> {"keep", "low", "high", "toggle"}] /\ Gen["none"] = "keep"

VARIABLES
  mcpwm_period, mcpwm_mod,       \* mod: paused, up, down, updown
  mcpwm_running, mcpwm_stopat,   \* stopat: never, zero, peak
  mcpwm_frac,
  mcpwm_skew,    \* mcpwm_anchor - hart 0's cycle
  mcpwm_phase, mcpwm_dir, mcpwm_level,
  mcpwm_age,     \* history: hart 0 cycles since the start
  mcpwm_since    \* history: what was written since the start: nothing ("kept"),
                 \* a period or a mode ("moved"), a period below the count ("cut")

countVars == <<mcpwm_frac, mcpwm_skew, mcpwm_phase, mcpwm_age>>
pwmVars == <<mcpwm_period, mcpwm_mod, mcpwm_running, mcpwm_stopat, countVars,
             mcpwm_dir, mcpwm_level, mcpwm_since>>

PwmInit ==
  /\ mcpwm_period = 0 /\ mcpwm_mod = "paused"
  /\ mcpwm_running = FALSE /\ mcpwm_stopat = "never"
  /\ mcpwm_frac = 0 /\ mcpwm_skew = 0 /\ mcpwm_phase = 0
  /\ mcpwm_dir = Up /\ mcpwm_level = 0
  /\ mcpwm_age = 0 /\ mcpwm_since = "kept"

----------------------------------------------------------------------------
(* The event at a phase; the ends of the count come before the compares.   *)
PwmEvent(dir, phase, period) ==
  IF dir = Up
  THEN CASE phase = 0 -> "utez" [] phase # 0 /\ phase = period -> "utep"
         [] phase \notin {0, period} /\ phase = Cmp0 -> "ucmp0"
         [] phase \notin {0, period, Cmp0} /\ phase = Cmp1 -> "ucmp1"
         [] OTHER -> "none"
  ELSE CASE phase = period -> "dtep" [] phase # period /\ phase = 0 -> "dtez"
         [] phase \notin {0, period} /\ phase = Cmp1 -> "dcmp1"
         [] phase \notin {0, period, Cmp1} /\ phase = Cmp0 -> "dcmp0"
         [] OTHER -> "none"

Acted(level, act) ==
  CASE act = "low" -> 0 [] act = "high" -> 1 [] act = "toggle" -> 1 - level
    [] OTHER -> level

(* esp32p4_mcpwm_fire.                                                     *)
Fire(s) == Acted(s.level, Gen[PwmEvent(s.dir, s.phase, mcpwm_period)])

(* The next phase and direction, up, down or up and down.                  *)
PwmAdvanced(s) ==
  CASE mcpwm_mod = "up"   -> [phase |-> IF s.phase = mcpwm_period THEN 0 ELSE s.phase + 1,
                              dir |-> Up]
    [] mcpwm_mod = "down" -> [phase |-> IF s.phase = 0 THEN mcpwm_period ELSE s.phase - 1,
                              dir |-> Down]
    [] OTHER ->
         IF s.dir = Up
         THEN IF s.phase = mcpwm_period THEN [phase |-> s.phase - 1, dir |-> Down]
                                        ELSE [phase |-> s.phase + 1, dir |-> Up]
         ELSE IF s.phase = 0 THEN [phase |-> 1, dir |-> Up]
                             ELSE [phase |-> s.phase - 1, dir |-> Down]

StopReached(s) ==
  \/ s.stopat = "zero" /\ s.phase = 0
  \/ s.stopat = "peak" /\ s.phase = mcpwm_period

(* One tick: a one-shot timer stops, or the events of the phase are        *)
(* applied and the phase left.                                             *)
Tick(s) ==
  IF ~s.running THEN s
  ELSE IF StopReached(s) THEN [s EXCEPT !.running = FALSE, !.stopat = "never"]
  ELSE LET a == PwmAdvanced(s)
       IN  [s EXCEPT !.phase = a.phase, !.dir = a.dir, !.level = Fire(s)]

PwmElapsedWraps(d) == (d - mcpwm_skew) % 16

(* Cycles since the anchor; an anchor in the future gives none.            *)
PwmElapsed(d) == IF d >= mcpwm_skew THEN d - mcpwm_skew ELSE 0

(* The timer's part of esp32p4_periodic.  A running timer that is paused   *)
(* or has no period keeps its anchor, so that the cycles it is held are    *)
(* counted when it goes on.                                                *)
PwmPoll(d) ==
  IF ~mcpwm_running THEN UNCHANGED pwmVars
  ELSE IF mcpwm_mod = "paused" \/ mcpwm_period = 0
  THEN /\ mcpwm_age + d <= PwmMaxAge
       /\ mcpwm_skew' = mcpwm_skew - d /\ mcpwm_age' = mcpwm_age + d
       /\ UNCHANGED <<mcpwm_period, mcpwm_mod, mcpwm_running, mcpwm_stopat, mcpwm_frac,
                      mcpwm_phase, mcpwm_dir, mcpwm_level, mcpwm_since>>
  ELSE LET total == mcpwm_frac + PwmElapsed(d)
           ticks == total \div PwmStep
           after[n \in 0 .. ticks] ==
             IF n = 0
             THEN [running |-> TRUE, stopat |-> mcpwm_stopat, phase |-> mcpwm_phase,
                   dir |-> mcpwm_dir, level |-> mcpwm_level]
             ELSE Tick(after[n - 1])
           s == after[ticks]
       IN  /\ mcpwm_age + d <= PwmMaxAge
           /\ mcpwm_frac' = total % PwmStep
           /\ mcpwm_skew' = 0
           /\ mcpwm_age' = mcpwm_age + d
           /\ mcpwm_running' = s.running /\ mcpwm_stopat' = s.stopat
           /\ mcpwm_phase' = s.phase /\ mcpwm_dir' = s.dir /\ mcpwm_level' = s.level
           /\ UNCHANGED <<mcpwm_period, mcpwm_mod, mcpwm_since>>

(* TIMER_CFG0, whether the timer runs or not.                              *)
PwmPeriod(period) ==
  /\ mcpwm_period' = period
  /\ mcpwm_since' = IF ~mcpwm_running \/ period = mcpwm_period THEN mcpwm_since
                     ELSE IF mcpwm_phase > period THEN "cut" ELSE "moved"
  /\ UNCHANGED <<mcpwm_mod, mcpwm_running, mcpwm_stopat, countVars, mcpwm_dir,
                 mcpwm_level>>

PwmStartKeepsPhase(mod, stopat, skew) ==
  /\ mcpwm_mod' = mod
  /\ mcpwm_running' = TRUE /\ mcpwm_stopat' = stopat
  /\ mcpwm_skew' = skew /\ mcpwm_frac' = 0
  /\ mcpwm_age' = 0 /\ mcpwm_since' = "kept"
  /\ UNCHANGED <<mcpwm_period, mcpwm_phase, mcpwm_dir, mcpwm_level>>

(* TIMER_CFG1 with a start command (2 to 4): the count begins at 0, in the *)
(* direction it was left in.                                               *)
PwmStart(mod, stopat, skew) ==
  /\ mcpwm_mod' = mod
  /\ mcpwm_running' = TRUE /\ mcpwm_stopat' = stopat
  /\ mcpwm_skew' = skew /\ mcpwm_frac' = 0 /\ mcpwm_phase' = 0
  /\ mcpwm_age' = 0 /\ mcpwm_since' = "kept"
  /\ UNCHANGED <<mcpwm_period, mcpwm_dir, mcpwm_level>>

(* ... and with a stop command (0 or 1).                                   *)
PwmStop(mod) ==
  /\ mcpwm_mod' = mod
  /\ mcpwm_running' = FALSE /\ mcpwm_stopat' = "never"
  /\ mcpwm_since' = "kept"
  /\ UNCHANGED <<mcpwm_period, countVars, mcpwm_dir, mcpwm_level>>

(* ... and with any other (5 to 7): only the mode is written.              *)
PwmMode(mod) ==
  /\ mcpwm_mod' = mod
  /\ mcpwm_since' = IF ~mcpwm_running \/ mod = mcpwm_mod \/ mcpwm_since = "cut"
                     THEN mcpwm_since ELSE "moved"
  /\ UNCHANGED <<mcpwm_period, mcpwm_running, mcpwm_stopat, countVars, mcpwm_dir,
                 mcpwm_level>>

PwmGuest ==
  \/ \E period \in PeriodArgs : PwmPeriod(period)
  \/ \E mod \in {"paused", "up", "down", "updown"} :
       \/ PwmStop(mod)
       \/ PwmMode(mod)
       \/ \E stopat \in {"never", "zero", "peak"}, skew \in -PwmBehind .. PwmAhead :
            PwmStart(mod, stopat, skew)

----------------------------------------------------------------------------
(* Properties.                                                             *)

(* A timer that counts is inside its period, unless a period below its     *)
(* count was written while it ran: then it counts on outside, up to the    *)
(* wrap of the counter, "timers count 0..period" or not.  A fraction is    *)
(* below a tick; an anchor lies behind by no more than the timer was held. *)
PwmTypeOK ==
  /\ mcpwm_frac \in 0 .. PwmStep - 1
  /\ mcpwm_skew \in -PwmBehind - mcpwm_age .. PwmAhead
  /\ mcpwm_dir \in {Up, Down} /\ mcpwm_level \in {0, 1}
  /\ mcpwm_phase \in Nat
  /\ mcpwm_running /\ mcpwm_since # "cut" => mcpwm_phase \in 0 .. mcpwm_period

(* Where a timer started at 0 is after n ticks, and in which direction.    *)
Fold(n) == n % (2 * mcpwm_period)
Position(n) ==
  CASE mcpwm_mod = "up"   -> n % (mcpwm_period + 1)
    [] mcpwm_mod = "down" -> (-n) % (mcpwm_period + 1)
    [] OTHER -> IF Fold(n) <= mcpwm_period THEN Fold(n)
                ELSE 2 * mcpwm_period - Fold(n)
Direction(n) ==
  IF mcpwm_mod = "up" \/ (mcpwm_mod = "updown" /\ Fold(n) \in 1 .. mcpwm_period)
  THEN Up ELSE Down
ActionAt(n) == Gen[PwmEvent(Direction(n), Position(n), mcpwm_period)]

(* The wave at n ticks: the position, and the level the last event before  *)
(* it set.  The event at the start is not counted: it is applied in the    *)
(* direction of the run before.                                            *)
SetLast(i, n) ==
  /\ ActionAt(i) \in {"low", "high"}
  /\ \A j \in i + 1 .. n - 1 : ActionAt(j) = "keep"
WaveAt(phase, level, n) ==
  /\ phase = Position(n)
  /\ \A i \in 1 .. n - 1 : SetLast(i, n) => level = Acted(level, ActionAt(i))

(* While its period and mode are the ones it was started with, the output  *)
(* is the programmed wave by hart 0's time, less at most the               *)
(* clock skew, however the ticks are spread over polls: no tick is lost,   *)
(* counted twice or made of a wrapped difference, no event of a tick       *)
(* inside a poll is left out.                                              *)
PwmWave ==
  mcpwm_running /\ mcpwm_mod # "paused" /\ mcpwm_period # 0 /\ mcpwm_since = "kept" =>
    \E n \in 0 .. PwmMaxAge + PwmBehind :
      LET counted == n * PwmStep + mcpwm_frac
      IN  /\ counted <= mcpwm_age + PwmBehind
          /\ counted >= mcpwm_age - PwmAhead
          /\ WaveAt(mcpwm_phase, mcpwm_level, n)
=============================================================================
