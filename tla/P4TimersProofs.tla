--------------------------- MODULE P4TimersProofs ---------------------------
(***************************************************************************)
(* The three timers keep their promises for every clock skew, step, period *)
(* and timeout.  They share no variables but the time that passes, so each *)
(* has an inductive invariant of its own.                                  *)
(***************************************************************************)
EXTENDS P4Timers, TLAPS

----------------------------------------------------------------------------
(* Division.                                                               *)

LEMMA DivMonotone ==
  ASSUME NEW p \in Nat \ {0}, NEW a \in Nat, NEW b \in Nat, a <= b
  PROVE  a \div p <= b \div p
  OBVIOUS

LEMMA DivInNat ==
  ASSUME NEW p \in Nat \ {0}, NEW a \in Nat
  PROVE  a \div p \in Nat
  OBVIOUS

LEMMA ModInRange ==
  ASSUME NEW p \in Nat \ {0}, NEW a \in Nat
  PROVE  a % p \in 0 .. p - 1
  OBVIOUS

LEMMA DivMod ==
  ASSUME NEW p \in Nat \ {0}, NEW a \in Nat
  PROVE  \E q \in Nat, r \in 0 .. p - 1 :
           a = q * p + r /\ a \div p = q /\ a % p = r
  OBVIOUS

LEMMA Distributes ==
  ASSUME NEW s \in Nat, NEW x \in Int, NEW y \in Int
  PROVE  (x + y) * s = x * s + y * s
  OBVIOUS

----------------------------------------------------------------------------
(* SYSTIMER.                                                               *)

Confs == [period : BOOLEAN, p : Nat]

SystInv ==
  /\ systimer_counter \in 0 .. MaxCount /\ systimer_frac \in 0 .. SystDiv - 1
  /\ work_en \subseteq Targets /\ systimer_raw \subseteq Targets
  /\ systimer_source \subseteq systimer_raw
  /\ target_conf \in [Targets -> Confs]
  /\ crossed \in [Targets -> Nat]
  /\ MarkersInStep

(* The boundaries seen are a natural number.                               *)
LEMMA PeriodsInNat ==
  ASSUME NEW conf \in Confs, conf.p # 0, NEW cnt \in Nat
  PROVE  Periods(conf, cnt) \in Nat
  BY DivInNat DEF Periods, Confs

(* A poll sees every new boundary of an enabled target.                    *)
LEMMA SystPollInv ==
  ASSUME SystInv, NEW d \in Nat, SystPoll(d)
  PROVE  SystInv'
<1> DEFINE total == systimer_frac + d
           cnt == systimer_counter + total \div SystDiv
           firing == {t \in Targets : Fires(t, cnt)}
<1>1. /\ total \in Nat /\ total \div SystDiv \in Nat
      /\ total % SystDiv \in 0 .. SystDiv - 1
  <2>1. total \in Nat /\ SystDiv \in Nat \ {0}
    BY TimersAssumption DEF SystInv
  <2> HIDE DEF total
  <2> QED BY <2>1, DivInNat, ModInRange
<1>2. cnt \in Nat /\ systimer_counter \in Nat /\ systimer_counter <= cnt
  <2>1. systimer_counter \in Nat
    BY TimersAssumption DEF SystInv
  <2> HIDE DEF total
  <2> QED BY <1>1, <2>1
<1>3. /\ cnt <= MaxCount /\ systimer_counter' = cnt
      /\ systimer_frac' = total % SystDiv
      /\ crossed' = [t \in Targets |->
                       IF t \in firing /\ Periodic(t)
                       THEN Periods(target_conf[t], cnt) ELSE crossed[t]]
      /\ systimer_raw' = systimer_raw \cup firing
      /\ systimer_source' = systimer_source \cup (firing \cap systimer_ena)
      /\ UNCHANGED <<work_en, target_conf, comp, systimer_ena>>
  BY DEF SystPoll
<1> HIDE DEF total, cnt
<1>4. \A t \in Targets : Periodic(t) =>
        /\ target_conf[t] \in Confs /\ target_conf[t].p \in Nat \ {0}
        /\ Periods(target_conf[t], cnt) \in Nat
  BY <1>2, PeriodsInNat DEF SystInv, Periodic, Confs
<1>5. crossed' \in [Targets -> Nat]
  BY <1>3, <1>4 DEF SystInv
<1>6. MarkersInStep'
  <2> SUFFICES ASSUME NEW t \in work_en, Periodic(t)
               PROVE  crossed'[t] = Periods(target_conf[t], cnt)
    BY <1>3 DEF MarkersInStep, Periodic, Periods
  <2>1. t \in Targets /\ target_conf[t].period
    BY DEF SystInv, Periodic
  <2>2. CASE t \in firing
    BY <1>3, <2>1, <2>2
  <2>3. CASE t \notin firing
    <3>1. crossed'[t] = crossed[t] /\ crossed[t] = Periods(target_conf[t], systimer_counter)
      BY <1>3, <2>1, <2>3 DEF SystInv, MarkersInStep
    <3>2. ~(Periods(target_conf[t], cnt) > crossed[t])
      BY <2>1, <2>3 DEF Fires
    <3>3. Periods(target_conf[t], systimer_counter) <= Periods(target_conf[t], cnt)
      BY <1>2, <1>4, <2>1, DivMonotone DEF Periods
    <3>4. Periods(target_conf[t], cnt) \in Nat /\ crossed[t] \in Nat
      BY <1>4, <2>1 DEF SystInv
    <3> QED BY <3>1, <3>2, <3>3, <3>4
  <2> QED BY <2>2, <2>3
<1>7. systimer_raw' \subseteq Targets /\ systimer_source' \subseteq systimer_raw'
  BY <1>3 DEF SystInv
<1>8. systimer_counter' \in 0 .. MaxCount
  BY <1>2, <1>3, TimersAssumption
<1> QED BY <1>1, <1>3, <1>5, <1>6, <1>7, <1>8 DEF SystInv

(* Register writes of the SYSTIMER.                                        *)
LEMMA SystGuestInv ==
  ASSUME SystInv, SystGuest
  PROVE  SystInv'
<1>0. systimer_counter \in Nat
  BY TimersAssumption DEF SystInv
<1>1. ASSUME NEW on \in SUBSET Targets, SystConf(on) PROVE SystInv'
  <2>1. \A t \in Targets : Periodic(t) => Periods(target_conf[t], systimer_counter) \in Nat
    BY <1>0, PeriodsInNat DEF SystInv, Periodic, Confs
  <2>2. crossed' \in [Targets -> Nat]
    BY <1>1, <2>1 DEF SystConf, SystInv
  <2>3. MarkersInStep'
    BY <1>1 DEF SystConf, MarkersInStep, Periodic, Periods
  <2> QED BY <1>1, <2>2, <2>3 DEF SystConf, SystInv, systInt
<1>2. ASSUME NEW on \in SUBSET Targets, SystIntEna(on) PROVE SystInv'
  BY <1>2 DEF SystIntEna, SystInv, systConf, MarkersInStep, Periodic, Periods
<1>3. ASSUME NEW t \in Targets, NEW conf \in TargetArgs, SystTargetConf(t, conf)
      PROVE  SystInv'
  <2>1. conf \in Confs
    BY TimersAssumption DEF Confs
  <2>2. target_conf' \in [Targets -> Confs]
    BY <1>3, <2>1 DEF SystTargetConf, SystInv
  <2>3. crossed' \in [Targets -> Nat]
    BY <1>0, <1>3, <2>1, PeriodsInNat DEF SystTargetConf, SystInv
  <2>4. MarkersInStep'
    <3> SUFFICES ASSUME NEW u \in work_en', Periodic(u)'
                 PROVE  crossed'[u] = Periods(target_conf'[u], systimer_counter')
      BY DEF MarkersInStep, Periods
    <3>1. u \in work_en /\ u \in Targets /\ systimer_counter' = systimer_counter
      BY <1>3 DEF SystTargetConf, SystInv
    <3>2. CASE u = t
      BY <1>3, <3>1, <3>2 DEF SystTargetConf, SystInv, Periodic
    <3>3. CASE u # t
      BY <1>3, <3>1, <3>3 DEF SystTargetConf, SystInv, Periodic, MarkersInStep
    <3> QED BY <3>2, <3>3
  <2> QED BY <1>3, <2>2, <2>3, <2>4 DEF SystTargetConf, SystInv, systInt
<1>4. ASSUME NEW t \in Targets, NEW v \in CompArgs, SystTarget(t, v) PROVE SystInv'
  BY <1>4 DEF SystTarget, SystInv, systInt, MarkersInStep, Periodic, Periods
<1>5. ASSUME NEW t \in Targets, SystIntClr(t) PROVE SystInv'
  BY <1>5 DEF SystIntClr, SystInv, systConf, MarkersInStep, Periodic, Periods
<1> QED BY <1>1, <1>2, <1>3, <1>4, <1>5 DEF SystGuest

LEMMA SystKept ==
  ASSUME SystInv, UNCHANGED systVars
  PROVE  SystInv'
  BY DEF systVars, systConf, systInt, SystInv, MarkersInStep, Periodic, Periods

----------------------------------------------------------------------------
(* The watchdog.                                                           *)

(* Hart 0's cycles since the last arming and those left add up to the      *)
(* timeout, give or take the skew.                                         *)
WdtInv ==
  /\ wdt_en \in BOOLEAN
  /\ wdt_hold \in WdtArgs /\ wdt_left \in Nat /\ wdt_age \in 0 .. MaxCount
  /\ wdt_en => /\ wdt_left >= wdt_hold - Behind - wdt_age
               /\ wdt_left > 0 => wdt_left + wdt_age <= wdt_hold + Ahead

LEMMA ExpiryIs ==
  ASSUME NEW hold \in WdtArgs, NEW skew \in Skews
  PROVE  /\ Expiry(hold, skew) \in Nat
         /\ Expiry(hold, skew) >= hold - Behind
         /\ Expiry(hold, skew) > 0 => Expiry(hold, skew) <= hold + Ahead
<1>1. hold \in Nat /\ skew \in Int /\ -Behind <= skew /\ skew <= Ahead
      /\ Ahead \in Nat /\ Behind \in Nat
  BY TimersAssumption DEF Skews
<1> QED BY <1>1 DEF Expiry

(* Time past and time left tell when the watchdog is due.                  *)
LEMMA Deadline ==
  ASSUME NEW left \in Nat, NEW age \in Nat, NEW hold \in Nat,
         left >= hold - Behind - age,
         left > 0 => left + age <= hold + Ahead
  PROVE  /\ left = 0 => age >= hold - Behind
         /\ age > hold + Ahead => left = 0
<1>1. Ahead \in Nat /\ Behind \in Nat
  BY TimersAssumption
<1> QED BY <1>1

LEMMA WdtPollInv ==
  ASSUME WdtInv, NEW d \in Nat, TimgPoll(d)
  PROVE  WdtInv'
<1>1. /\ wdt_left' = IF wdt_left > d THEN wdt_left - d ELSE 0
      /\ wdt_age' = IF wdt_age + d > MaxCount THEN MaxCount ELSE wdt_age + d
      /\ wdt_en' = wdt_en /\ wdt_hold' = wdt_hold
  BY DEF TimgPoll, Clip
<1>2. /\ wdt_hold \in Nat /\ Ahead \in Nat /\ Behind \in Nat /\ MaxCount \in Nat
      /\ wdt_hold + Ahead < MaxCount
      /\ wdt_left \in Nat /\ wdt_age \in 0 .. MaxCount
  BY TimersAssumption DEF WdtInv
<1>3. wdt_left' \in Nat /\ wdt_age' \in 0 .. MaxCount
  BY <1>1, <1>2
<1>4. ASSUME wdt_en
      PROVE  /\ wdt_left' >= wdt_hold - Behind - wdt_age'
             /\ wdt_left' > 0 => wdt_left' + wdt_age' <= wdt_hold + Ahead
  <2>1. /\ wdt_left >= wdt_hold - Behind - wdt_age
        /\ wdt_left > 0 => wdt_left + wdt_age <= wdt_hold + Ahead
    BY <1>4 DEF WdtInv
  <2> QED BY <1>1, <1>2, <2>1
<1> QED BY <1>1, <1>3, <1>4 DEF WdtInv

LEMMA WdtGuestInv ==
  ASSUME WdtInv, TimgGuest
  PROVE  WdtInv'
<1> USE TimersAssumption DEF WdtInv
<1>1. ASSUME NEW skew \in Skews, NEW on \in BOOLEAN, WdtConfig(on, skew) PROVE WdtInv'
  BY <1>1, ExpiryIs DEF WdtConfig
<1>2. ASSUME NEW skew \in Skews, NEW hold \in WdtArgs, WdtTimeout(hold, skew)
      PROVE  WdtInv'
  BY <1>2, ExpiryIs DEF WdtTimeout
<1>3. ASSUME NEW skew \in Skews, WdtFeed(skew) PROVE WdtInv'
  BY <1>3, ExpiryIs DEF WdtFeed
<1>4. ASSUME NEW unlock \in BOOLEAN, WdtProtect(unlock) PROVE WdtInv'
  BY <1>4 DEF WdtProtect
<1>5. ASSUME UNCHANGED wdtVars PROVE WdtInv'
  BY <1>5 DEF wdtVars
<1>6. \/ \E skew \in Skews : \E on \in BOOLEAN : WdtConfig(on, skew)
      \/ \E skew \in Skews : \E hold \in WdtArgs : WdtTimeout(hold, skew)
      \/ \E skew \in Skews : WdtFeed(skew)
      \/ \E unlock \in BOOLEAN : WdtProtect(unlock)
      \/ UNCHANGED wdtVars
  BY DEF TimgGuest, T0Guest, WdtGuest, TimgIntGuest, TimgConfig, TimgLoadNow, TimgIntEna, TimgIntClr
<1> QED BY <1>1, <1>2, <1>3, <1>4, <1>5, <1>6

LEMMA WdtKept ==
  ASSUME WdtInv, UNCHANGED wdtVars
  PROVE  WdtInv'
  BY DEF wdtVars, WdtInv

----------------------------------------------------------------------------
(* T0.                                                                     *)

Cfgs == [en : BOOLEAN, increase : BOOLEAN, reload : BOOLEAN, alarm_en : BOOLEAN]

(* Cycles T0 has counted since its base value.                             *)
TicksKept(increase, cnt, base, frac) ==
  (IF increase THEN cnt - base ELSE base - cnt) * TimgStep + frac

(* A foreign anchor is only met by the first poll after it: until then     *)
(* nothing is counted.  A counter that runs up is never cut off at zero.   *)
T0Inv ==
  /\ timg_cfg \in Cfgs
  /\ timg_counter \in Nat /\ timg_base \in Nat /\ timg_age \in Nat
  /\ timg_frac \in 0 .. TimgStep - 1 /\ timg_skew \in Skews
  /\ timg_cfg.en /\ timg_skew # 0 => /\ timg_age = 0
                                     /\ timg_counter = timg_base /\ timg_frac = 0
  /\ timg_cfg.en /\ timg_cfg.increase =>
       TicksKept(TRUE, timg_counter, timg_base, timg_frac) >= timg_age - Ahead
  /\ TimgKeepsTime

LEMMA Product ==
  ASSUME NEW s \in Nat, NEW x \in Nat
  PROVE  x * s \in Nat
  OBVIOUS

(* What T0 counts in a poll is the elapsed cycles, or less when a          *)
(* counter that runs down reaches zero.                                    *)
LEMMA CountedAfter ==
  ASSUME NEW inc \in BOOLEAN, NEW cnt \in Nat, NEW base \in Nat,
         NEW frac \in 0 .. TimgStep - 1, NEW e \in Nat,
         NEW ticks, ticks = (frac + e) \div TimgStep,
         NEW next, next = IF inc THEN cnt + ticks
                          ELSE IF ticks > cnt THEN 0 ELSE cnt - ticks
  PROVE  /\ next \in Nat /\ (frac + e) % TimgStep \in 0 .. TimgStep - 1
         /\ TicksKept(inc, next, base, (frac + e) % TimgStep)
              <= TicksKept(inc, cnt, base, frac) + e
         /\ inc \/ next > 0 => TicksKept(inc, next, base, (frac + e) % TimgStep)
                                 = TicksKept(inc, cnt, base, frac) + e
<1> DEFINE s == TimgStep
           total == frac + e
<1>1. s \in Nat \ {0} /\ s \in Nat
  BY TimersAssumption
<1>2. frac \in Nat /\ total \in Nat
  BY <1>1
<1>3. PICK q \in Nat, r \in 0 .. s - 1 :
        total = q * s + r /\ total \div s = q /\ total % s = r
  <2> HIDE DEF total, s
  <2> QED BY <1>1, <1>2, DivMod
<1>4. ticks = q /\ (frac + e) % TimgStep = r
  BY <1>3
<1>5. r \in Nat /\ q * s \in Nat
  BY <1>1, <1>3, Product
<1>6. CASE inc
  <2>1. next = cnt + q
    BY <1>4, <1>6
  <2>2. (next - base) * s = (cnt - base) * s + q * s
    <3>1. next - base = (cnt - base) + q /\ cnt - base \in Int
      BY <2>1
    <3> HIDE DEF s
    <3> QED BY <1>1, <3>1, Distributes
  <2>3. /\ TicksKept(inc, next, base, r) = (next - base) * s + r
        /\ TicksKept(inc, cnt, base, frac) = (cnt - base) * s + frac
    BY <1>6 DEF TicksKept
  <2>4. (cnt - base) * s \in Int
    BY <1>1
  <2>5. TicksKept(inc, next, base, r) = TicksKept(inc, cnt, base, frac) + e
    <3>1. q * s + r = frac + e
      BY <1>3
    <3> DEFINE u == (cnt - base) * s
               v == q * s
    <3>2. /\ u \in Int /\ v \in Nat /\ v + r = frac + e
          /\ TicksKept(inc, next, base, r) = u + v + r
          /\ TicksKept(inc, cnt, base, frac) = u + frac
      BY <1>5, <2>2, <2>3, <2>4, <3>1
    <3> HIDE DEF u, v
    <3> QED BY <1>2, <1>5, <3>2
  <2>6. TicksKept(inc, cnt, base, frac) + e \in Int
    BY <1>2, <2>3, <2>4
  <2> QED BY <1>3, <1>4, <2>1, <2>5, <2>6
<1>7. CASE ~inc
  <2>1. PICK m \in Nat : next = cnt - m /\ m <= q /\ (next > 0 => m = q)
    <3>1. CASE q > cnt
      BY <1>4, <1>7, <3>1
    <3>2. CASE ~(q > cnt)
      BY <1>4, <1>7, <3>2
    <3> QED BY <3>1, <3>2
  <2>2. (base - next) * s = (base - cnt) * s + m * s
    <3>1. base - next = (base - cnt) + m /\ base - cnt \in Int
      BY <2>1
    <3> HIDE DEF s
    <3> QED BY <1>1, <3>1, Distributes
  <2>3. m * s \in Nat /\ m * s <= q * s
    <3>1. PICK k \in Nat : q = m + k
      BY <2>1
    <3>2. q * s = m * s + k * s /\ k * s \in Nat /\ m * s \in Nat
      <4> HIDE DEF s
      <4> QED BY <1>1, <3>1, Distributes, Product
    <3> DEFINE u == m * s
               v == k * s
    <3>3. q * s = u + v /\ u \in Nat /\ v \in Nat /\ m * s = u
      BY <3>2
    <3> HIDE DEF u, v
    <3> QED BY <3>3
  <2>4. /\ TicksKept(inc, next, base, r) = (base - next) * s + r
        /\ TicksKept(inc, cnt, base, frac) = (base - cnt) * s + frac
        /\ (base - cnt) * s \in Int
    BY <1>1, <1>7 DEF TicksKept
  <2> DEFINE u == (base - cnt) * s
             v == m * s
             w == q * s
             new == TicksKept(inc, next, base, r)
             old == TicksKept(inc, cnt, base, frac)
  <2>5. /\ u \in Int /\ v \in Nat /\ w \in Nat /\ v <= w /\ (m = q => v = w)
        /\ w + r = frac + e /\ new = u + v + r /\ old = u + frac
    BY <1>3, <1>5, <2>2, <2>3, <2>4
  <2>6. next \in Nat
    BY <1>3, <1>4, <1>7
  <2>7. new <= old + e /\ (next > 0 => new = old + e)
    <3> HIDE DEF u, v, w, new, old
    <3> QED BY <1>2, <1>5, <2>1, <2>5, <2>6
  <2> QED BY <1>3, <1>4, <1>7, <2>6, <2>7
<1> QED BY <1>6, <1>7

LEMMA ElapsedIs ==
  ASSUME T0Inv, NEW d \in Nat
  PROVE  /\ Elapsed(d) \in Nat
         /\ Elapsed(d) <= d + Behind /\ Elapsed(d) >= d - Ahead
         /\ timg_skew = 0 => Elapsed(d) = d
<1>1. timg_skew \in Int /\ -Behind <= timg_skew /\ timg_skew <= Ahead
      /\ Ahead \in Nat /\ Behind \in Nat
  BY TimersAssumption DEF T0Inv, Skews
<1> QED BY <1>1 DEF Elapsed

(* A poll while T0 runs.                                                   *)
LEMMA T0PollInv ==
  ASSUME T0Inv, NEW d \in Nat, TimgPoll(d), timg_cfg.en
  PROVE  T0Inv'
<1> DEFINE e == Elapsed(d)
           inc == timg_cfg.increase
           ticks == (timg_frac + e) \div TimgStep
           cnt == IF inc THEN timg_counter + ticks
                  ELSE IF ticks > timg_counter THEN 0 ELSE timg_counter - ticks
           frac == (timg_frac + e) % TimgStep
           old == TicksKept(inc, timg_counter, timg_base, timg_frac)
           new == TicksKept(inc, cnt, timg_base, frac)
           reload == T0After(d).past /\ timg_cfg.reload
<1>1. /\ timg_counter' = (IF reload THEN TimgLoad ELSE cnt)
      /\ timg_frac' = (IF reload THEN 0 ELSE frac)
      /\ timg_skew' = 0
      /\ timg_base' = (IF reload THEN TimgLoad ELSE timg_base)
      /\ timg_age' = (IF reload THEN 0 ELSE timg_age + d)
      /\ timg_cfg' = timg_cfg
  BY DEF TimgPoll, T0After
<1>2. /\ timg_cfg \in Cfgs /\ timg_counter \in Nat /\ timg_base \in Nat
      /\ timg_age \in Nat /\ timg_frac \in 0 .. TimgStep - 1 /\ inc \in BOOLEAN
  BY DEF T0Inv, Cfgs
<1>3. /\ cnt \in Nat /\ frac \in 0 .. TimgStep - 1
      /\ new <= old + e /\ (inc \/ cnt > 0 => new = old + e)
  <2>1. e \in Nat
    BY ElapsedIs
  <2> HIDE DEF e, inc
  <2> QED BY <1>2, <2>1, CountedAfter
<1>4. /\ Ahead \in Nat /\ Behind \in Nat /\ 0 \in Skews /\ TimgLoad \in Nat
      /\ 0 \in 0 .. TimgStep - 1
  BY TimersAssumption DEF Skews
<1>5. CASE reload
  <2>1. TimgKeepsTime'
    BY <1>1, <1>4, <1>5, <1>2, TimersAssumption DEF TimgKeepsTime
  <2>2. /\ timg_counter' = TimgLoad /\ timg_base' = TimgLoad /\ timg_age' = 0
        /\ timg_frac' = 0 /\ timg_skew' = 0 /\ timg_cfg' = timg_cfg
    BY <1>1, <1>5
  <2>3. (timg_cfg.increase =>
           TicksKept(TRUE, timg_counter, timg_base, timg_frac) >= timg_age - Ahead)'
    BY <1>4, <2>2, TimersAssumption DEF TicksKept
  <2> QED BY <1>2, <1>4, <2>1, <2>2, <2>3 DEF T0Inv
<1>6. CASE ~reload
  <2>1. /\ old <= timg_age + Behind /\ old \in Int /\ new \in Int
        /\ inc \/ timg_counter > 0 => old >= timg_age - Ahead
    BY <1>2, <1>3, TimersAssumption DEF T0Inv, TimgKeepsTime, TicksKept
  <2>2. timg_skew # 0 => timg_age = 0 /\ old = 0
    BY <1>2, TimersAssumption DEF T0Inv, TicksKept
  <2>3. ~inc /\ cnt > 0 => timg_counter > 0
    <3> HIDE DEF e
    <3>1. ticks \in Nat
      <4>1. e \in Nat
        BY ElapsedIs DEF e
      <4>2. timg_frac + e \in Nat /\ TimgStep \in Nat \ {0}
        BY <1>2, <4>1, TimersAssumption
      <4> QED BY <4>2, DivInNat
    <3> HIDE DEF ticks
    <3> QED BY <1>2, <3>1
  <2>4. /\ e \in Nat /\ e <= d + Behind /\ e >= d - Ahead
        /\ timg_skew = 0 => e = d
    BY ElapsedIs
  <2> HIDE DEF e, cnt, frac, new, old, inc, reload
  <2>5. /\ new <= timg_age + d + Behind
        /\ inc \/ cnt > 0 => new >= timg_age + d - Ahead
    <3>1. CASE timg_skew = 0
      BY <1>2, <1>3, <1>4, <2>1, <2>3, <2>4, <3>1
    <3>2. CASE timg_skew # 0
      BY <1>2, <1>3, <1>4, <2>1, <2>2, <2>4, <3>2
    <3> QED BY <3>1, <3>2
  <2>6. PICK c \in Nat, f \in 0 .. TimgStep - 1, n \in Int : c = cnt /\ f = frac /\ n = new
    BY <1>3, <2>1
  <2>7. /\ timg_counter' = c /\ timg_frac' = f /\ timg_skew' = 0
        /\ timg_base' = timg_base /\ timg_age' = timg_age + d
        /\ timg_cfg' = timg_cfg
    BY <1>1, <1>6, <2>6
  <2>8. /\ n <= timg_age + d + Behind
        /\ timg_cfg.increase \/ c > 0 => n >= timg_age + d - Ahead
    BY <2>5, <2>6 DEF inc
  <2>9. n = (IF timg_cfg.increase THEN c - timg_base ELSE timg_base - c)
              * TimgStep + f
    BY <2>6 DEF new, inc, TicksKept
  <2>10. TimgKeepsTime'
    BY <1>2, <1>4, <2>7, <2>8, <2>9, TimersAssumption DEF TimgKeepsTime
  <2>11. (timg_cfg.increase =>
           TicksKept(TRUE, timg_counter, timg_base, timg_frac) >= timg_age - Ahead)'
    BY <1>2, <1>4, <2>7, <2>8, <2>9, TimersAssumption DEF TicksKept
  <2>12. timg_age' \in Nat
    BY <1>2, <2>7
  <2> QED BY <1>2, <1>4, <2>6, <2>7, <2>10, <2>11, <2>12 DEF T0Inv
<1> QED BY <1>5, <1>6

LEMMA T0Kept ==
  ASSUME T0Inv, UNCHANGED t0Vars
  PROVE  T0Inv'
  BY DEF t0Vars, T0Inv, TimgKeepsTime, TicksKept

(* A new anchor counts from nothing.                                       *)
LEMMA T0GuestInv ==
  ASSUME T0Inv, TimgGuest
  PROVE  T0Inv'
<1>1. ASSUME NEW cfg \in Cfgs, NEW skew \in Skews, NEW base \in Nat,
             timg_cfg' = cfg, timg_skew' = skew, timg_frac' = 0, timg_age' = 0,
             timg_counter' = base, timg_base' = base
      PROVE  T0Inv'
  <2>1. Ahead \in Nat /\ Behind \in Nat /\ 0 \in 0 .. TimgStep - 1 /\ TimgStep \in Nat
    BY TimersAssumption
  <2>2. TimgKeepsTime'
    BY <1>1, <2>1 DEF TimgKeepsTime
  <2>3. TicksKept(TRUE, timg_counter', timg_base', timg_frac') >= timg_age' - Ahead
    BY <1>1, <2>1 DEF TicksKept
  <2> QED BY <1>1, <2>1, <2>2, <2>3 DEF T0Inv, TicksKept
<1>2. /\ timg_cfg \in Cfgs /\ timg_counter \in Nat /\ TimgLoad \in Nat
      /\ TimgArgs \subseteq Cfgs
  BY TimersAssumption DEF T0Inv, Cfgs
<1>3. ASSUME NEW skew \in Skews, NEW cfg \in TimgArgs, TimgConfig(cfg, skew) PROVE T0Inv'
  BY <1>1, <1>2, <1>3 DEF TimgConfig
<1>4. ASSUME NEW skew \in Skews, TimgLoadNow(skew) PROVE T0Inv'
  BY <1>1, <1>2, <1>4 DEF TimgLoadNow
<1>5. \/ \E skew \in Skews : \E cfg \in TimgArgs : TimgConfig(cfg, skew)
      \/ \E skew \in Skews : TimgLoadNow(skew)
      \/ UNCHANGED t0Vars
  BY DEF TimgGuest, T0Guest, WdtGuest, TimgIntGuest, WdtConfig, WdtTimeout, WdtFeed, TimgIntEna, TimgIntClr, WdtProtect
<1> QED BY <1>3, <1>4, <1>5, T0Kept

----------------------------------------------------------------------------
(* The timers together.                                                    *)

TimersInv == SystInv /\ WdtInv /\ T0Inv

LEMMA TimersInitInv ==
  ASSUME TimersInit
  PROVE  TimersInv
<1> USE TimersAssumption
<1>1. SystInv
  BY DEF TimersInit, SystInv, MarkersInStep, Confs, OneShot
<1>2. WdtInv
  <2>1. /\ wdt_en = FALSE /\ wdt_hold \in WdtArgs /\ wdt_left = 0 /\ wdt_age = 0
    BY DEF TimersInit
  <2>2. wdt_en \in BOOLEAN /\ ~wdt_en
    BY <2>1
  <2>3. wdt_left \in Nat /\ wdt_age \in 0 .. MaxCount
    BY <2>1
  <2> QED BY <2>1, <2>2, <2>3, Zenon DEF WdtInv
<1>3. T0Inv
  BY DEF TimersInit, T0Inv, TimgKeepsTime, TicksKept, Cfgs, Skews
<1> QED BY <1>1, <1>2, <1>3 DEF TimersInv

LEMMA TimersStep ==
  ASSUME TimersInv, [TimersNext]_timerVars
  PROVE  TimersInv'
<1> USE DEF TimersInv
<1>1. ASSUME NEW d \in 0 .. MaxStep, TimersPoll(d) PROVE TimersInv'
  <2>1. d \in Nat /\ SystPoll(d) /\ TimgPoll(d)
    BY <1>1, TimersAssumption DEF TimersPoll
  <2>2. ~timg_cfg.en => UNCHANGED t0Vars
    BY <2>1 DEF TimgPoll, t0Vars
  <2> QED BY <2>1, <2>2, SystPollInv, WdtPollInv, T0PollInv, T0Kept
<1>2. ASSUME SystGuest, UNCHANGED <<t0Vars, timgInt, wdtVars>> PROVE TimersInv'
  BY <1>2, SystGuestInv, WdtKept, T0Kept
<1>3. ASSUME TimgGuest, UNCHANGED systVars PROVE TimersInv'
  BY <1>3, SystKept, WdtGuestInv, T0GuestInv
<1>4. ASSUME UNCHANGED timerVars PROVE TimersInv'
  BY <1>4, SystKept, WdtKept, T0Kept DEF timerVars
<1> QED BY <1>1, <1>2, <1>3, <1>4 DEF TimersNext

LEMMA TimersInvariant == TimersSpec => []TimersInv
  BY TimersInitInv, TimersStep, PTL DEF TimersSpec

(* The state of the three timers has its type: fractions stay below a      *)
(* tick, and a SYSTIMER source is pending only for a raw bit that is up.   *)
THEOREM TimersTypeCorrect == TimersSpec => []TimersTypeOK
<1>1. TimersInv => TimersTypeOK
  BY DEF TimersInv, SystInv, WdtInv, T0Inv, TimersTypeOK
<1> QED BY <1>1, TimersInvariant, PTL

(* An enabled periodic SYSTIMER alarm has seen every boundary of its       *)
(* period, and no more, whatever is enabled or reprogrammed in between.    *)
THEOREM AlarmsInStep == TimersSpec => []MarkersInStep
<1>1. TimersInv => MarkersInStep
  BY DEF TimersInv, SystInv
<1> QED BY <1>1, TimersInvariant, PTL

(* T0 counts hart 0's time up to the skew of the hart that anchored it.    *)
THEOREM TimerKeepsTime == TimersSpec => []TimgKeepsTime
<1>1. TimersInv => TimgKeepsTime
  BY DEF TimersInv, T0Inv
<1> QED BY <1>1, TimersInvariant, PTL

(* The step WdtOnTime allows.                                              *)
OnTimeStep ==
  /\ "wdt" \in timg_raw' \ timg_raw => wdt_age' >= wdt_hold - Behind
  /\ wdt_en /\ wdt_age' > wdt_age /\ wdt_age' > wdt_hold + Ahead
       => "wdt" \in timg_raw'

LEMMA WdtPollOnTime ==
  ASSUME WdtInv, WdtInv', NEW d \in Nat, TimgPoll(d)
  PROVE  OnTimeStep
<1>1. /\ wdt_age \in Nat /\ wdt_hold \in Nat /\ Behind \in Nat /\ Ahead \in Nat
      /\ wdt_left' \in Nat /\ wdt_age' \in Nat
  BY TimersAssumption DEF WdtInv
<1>2. /\ wdt_hold' = wdt_hold /\ wdt_en' = wdt_en
      /\ "wdt" \in timg_raw' \ timg_raw => wdt_en /\ wdt_left' = 0
      /\ wdt_en /\ wdt_left' = 0 => "wdt" \in timg_raw'
  BY DEF TimgPoll
<1>3. ASSUME wdt_en
      PROVE  /\ wdt_left' >= wdt_hold - Behind - wdt_age'
             /\ wdt_left' > 0 => wdt_left' + wdt_age' <= wdt_hold + Ahead
  <2>1. wdt_en' /\ wdt_hold' = wdt_hold
    BY <1>2, <1>3, Zenon
  <2>2. wdt_en' => /\ wdt_left' >= wdt_hold' - Behind - wdt_age'
                   /\ wdt_left' > 0 => wdt_left' + wdt_age' <= wdt_hold' + Ahead
    BY DEF WdtInv
  <2> QED BY <2>1, <2>2, Zenon
<1>4. ASSUME wdt_en
      PROVE  /\ wdt_left' = 0 => wdt_age' >= wdt_hold - Behind
             /\ wdt_age' > wdt_hold + Ahead => wdt_left' = 0
  <2>1. /\ wdt_left' >= wdt_hold - Behind - wdt_age'
        /\ wdt_left' > 0 => wdt_left' + wdt_age' <= wdt_hold + Ahead
    BY <1>3, <1>4, Zenon
  <2> QED BY <1>1, <2>1, Deadline
<1> QED BY <1>2, <1>4 DEF OnTimeStep

LEMMA WdtGuestOnTime ==
  ASSUME WdtInv, TimgGuest \/ UNCHANGED <<timgInt, wdtVars>>
  PROVE  OnTimeStep
<1>1. wdt_age \in Nat /\ wdt_hold \in Nat /\ Behind \in Nat /\ Ahead \in Nat
  BY TimersAssumption DEF WdtInv
<1>2. timg_raw' \subseteq timg_raw /\ (wdt_age' = 0 \/ wdt_age' = wdt_age)
  BY DEF TimgGuest, T0Guest, WdtGuest, TimgIntGuest, TimgConfig, TimgLoadNow,
         WdtConfig, WdtTimeout, WdtFeed, TimgIntEna, TimgIntClr, WdtProtect,
         timgInt, wdtVars
<1> QED BY <1>1, <1>2 DEF OnTimeStep

(* The watchdog's bit rises only once its timeout has passed since the     *)
(* last feed, and is up at every poll after it, up to the clock skew.      *)
THEOREM WatchdogOnTime == TimersSpec => WdtOnTime
<1>1. ASSUME TimersInv, TimersInv', [TimersNext]_timerVars
      PROVE  [OnTimeStep]_timerVars
  <2>1. ASSUME NEW d \in 0 .. MaxStep, TimersPoll(d) PROVE OnTimeStep
    BY <1>1, <2>1, WdtPollOnTime, TimersAssumption DEF TimersPoll, TimersInv
  <2>2. ASSUME SystGuest, UNCHANGED <<t0Vars, timgInt, wdtVars>> PROVE OnTimeStep
    BY <1>1, <2>2, WdtGuestOnTime DEF TimersInv
  <2>3. ASSUME TimgGuest PROVE OnTimeStep
    BY <1>1, <2>3, WdtGuestOnTime DEF TimersInv
  <2> QED BY <1>1, <2>1, <2>2, <2>3 DEF TimersNext
<1>2. [OnTimeStep]_timerVars =>
        [/\ "wdt" \in timg_raw' \ timg_raw => wdt_age' >= wdt_hold - Behind
         /\ wdt_en /\ wdt_age' > wdt_age /\ wdt_age' > wdt_hold + Ahead
              => "wdt" \in timg_raw']_timerVars
  BY DEF OnTimeStep
<1> QED BY <1>1, <1>2, TimersInvariant, PTL DEF TimersSpec, WdtOnTime
=============================================================================
