----------------------------- MODULE P4Devices -----------------------------
(***************************************************************************)
(* The peripherals of the P4 under their one clock: esp32p4_periodic polls *)
(* every device, before every block, between the register accesses of the  *)
(* guest.  The devices share no registers, so one behaviour has the driver *)
(* of one device (driver); the others are polled idle, and time passes for *)
(* the timers only where their driver runs.  T0 and the watchdog of a      *)
(* group have drivers of their own, which share its interrupt registers,   *)
(* and so have the pads and the pulse counter, which share the pads.       *)
(***************************************************************************)
EXTENDS P4Uart, P4I2c, P4Gdma, P4Timers, P4Twai, P4Gpio, P4Pwm

CONSTANT Drivers   \* the drivers of this instance

VARIABLE driver

deviceVars == <<uartVars, i2cVars, gdmaVars, timerVars, twaiVars, gpioVars,
                pwmVars>>

DevicesInit ==
  /\ UartInit /\ I2cInit /\ GdmaInit /\ TimersInit /\ TwaiInit
  /\ GpioInit /\ PwmInit
  /\ driver \in Drivers

Steps == CASE driver \in {"syst", "t0", "wdt"} -> 0 .. MaxStep
           [] driver = "twai" -> 0 .. TwaiStep
           [] driver = "pwm" -> 0 .. PwmMaxStep
           [] OTHER -> {0}
Given(devs, d) == IF driver \in devs THEN d ELSE 0
Moves == IF driver \in {"gpio", "pcnt"} THEN BOOLEAN ELSE {FALSE}
Pulses == IF driver \in {"gpio", "pcnt"} THEN BOOLEAN ELSE {Pulse \in gpio_in}
Drives == IF driver = "gpio" THEN SUBSET Routed ELSE {gpio_in \cap Routed}
Dues == SUBSET {s \in Sides : <<driver, s>> \in {<<"dma_tx", "tx">>, <<"dma_rx", "rx">>}}

(* esp32p4_periodic.                                                       *)
PeriodicPoll ==
  /\ \E d \in Steps :
       /\ TwaiPoll(Given({"twai"}, d))
       /\ TimgPoll(Given({"t0", "wdt"}, d))
       /\ SystPoll(Given({"syst"}, d))
       /\ PwmPoll(Given({"pwm"}, d))
  /\ \E flip \in Moves, pulse \in Pulses, drive \in Drives :
       GpioPoll(flip, pulse, drive)
  /\ I2cPoll
  /\ \E due \in Dues : GdmaPoll(due)
  /\ \E due \in IF driver = "uart" THEN BOOLEAN ELSE {FALSE} : UartPoll(due)
  /\ UNCHANGED driver

(* One register access of the driver.                                      *)
UartAccess ==
  /\ driver = "uart"
  /\ UartGuest
  /\ UNCHANGED <<i2cVars, gdmaVars, timerVars, twaiVars, gpioVars, pwmVars, driver>>

Host ==
  /\ driver = "uart"
  /\ \E b \in Bytes : HostSends(b)
  /\ UNCHANGED <<i2cVars, gdmaVars, timerVars, twaiVars, gpioVars, pwmVars, driver>>

I2cAccess ==
  /\ driver = "i2c"
  /\ I2cGuest
  /\ UNCHANGED <<uartVars, gdmaVars, timerVars, twaiVars, gpioVars, pwmVars, driver>>

GdmaAccess ==
  /\ \/ driver = "dma_tx" /\ TxGuest
     \/ driver = "dma_rx" /\ RxGuest
  /\ UNCHANGED <<uartVars, i2cVars, timerVars, twaiVars, gpioVars, pwmVars, driver>>

TimerAccess ==
  /\ \/ driver = "syst" /\ SystGuest /\ UNCHANGED <<t0Vars, timgInt, wdtVars>>
     \/ driver = "t0" /\ (T0Guest \/ TimgIntGuest) /\ UNCHANGED systVars
     \/ driver = "wdt" /\ (WdtGuest \/ TimgIntGuest) /\ UNCHANGED systVars
  /\ UNCHANGED <<uartVars, i2cVars, gdmaVars, twaiVars, gpioVars, pwmVars, driver>>

TwaiAccess ==
  /\ driver = "twai"
  /\ TwaiGuest
  /\ UNCHANGED <<uartVars, i2cVars, gdmaVars, timerVars, gpioVars, pwmVars, driver>>

GpioAccess ==
  /\ \/ driver = "gpio" /\ (PadGuest \/ GpioIntGuest)
     \/ driver = "pcnt" /\ (PadGuest \/ PcntGuest)
  /\ UNCHANGED <<uartVars, i2cVars, gdmaVars, timerVars, twaiVars, pwmVars, driver>>

PwmAccess ==
  /\ driver = "pwm"
  /\ PwmGuest
  /\ UNCHANGED <<uartVars, i2cVars, gdmaVars, timerVars, twaiVars, gpioVars, driver>>

DevicesNext ==
  \/ PeriodicPoll
  \/ UartAccess \/ Host \/ I2cAccess \/ GdmaAccess \/ TimerAccess \/ TwaiAccess
  \/ GpioAccess \/ PwmAccess

DevicesSpec == DevicesInit /\ [][DevicesNext]_<<deviceVars, driver>>
=============================================================================
