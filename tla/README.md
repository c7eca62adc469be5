# A TLA+ model of the ESP32 RISC-V emulator

The repository is a WebAssembly (and native) emulator of ESP32-C3, C6, H2 and P4
machines on the rv32emu core.  This directory holds TLA+ modules of the parts whose
correctness depends on the order of events, TLC configurations that check them on small
instances, and TLAPS proofs.  All C paths below are relative to `src/` of the repository.

## 1. Inventory

| part | state | operations | interacts with | what makes it correct |
|---|---|---|---|---|
| main loop (`emulate.c` `rv_step`, `riscv.c` `rv_run`) | the local `rv`, `csr_cycle`, `halt`, `next_insn` | choose a hart, poll, resume or run one block, leave | everything; re-entered by the browser's main loop | every live hart keeps running; a resumed block continues where it was left |
| P4 SMP (`esp32p4.c` `smp_target`, `smp_poll`) | `hart[2]`, `smp_toggle`, `smp_lr_pin`, cycle counters | create hart1, pick a hart, pin, quantum, poll both harts | LR/SC, handlers, peripherals | no starvation; cycle counters stay comparable |
| LR/SC (`rv32_template.c` `lrw`, `scw`; `esp32p4.c` `write_w/s/b`) | `lr_valid`, `lr_addr` of each hart | reserve, conditional store, invalidation by the peer | scheduler, all stores | an SC succeeds only if nobody stored to the word; reservations are not lost for other reasons |
| chaining globals (`emulate.c`) | `prev`, `last_pc`, `is_branch_taken`, a saved copy per hart | swap on a hart switch, reset by handlers, link blocks | scheduler, handlers | a block is only linked to its own hart's predecessor |
| INTMTX, CLIC, CLINT (`esp32p4.c` `check_interrupt`, MMIO, ROM calls) | pending sources, two MAPs, enables, levels, SW pending bits, two thresholds, MSIP | raise, route, mask, arbitrate, acknowledge | both harts write the same flags; trap entry and mret | right ID, right threshold, no lost or stale interrupt, the crosscore handshake ends |
| traps (`emulate.c` `_trap_handler`, `__trap_handler`) | mstatus, `is_trapped`, mepc, `clic_vector_*` | enter, run the handler, pause after `trap_budget`, return | chaining globals, CLIC | interrupts stay masked in handlers; a pause loses nothing |
| block map, L1 block cache, IR pool (`emulate.c`, `riscv.c`) | translated blocks by PC | look up, translate, clear | fence.i, MMU, ROM hooks | no stale block runs |
| P4 ROM hooks (`esp32p4.c` `ifetch`, `ecall_handler`) | a flag, guest registers | serve a ROM call at translation and at execution | block map | both paths do the same |
| P4 peripherals (`esp32p4.c` `periodic` and MMIO) | GDMA walkers, I2C list, SPI2, TWAI, RMT, MCPWM, PCNT, UART ring, SYSTIMER, TIMG | register writes, per-block advance | interrupt sources, guest memory | transfers complete once, in order; rings keep their bounds |
| P4 flash (`esp32p4.c`) | MMU table, command registers | map, read window, program, erase | translation | reads follow the last mapping |
| C3, C6, H2 machines | as P4 with one hart and the older interrupt controller | same | core | same |
| JIT and T2C (`jit.c`, `t2c.c`, `riscv.c` `t2c_runloop`) | code cache, work queue, a compiler thread | compile, publish, invalidate | block cache under a lock | no use of an evicted block; not in the WebAssembly build |
| containers (`cache.c`, `map.c`, `mpool.c`) | lists, trees, free lists | insert, evict, allocate | block cache | bounds, no double use |
| loader, memory, syscalls, devices, GDB stub, entry | files and host I/O | | | |

The hard behaviours: two harts interleaved block by block on one host thread with
handlers of *both* run inside the poll; globals written for one hart and read for the
other; a browser main loop that leaves blocks half-way; level and edge interrupts shared
by two harts with two maps; registers that are set through two paths; peripherals that act
one poll after the register write that started them, with deadlines written by one hart's
cycle counter and checked against the other's; and, in the JIT builds, a compiler thread
that works on blocks without the cache lock.

## 2. Modules

| module | models | checked by | proved in |
|---|---|---|---|
| `P4Smp` | `rv_step`, `smp_target`, `smp_poll`, LR/SC and store invalidation | `P4Smp*.cfg` through `MCP4Smp` | `P4SmpProofs` |
| `P4Chain` (extends `P4Smp`) | the chaining globals and the unwind point under that scheduler | `P4Chain*.cfg` through `MCP4Chain` | `P4SmpProofs` |
| `P4Clic` | interrupt matrix, CLIC, CLINT, FROM_CPU, thresholds, MIE/MPIE | `P4Clic*.cfg` through `MCP4Clic` | `P4ClicProofs` |
| `P4Uart` | a UART port: receive ring, host file, loopback, interrupt bits | `P4Devices*.cfg` through `MCP4Devices` | `P4UartProofs` |
| `ByteQueue` | what the receive path promises: a bounded queue | refined by `P4Uart` (`RingIsQueue`) | `P4UartProofs` |
| `P4I2c` | the I2C controller's command list and its EEPROM | `P4Devices*.cfg` | `P4I2cProofs`, `P4DevicesProofs` |
| `P4Gdma` | descriptor walkers of a TX and an RX channel, I2S0 | `P4Devices.cfg` | `P4DevicesProofs` |
| `P4Timers` | SYSTIMER targets, TIMG timer T0 and watchdog | `P4Devices.cfg` | `P4TimersProofs` |
| `P4Twai` | transmit completion and the virtual node's frame | `P4Devices.cfg` | `P4DevicesProofs` |
| `P4Gpio` | pads, their interrupts and a pulse counter unit | `P4Devices.cfg` | `P4DevicesProofs` |
| `P4Pwm` | an MCPWM timer and a generator | `P4Devices.cfg` | `P4DevicesProofs` |
| `P4Devices` (extends the seven) | `esp32p4_periodic` over all of them, one driver at a time | `P4Devices*.cfg` | `P4DevicesProofs` |
| `Tier2` | the JIT build's block cache, compiler thread, jit_cache and inline cache | `Tier2*.cfg` through `MCTier2` | `Tier2Proofs` |
| `NatRecursion` | facts the proofs share: induction, recursion on an index, division | | itself |

### P4Smp
`phase` is the program point of `rv_step`: `idle` (outside), `loop` (the while
condition and `smp_target`), `poll0`/`poll1` (`check_interrupt` of each hart), `isr0`/`isr1`
(the handler, run to `mret` or to `trap_budget` inside the poll), `dispatch`, `exec` (a block)
and `resume` (a saved instruction).  Each early return of `smp_target` is an action, in the
code's order: `TargetCreate`, `TargetBusy`, `TargetHalted`, `TargetPinned`, `TargetQuantum`.
Guest instructions are `Store`, `LoadReserved` and `StoreConditional` by whichever hart executes,
block or handler.  The code compares cycle counters only with each other and with the
target, so the model keeps the differences `lead` and `left`, clipped at `CycleSpan`.
The history variable `peer` records stores of the other hart to the reserved word and `ran`
the hart that ran the last block.

### P4Chain
A block is represented by its hart; `taken` is the last writer of `is_branch_taken`.
A handler that `__trap_handler` pauses leaves `is_trapped` set (`trapped`): the blocks its hart
then runs are cut by `RVOP_NO_NEXT` after one instruction, write no branch outcome and become
`prev` all the same (`BlockEndsTrapped`).  The histories: `moved`, a handler left its hart
somewhere else than where it interrupted it; `cut`, the hart's last block was cut so;
`crossed`, whether a handler of the hart has run since its last block, and whether with its own
globals loaded or only while they were saved away.
`P4Chain` adds conjuncts to the actions of `P4Smp`, and `ChainImplementsSmp` proves that
`ChainSpec` implies `Spec`.

### P4Clic
Sources are the two crosscore sources and one level-driven device; map words keep their
values, so that the masking of `check_interrupt` and the unmasked compare of the CLIC
read differ as in the code.  `Scan` is the loop over the IDs, in ascending order, with
`Better` as its step, `Acks` the acknowledgement.  A threshold is set by the ROM call, which writes
both registers, by the CSR or by the THRESH register.  ID 0 stands for the IDs without a line.
The history variables are `owed` (crosscore requests not yet delivered), `asked` (the threshold
the guest set last), `mirrored` (it was set by the ROM call) and `meant` (IDs pended on
purpose).  What a guest may pass to the configuration calls is a set constant
per call.

### P4Devices and the device modules
`PeriodicPoll` is `esp32p4_periodic`: all devices in one step, between any two register
accesses of the guest.  A register access is one action of the device's module, with the
whole effect of its branch in `esp32_mmio_write` or `esp32_mmio_read`.  The devices share
no registers and no interrupt source, so a behaviour has one `driver`; the others are
polled idle.  T0 and the watchdog of a timer group have drivers of their own, as have the
pads and the pulse counter: the pairs share what `TimgIntGuest` and `PadGuest` write.  The
UART, GDMA, TWAI and timer modules have their own `Spec` as well, which the proofs use.

* **Time.**  The code keeps absolute cycles; the models keep what it compares: the
  distance to hart 0's counter, by which `esp32p4_periodic` polls.  A register write uses
  the counter of the hart that writes it, which differs from hart 0's by the *skew*, a
  number from `-Behind` to `Ahead` chosen by the writing action: `smp_target` only pulls
  hart 1 forward, so it may be a quantum ahead, and it is behind while hart 0 runs a
  handler inside the poll.  Histories (`timg_age`, `wdt_age`, `request_age`) count hart 0's
  cycles since an anchor, and the properties compare the two.
* **P4Uart.**  `Filled` is the loop of `esp32p4_uart_rx_poll`: two reads, since after them
  either the file or the free slots are used up (`ThirdReadIsEmpty`, proved).  The RX bits
  RXFIFO_FULL and TOUT are raised together and cleared by the driver one by one.
  `RingContents` is the refinement mapping to `ByteQueue`.
* **P4I2c.**  `Walk` takes `Step`, the executor's loop body, over the command registers,
  and `DoWrite` takes `WriteByte` over the bytes of a WRITE; `Bus` is an independent, byte
  by byte account of what the round does on the bus.
* **P4Gdma.**  A walker is a record of the cached descriptor; lengths are in words (the
  code drops the remainder).  A start at an
  address outside RAM keeps the cached descriptor and runs all the same, and a restart of a
  channel that has run out of descriptors reports the last one once more without moving a word.
  `moved`, `eof`, `rx_log`, `rx_home` are histories; `rerun` marks the EOF of a channel set running
  without a load and `rx_cut` samples dropped by a reset or a buffer outside RAM.
* **P4Timers.**  `crossed` is the number of periods a target has seen; T0 keeps a counter
  and a fraction; `wdt_left` is the time to the watchdog's expiry.
* **P4Twai.**  The driver's own step `TwaiCounts` (`tx_msg_count++` in the IDF driver,
  outside this repository) is part of the model, as the delay in the code exists for it.
* **P4Gpio.**  Pads are sets.  `EdgeCheck` is `esp32p4_gpio_edge_check`, called by the
  writes that drive pads and by the poll that moves the button; `Live` is what GPIO_IN reads,
  with the outputs of pads 0 to 29 only (`OutPads`).  The poll also moves the pulse source's
  pad (`Pulse`) and the pads in `Routed`, which follow a peripheral, without a check, as in the
  code.  `counted` is the history of the edges of `Live`, whoever made them; `missed` records that
  a counted pad changed without a check or was checked with another level than it has, and
  `bare` a STATUS_W1TS of 0, which raises the source with no bit.  The matrix is fixed.
* **P4Pwm.**  `PwmPoll` runs `Tick` as often as the elapsed cycles allow.  Period and mode may
  be written while the timer runs; `mcpwm_since` records it, as `cut` when the count is left
  beyond the period.  `Position` and
  `Direction` are the closed form of the count that `PwmWave` compares it with, and
  `mcpwm_age` the history of hart 0's cycles since the start.

### Tier2
`main` and `t2c` are the program points and locals of the two threads.  What the main
thread does while it holds `cache_lock` is one step, because the compiler thread touches
nothing shared without the lock; the compiler's last section is split store by
store (`Publish`), because compiled code reads the jit_cache, and `code_cache_flush`
writes it, without the lock.  A compiled function is an entry of `engines`: the key it was
compiled for, the (key, version) pairs of the blocks traced into it, and whether its
engine is live; `version` counts what the guest mapped into a page.  All keys share one
jit_cache slot, the case in which writers meet.  `cached` is the set of cached blocks and any
of them may be the victim of an eviction, so that nothing depends on the order of the LFU
lists; `Replaced` says when there is a victim.  A translation that fails, on a fetch fault or an
illegal first instruction, keeps the block it allocated (`lost`).  A block that ends with its
page is linked to the next page's like one that ends with a branch (`Succ`).  Fences run in
`rv_step`, and in the guest's handler of a load or store fault, which compiled code runs nested
(`system.c:553-565`, `riscv.h:238`, `emulate.c:2851-2904`): that handler is interpreted instruction
by instruction, so it fences (`MayFence`, `main.fenced`) but neither translates nor evicts.
`floor` is what was mapped at the last fence of everything, `recent` the blocks translated
since.  The history `pubs` is the number of completed
updates of the slot when the reader loaded its sequence number.

## 3. Runs

| run | shows |
|---|---|
| `P4Smp.cfg` | `ReservationSound`: while a reservation is live the peer has not stored to the word, except by a split word store; `ReservationKept`: it is lost only to the hart's own SC or an overlapping store; `NoStarvation`: each live hart runs blocks for ever |
| `P4Smp_NeverPreempted.cfg` (violation) | `rv_step` begins with hart0 again, so hart1's live reservation does not pin |
| `P4Smp_OverlapClears.cfg` (violation) | a misaligned word store overlaps two words, `write_w` compares one; P4 allows misaligned stores (`riscv.c:1050`) |
| `P4Chain.cfg` | `ChainOwn`: a block is linked only to its own hart's block, with that block's branch outcome unless a paused handler cut it, and not across a handler that ran with the hart's globals loaded |
| `P4Chain_ResumeInPlace.cfg` (violation) | an interrupt delivered between an unwind and its resumption switches tasks; the saved instruction runs in the wrong task |
| `P4Clic.cfg` | `DeliversBest`: the ID delivered is asserted, masked by neither threshold, and beats all others that are, by a definition of its own; `NoLostIpi`; `ThresholdHolds`: nothing below a threshold just set is delivered, and one set by the ROM call is exactly in force; `IpiServed`: a crosscore flag reads back 0 in the end |
| `P4Clic_NoLostIpi.cfg` (violation) | hart 1 uses the line where its map still has source 79: hart 0's request is cleared undelivered |
| `P4Clic_NoStalePend.cfg` (violation) | a read-modify-write of a CLIC word while its line is up leaves the SW pending bit set |
| `P4Devices.cfg` | `RingIsQueue` (refinement): no byte lost, repeated or reordered; `UartAwake`: waiting bytes interrupt a driver that enabled RX; `WalkFollowsBus`: a round has the effect of the bus protocol; `EofAfterData`, `RxStream`, `RxInHome`: DMA ends after its data, in order, in the right buffers, through starts inside and outside RAM, stops, restarts and resets; `MarkersInStep`: no alarm burst, no boundary swallowed; `TimgKeepsTime`, `WdtOnTime`: right up to the skew; `CountedFirst`: no completion before the driver's count; `FrameAnnounced`: a frame's interrupt survives the read-to-clear register; `PcntCounts`, `EdgesAnnounced`: every edge of a pad is counted once and announced, whichever of output, enable or button made it, while others move without a check; `SourcesBacked`: the shared GPIO source stays up until the last pad is acknowledged; `PwmWave`: position and level are those of the programmed wave, however the ticks fall into polls |
| `P4Devices_PointerComesFirst.cfg` (violation) | a write whose address has a WRITE command of its own: the register pointer is stored as data |
| `Tier2.cfg` | `BlocksAccounted`: every block is free, cached, left to the compiler thread, or the one a failed translation left behind; `LiveCode`, `JumpLands`: what runs is a live function, of the block asked for; `FreshCode`: its own block's code is the one mapped, all of it if it lies on one page, and none is older than the last fence of everything - as long as no flush of the tier-1 buffer overlaps a publication |
| `Tier2_JumpLands.cfg` (violation) | a flush of the tier-1 buffer overlaps a publication (`FlushRaces`): `code_cache_flush` clears the jit_cache without the lock, and after the race the slot's sequence number is odd at rest |

The findings are in `PROJECT.json`.  Some weigh less than they look: SDKs that align
their words, and that route both crosscore sources away from lines in use, do not meet
`OverlapClears` and `NoLostIpi`.

**Exceptions in the properties.**  In some places the code does less than a comment of it says,
and a property that repeated the comment would fail.  The models have what the code does; the
property states the rest, with the exception spelled out in a history variable.

* `esp32p4.c:5844-5845` wants level > threshold; code (5891) and the comment above it have >=.
  `DeliversBest` has >=.
* `esp32p4.c:5183-5186` calls the `max()` of the two thresholds correct either way.  Lowering only
  one of the registers leaves the other's value masking; `ThresholdHolds` claims the lower
  bound for all paths and equality for the ROM call, which writes both.
* A channel whose start lies outside RAM is parked (`esp32p4.c:744`) and then set running
  (4119-4120), and a parked channel can be restarted (4124-4127, 4168-4171): the first EOF is
  then of the old descriptor and without data, although EOF is raised "once it has pushed the
  descriptor's full length" (6416-6417).  `EofAfterData` excepts that one EOF (`rerun`), and
  `RxInHome` speaks of the last start that found its descriptor.
* `esp32p4.c:6018-6019` says the edge check runs for the pulse injection.  It does not (6144-6153,
  6355-6368): edges of pad 6 raise no interrupt, and are counted at some later check or not
  at all.  `PcntCounts` holds until that happens to a counted pad, `EdgesAnnounced` for the others.
* STATUS_W1TS of 0 raises the GPIO source (`esp32p4.c:4636-4639`); `SourcesBacked` excepts it.
* "Timers count 0..period" (`esp32p4.c:6647`), but a period below the count may be written while
  the timer runs (4309) and the count then leaves it behind; `PwmTypeOK` excepts that (`cut`).
* `rv32_template.c:606-608` says SFENCE.VMA invalidates compiled blocks with stale mappings.
  `cache_invalidate_va` looks at where a block begins, so the fence of a page does not reach a
  function of another page into which its blocks were traced; interpreted chains follow the same
  links.  `FreshCode` claims for such functions only that a fence of everything reaches them.
* `block_find_or_translate` drops a block when its translation fails (`emulate.c:2209-2210`).
* With `BLOCK_CHAINING`, a block cut by a paused handler is linked by an older outcome, and a
  handler that runs in the poll while the other hart's globals are loaded resets that hart's
  `prev` and not its own (`emulate.c:2910`): `ChainOwn` excepts both (`cut`, `crossed`).

`WalkFollowsBus` leaves out three kinds of lists: those `PointerComesFirst` is about
(`AddressAlone`, a WRITE to a slave that expects its pointer); those with a WRITE of no bytes
where the address is due (`AddressMissing`: the executor takes the next WRITE for payload);
and those that select the slave again after a NACK (`SelectsAfterNack`: the executor does not
stop there, as its comment says it does).  The three conditions are what the proof needs;
narrower ones, stated before, held for the short lists of the run and not in general.

**Bounds.**  Two words are enough for stores inside, outside and across the reserved word;
reservations do not interact otherwise.  A quantum and a pin of 2 make every order of
pin, quantum and switch happen, as the code only tests the counters against a bound; the
step length of 2 cycles makes `rv_step` end at every point of a quantum.  P4Chain has no
property about addresses or lengths of time, so one word and bounds of 1 suffice.  In P4Clic each hart has a
crosscore line, a device line and, on hart 1, the CLINT's; three levels make thresholds
below, at and above a level and ties between IDs occur, ID 0 among them; hart 1 sets thresholds on all
three paths; the device is routed by both the ROM call and the MAP register, and unmapped.  P4Devices: a ring of 4 with 2 bytes on
the line wraps, fills and is read in two pieces; five command registers hold a
write-then-read with both forms of address, and FIFOs of 3 overflow; five descriptors give
a chain with an empty one that ends in a buffer outside RAM, and a ring, and a third start is
outside RAM; FIFOs of 2 fill up, and an RX stream has `MaxSample` = 3 samples; skews of one cycle either way with steps of 0 to 2 put an anchor before, at
and after the poll, and two targets show the effect of one on the other.  One I2C round
suffices: a round leaves only the EEPROM and its pointer behind, and every value of the
pointer is reached in one.  `MaxCount` ends the SYSTIMER's count and is the length of the
histories.  Four pads (one beyond the effective outputs, the button's, the pulse
source's, a routed one), two of them counted, by a counter of one bit (`CntHalf` = 1) with
histories to `MaxCounted` = 1, so that it wraps; PWM periods of 1 and 2 with ticks of 2 cycles,
polls of 0 to 3 cycles and runs of 8, so that a poll holds up to two ticks, an up/down count
passes both ends, and a running timer is given a period below its count.  Tier2: three keys for three blocks and a cache of two, so that every
translation evicts; two compilations (`MaxCompiles`) of the two keys that get hot (`Hot`),
so that one is published while the other's code runs; one change of a page's mapping
(`MaxRemaps`; before a fence of everything nothing or page 0 has changed, `FenceChanges`), one
failed translation (`MaxLost`); a block that branches inside its page to one that goes on to
the next page (`OverPageEnd`), so that code of two pages is traced into one function.  A sequence number modulo 4 does not hide an ABA: the compiled code that
reads the slot runs only after the first of the two compilations, so that at most one update
falls into one read; the theorems ask for it as `SeqWide`.

**Fairness.**  `P4Smp!FairSpec`: the host thread keeps stepping (weak fairness of
`Progress`, a loop without waits), and a block that is left again and again is ended again
and again (strong fairness of `EndBlockOf`): blocks are finite, every unwind leaves fewer
instructions of the block to run.  No fairness is assumed of halting, of interrupts or of
any guest instruction.  `P4Clic!FairSpec`: a hart that is open to an interrupt over a block
boundary again and again is interrupted, since `rv_step` polls both harts before every
block.  `IpiServed` is conditional on the guest opening its hart again and again.

## 4. Proofs

Every safety property of the passing runs is a theorem, for all constants that satisfy the
named assumptions (`SmpAssumption`, `ClicAssumption`, `UartAssumption`, `I2cAssumption`,
`GdmaAssumption`, `TimersAssumption`, `TwaiAssumption`, `GpioAssumption`, `PwmAssumption`,
`Tier2Assumption`): any number of words, descriptors, pads, channels, blocks and keys, any FIFO
depth, ring size, period, divider and skew.  Where a theorem has a hypothesis it is one
about the guest, or the build, that the runs' constants satisfy as well; each is named below.

**Induction and recursion.**  The provers cannot instantiate the library's induction
theorems, so `NatRecursion` derives from the well-foundedness of `<` an induction with a set
in place of the predicate (`NatClosure`), the existence of functions defined by recursion on
an index (`Recursion`) and that such a function stays in the set its steps stay in
(`Iterates`).  With them a loop of the code, a recursive function inside a `LET` of the
model, is shown to have a value for every length and is then reasoned about pass by pass.

**Scheduler and chaining** (`P4SmpProofs`)

* `SmpTypeCorrect`, `SmpReservationSound`, `SmpReservationKept`.  The inductive invariant
  `IInv` is `TypeOK`, `ReservationSound` and `Hart1Absent` (before hart1 is created it has no
  reservation, no unwind point and does not run): the store paths skip the peer test until
  `hart[1]` exists, so without it a first store would break `ReservationSound`.
  `OverlapIsCleared` and `ClearedIsOverlap` are the two facts about addresses: the
  tests of the three store widths clear exactly on overlap, split word stores apart.
* `ChainImplementsSmp`: `P4Chain` implements `P4Smp`.
* `SmpChainOwn`.  `ChainOwn` speaks of one program point; `ChainInv` says whose the globals and
  the saved copies are at every point, that `is_branch_taken` goes with `prev` except after a cut
  block and for a hart left half-way through a block, which is resumed (and resets `prev`)
  before it can be linked, and that a handler run with its hart's globals loaded leaves no `prev`.

**Interrupts** (`P4ClicProofs`)

* `ClicTypeCorrect`, whatever values are written to the MAP registers.
* `ClicDeliversBest`: by induction over the IDs scanned so far, the best of them is the one
  that wins against all of them; `EligibleIsReady` connects the code's condition with the
  property's own.
* `ClicThresholdHolds`, for all guests.  `ThreshInv`: the threshold set last is in one of the
  registers, and in both after the ROM call.
* `ClicNoLostIpi`, as long as no hart enables the ID its map gives the other hart's
  crosscore source (`CrosscoreApart`).

**Compiler thread and block cache** (`Tier2Proofs`)

* `Tier2BlocksAccounted`, without hypotheses.  `OwnedInv` adds to the accounting who may point
  to a block: `is_compiling` is set only for the block the thread compiles, a block that is
  neither free nor cached nor lost is that one with `should_free` set, and what is published is
  cached.
* `Tier2LiveCode`, `Tier2JumpLands`, as long as no flush of the tier-1 buffer overlaps a
  publication (`NoFlushRace`; `Tier2_JumpLands.cfg` shows what happens otherwise) and the
  sequence number does not come round within the run (`SeqWide`; it is a `uint32_t`, two
  steps an update).  The argument is that of a sequence lock: an even number means that the
  slot holds one whole update, the number determines how many updates there were (`pubs`),
  so a reader that finds the number it loaded first has read key and entry of the same one.
* `Tier2FreshCode`, under the same two hypotheses, for any branches and nested fences.  Every
  function that can still be reached, through a block, the slot, the inline cache or the
  reader's locals, satisfies the property's condition (`FuncsFresh`, `CachesFresh`), and one that
  is being compiled when its page is fenced is discarded.  What is traced follows `Links`: a link
  inside a page leads from a valid block to a valid one, and a link from a block translated since
  the last fence of everything to another such block (`recent`), as eviction removes the links
  to what it evicts and a fence resets `prev`.  From it `TracedFresh` and `TracedCode`.

**Devices** (`P4UartProofs`, `P4TimersProofs`, `P4I2cProofs`, `P4DevicesProofs`).  Each device
is proved under its own polls and register accesses; a lemma per device (`GdmaSteps`,
`GpioSteps`, `PwmSteps`, `TimerSteps`, `I2cSteps`) or a refinement (`DevicesImplementUart`,
`DevicesImplementTwai`) says that a step of `P4Devices` is one of the device's, so that the
`Devices...` theorems hold for the machine.

* `UartTypeCorrect`, `UartStaysAwake`, `ThirdReadIsEmpty` and `RingRefinesQueue`, for every
  ring size.  The refinement maps a poll to `ByteQueue`'s `Receive`: one `ReadOnce` appends
  its chunk to the ring's contents (an argument about `%` and where the ring wraps), and
  two of them take exactly as many bytes as fit.  `UartAwake` needs the invariant `Steady`:
  the TX bit is up only with the source, and any enable has TXFIFO_EMPTY forced on;
  otherwise a driver could find the RX bits up and the source down.  `DevicesUart` carries
  them over.
* `TwaiTypeCorrect`, `TwaiFrameAnnounced`, `TwaiCountedFirst`, carried over by `DevicesTwai`.
  `TwaiInv` adds that an uncounted request still has `TxDelay - TwaiBehind` minus its age to go.
* `TimersTypeCorrect`, `AlarmsInStep`, `TimerKeepsTime`, `WatchdogOnTime`, carried over by
  `DevicesTimers`.  Three invariants,
  one per timer: the markers equal the periods passed (division is monotone, so a poll that
  does not fire has passed no boundary); a foreign anchor is only met by the first poll
  after it, and what T0 counts in a poll is the elapsed time, or less when a counter that
  runs down reaches zero; the watchdog's age and the time it has left add up to the
  timeout, give or take the skew.
* `DevicesI2cType`, `DevicesWalkFollowsBus`.  A simulation: `Sim` relates the executor and the bus
  between two commands and `InStep` between two bytes of a WRITE.  The executor recognises
  address and pointer by counting bytes from the RSTART, the bus by what the slave expects;
  the two agree because the slave listens exactly when it expects a pointer or data.  After
  a NACK the bus stands still and the executor goes on, without effect while the slave is not
  selected (`NackedWrite`).
* `DevicesGdmaType`, `DevicesEofAfterData`, `DevicesRxStream`, `DevicesRxInHome`, for any descriptor
  table, link addresses and drivers.  `EofInv`: in a walker that has not parked and was not set
  running without a load, words moved and words left add up to its descriptor.  `StreamInv`:
  the samples stored, those in the FIFO and the next one rise, and are consecutive until some
  are dropped.  `HomeInv`: the walker's next descriptor is in the chain of the last start in
  RAM, which is closed under `next`.
* `DevicesEdgesAnnounced`, `DevicesSourcesBacked`, `DevicesPcntCounts`.  `PrevSeen`: on the
  pads that are always checked, and while nothing was missed on the counted ones,
  `gpio_in_prev` is what GPIO_IN reads, so that the edge check compares the right levels.  The counter takes the edges channel by channel modulo its width,
  the history adds them up, and `%` commutes with the addition (`SignedAdd`).
* `DevicesPwmType`, and `DevicesPwmWave` for timers whose period and mode are those of their start.
  By induction over the ticks of one poll: a tick moves the
  count to the next position of the closed form and the generator's action keeps the
  level's; the ticks of a poll are those of the elapsed cycles, the rest of which is
  carried to the next.

Only model-checked: `NoStarvation` and `IpiServed`, which are liveness under fairness, and the
violations.  The proofs also changed the models.  Besides the hypotheses of
`WalkFollowsBus`, two arms of a `CASE` in `DoRead` overlapped (a READ after a NACK with no slave
selected), which TLC had resolved by their order; and the block cache of `Tier2` kept an
order that no property needed.

## 5. Not modelled, and the plan

Instruction semantics, decoding, fusion and the hash ports are pure data and left to
the architecture tests.  Loader, syscalls, SDL, GDB and Linux devices are host I/O
outside the ESP32 build.  `P4Clic` leaves out plain byte writes of CLIC enables and
levels (the ROM calls have the same effect), S-mode and the vectors.

Of the implementation's 133,000 lines some 90,000 are ROM images and tables in headers,
and most of the rest is instruction semantics, vector instructions and code generators:
data without interleavings.  Left out of the modelled parts:

* UART: the de-duplication of the byte stores of one word store, baud rates, the USB
  console's output; port 1 has no level follower (`Port = 1` models it, `UartAwake` is
  about port 0).
* GDMA: the AES channels (`peri_sel` 6), owner write-back, byte remainders, sample values.
* Timers: the second group (a copy), the second SYSTIMER unit (counts in step), the
  UPDATE latches, RTC calibration.
* GPIO: the matrix and the PCNT configuration do not change.  The pulse source has two
  wave forms in one poll, of which the second stays; the model gives its pad any level.  Edges of
  routed pads: LEDC and MCPWM drive them without an edge check, and the button's check takes
  `gpio_out` for them, so that a counter or an edge interrupt there misses edges and sees phantom
  ones.  The properties except them.
* MCPWM: force fields and pads.  A start keeps the direction, so the first event is applied in
  that of the run before; `PwmWave` begins after it.
* SPI2, RMT, LEDC, ADC, flash, SHA and AES: register files that work at the write or at the
  next poll.  RMT reception uses register offsets without its base (`esp32p4.c:6372`).
* Tier2: more than one address space; the hash of the jit_cache (the writer's index is PC xor
  SATP, `t2c.c:828-829`, the reader's also has PC >> 12 in it, `t2c_template.c:196-206`: a reader
  may look into another slot, and since the whole key is compared it then misses and `rv_step`
  takes over); failed memory allocations, which stop the emulator; frequency and ghost lists of
  the LFU cache (which block is evicted, not what happens to it), generated code, tier-1
  chaining.
* C3, C6 and H2: single-hart versions of the P4 file.

Next: the ROM hooks with the interpreter build's block map; the arbitration of the
single-hart machines' interrupt controller; SPI2 and RMT.
