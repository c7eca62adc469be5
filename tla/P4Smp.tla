------------------------------- MODULE P4Smp -------------------------------
(***************************************************************************)
(* The dual-core ESP32-P4 machine as the emulator runs it: one host thread *)
(* executes rv_step, which picks a hart for every block (smp_target),      *)
(* advances the peripherals and delivers interrupts to BOTH harts          *)
(* (smp_poll) and runs one block of the selected hart.  The module follows *)
(* the scheduler and the LR/SC reservations of the two harts through that  *)
(* loop; P4Chain adds the block-chaining globals to it.                    *)
(*                                                                         *)
(* Left out: instruction semantics other than stores, LR and SC; the       *)
(* peripherals; what an interrupt handler computes.  Cycle counters are    *)
(* kept as two differences (the code only ever compares them), which       *)
(* saturate at CycleSpan.                                                  *)
(***************************************************************************)
EXTENDS Integers, FiniteSets

CONSTANTS
  NWords,        \* number of RAM words the harts reserve and store to
  Quantum,       \* blocks a hart runs before the other (256 in the code)
  PinMax,        \* smp_lr_pin bound (512 in the code)
  CyclePerStep,  \* attr->cycle_per_step
  MaxCost,       \* most cycles one block or one handler takes
  CycleSpan      \* cycle differences saturate here

ASSUME SmpAssumption ==
  /\ NWords \in Nat \ {0}
  /\ Quantum \in Nat \ {0}
  /\ PinMax \in Nat
  /\ CyclePerStep \in Nat \ {0}
  /\ MaxCost \in Nat \ {0}
  /\ CycleSpan \in Nat /\ CycleSpan >= CyclePerStep

Harts == {0, 1}
Other(h) == 1 - h
None == 2                      \* no hart
Words == 0 .. NWords - 1
Addrs == 0 .. 4 * NWords - 1
Sizes == {1, 2, 4}

VARIABLES
  phase,       \* where rv_step is, see Phases
  cur,         \* the local variable rv of rv_step: the selected hart
  created,     \* soc->hart[1] exists
  halt,        \* rv->halt of each hart
  next_insn,   \* rv->next_insn # NULL: the hart has a saved unwind point
  smp_lr_pin, smp_toggle,
  lead,        \* hart1.csr_cycle - hart0.csr_cycle
  left,        \* cycles_target - hart0.csr_cycle
  lr_valid, lr_word,             \* the reservations (lr_addr & ~3)
  peer,        \* history: how the peer has overlapped the reserved word
  ran          \* history: the hart that executed the last block

schedVars == <<cur, created, halt, smp_lr_pin, smp_toggle>>
cycleVars == <<lead, left>>
lrVars    == <<lr_valid, lr_word, peer>>
vars == <<phase, schedVars, cycleVars, next_insn, lrVars, ran>>

Phases == {"idle", "loop", "poll0", "isr0", "poll1", "isr1", "dispatch",
           "exec", "resume"}

(* The hart whose instructions execute now; None outside guest execution.  *)
Running == CASE phase = "isr0" -> 0
             [] phase = "isr1" -> 1
             [] phase \in {"exec", "resume"} -> cur
             [] OTHER -> None

----------------------------------------------------------------------------
(* Reservations: lrw, scw and the peer invalidation of write_w/s/b.        *)

WordOf(a) == a \div 4

(* A store of n bytes at a covers a byte of word w.                        *)
Overlaps(a, n, w) == a + n > 4 * w /\ a < 4 * w + 4

(* A word store that begins in another word and runs into w.               *)
Splits(a, n, w) == n = 4 /\ WordOf(a) # w /\ Overlaps(a, n, w)

ClearsAnyStore(a, n, w) == TRUE
ClearsNoHalfword(a, n, w) == IF n = 4 THEN WordOf(a) = w
                                      ELSE n = 1 /\ Overlaps(a, n, w)

(* The test the three store paths apply to the peer's reservation: a word  *)
(* store compares word addresses, the narrower ones compare byte ranges.   *)
Clears(a, n, w) == IF n = 4 THEN WordOf(a) = w ELSE Overlaps(a, n, w)

(* What the store of n bytes at a by hart h does to the other reservation. *)
PeerValid(h, a, n) ==
  LET o == Other(h) IN
  IF created /\ Clears(a, n, lr_word[o]) THEN [lr_valid EXCEPT ![o] = FALSE]
                                         ELSE lr_valid

PeerSeen(h, a, n) ==
  LET o == Other(h) IN
  IF Overlaps(a, n, lr_word[o])
    THEN [peer EXCEPT ![o] = @ \cup
            {IF Splits(a, n, lr_word[o]) THEN "split" ELSE "whole"}]
    ELSE peer

(* sb, sh, sw and the write of an AMO; P4 allows misaligned addresses.     *)
Store(h, a, n) ==
  /\ Running = h
  /\ lr_valid' = PeerValid(h, a, n)
  /\ peer' = PeerSeen(h, a, n)
  /\ UNCHANGED <<phase, schedVars, cycleVars, next_insn, lr_word, ran>>

LoadReserved(h, w) ==
  /\ Running = h
  /\ lr_valid' = [lr_valid EXCEPT ![h] = TRUE]
  /\ lr_word' = [lr_word EXCEPT ![h] = w]
  /\ peer' = [peer EXCEPT ![h] = {}]
  /\ UNCHANGED <<phase, schedVars, cycleVars, next_insn, ran>>

ScSucceeds(h, w) == lr_valid[h] /\ lr_word[h] = w

StoreConditional(h, w) ==
  /\ Running = h
  /\ IF ScSucceeds(h, w)
       THEN /\ lr_valid' = [PeerValid(h, 4 * w, 4) EXCEPT ![h] = FALSE]
            /\ peer' = PeerSeen(h, 4 * w, 4)
       ELSE /\ lr_valid' = [lr_valid EXCEPT ![h] = FALSE]
            /\ UNCHANGED peer
  /\ UNCHANGED <<phase, schedVars, cycleVars, next_insn, lr_word, ran>>

----------------------------------------------------------------------------
(* Cycle counters.                                                         *)

Clip(x) == IF x > CycleSpan THEN CycleSpan
           ELSE IF x < -CycleSpan THEN -CycleSpan ELSE x

(* Hart h executed n cycles.                                               *)
Spend(h, n) ==
  /\ lead' = Clip(IF h = 0 THEN lead - n ELSE lead + n)
  /\ left' = IF h = 0 THEN Clip(left - n) ELSE left

(* rv->csr_cycle < cycles_target && !rv->halt                              *)
LoopCondition == /\ IF cur = 0 THEN left > 0 ELSE lead < left
                 /\ ~halt[cur]

----------------------------------------------------------------------------
(* rv_step and esp32p4_smp_target.                                         *)

StepBegin ==
  /\ phase = "idle" /\ ~halt[0]
  /\ cur' = 0
  /\ left' = CyclePerStep
  /\ phase' = "loop"
  /\ UNCHANGED <<created, halt, smp_lr_pin, smp_toggle, lead, next_insn,
                 lrVars, ran>>

StepEnd ==
  /\ phase = "loop" /\ ~LoopCondition
  /\ phase' = "idle"
  /\ UNCHANGED <<schedVars, cycleVars, next_insn, lrVars, ran>>

(* First call, before hart0 has run a cycle: hart1 is created (cycle 0, no *)
(* reservation) and hart0 keeps the iteration.                             *)
TargetCreate ==
  /\ phase = "loop" /\ LoopCondition /\ ~created
  /\ created' = TRUE
  /\ phase' = "poll0"
  /\ UNCHANGED <<cur, halt, smp_lr_pin, smp_toggle, cycleVars, next_insn,
                 lrVars, ran>>

(* A hart with a saved unwind point goes first, hart0 before hart1.        *)
TargetBusy ==
  /\ phase = "loop" /\ LoopCondition /\ created
  /\ \E h \in Harts : next_insn[h]
  /\ cur' = IF next_insn[0] THEN 0 ELSE 1
  /\ phase' = "poll0"
  /\ UNCHANGED <<created, halt, smp_lr_pin, smp_toggle, cycleVars, next_insn,
                 lrVars, ran>>

NoneBusy == \A h \in Harts : ~next_insn[h]

TargetHalted ==
  /\ phase = "loop" /\ LoopCondition /\ created /\ NoneBusy
  /\ \E h \in Harts : halt[h]
  /\ cur' = IF halt[0] THEN 1 ELSE 0
  /\ phase' = "poll0"
  /\ UNCHANGED <<created, halt, smp_lr_pin, smp_toggle, cycleVars, next_insn,
                 lrVars, ran>>

SyncLead == IF lead < 0 THEN 0 ELSE lead

PinnedForever == lr_valid[cur]

Pinned == lr_valid[cur] /\ smp_lr_pin < PinMax

TargetPinnedNoCount ==
  /\ phase = "loop" /\ LoopCondition /\ created /\ NoneBusy
  /\ \A h \in Harts : ~halt[h]
  /\ Pinned
  /\ lead' = SyncLead
  /\ phase' = "poll0"
  /\ UNCHANGED <<schedVars, left, next_insn, lrVars, ran>>

(* A hart holding a live reservation keeps the machine, PinMax times.      *)
TargetPinned ==
  /\ phase = "loop" /\ LoopCondition /\ created /\ NoneBusy
  /\ \A h \in Harts : ~halt[h]
  /\ Pinned
  /\ smp_lr_pin' = smp_lr_pin + 1
  /\ lead' = SyncLead
  /\ phase' = "poll0"
  /\ UNCHANGED <<cur, created, halt, smp_toggle, left, next_insn, lrVars, ran>>

(* (smp_toggle++ >> 8) & 1: the counter matters modulo two quanta.         *)
TargetQuantum ==
  /\ phase = "loop" /\ LoopCondition /\ created /\ NoneBusy
  /\ \A h \in Harts : ~halt[h]
  /\ ~Pinned
  /\ smp_lr_pin' = 0
  /\ smp_toggle' = (smp_toggle + 1) % (2 * Quantum)
  /\ cur' = IF smp_toggle >= Quantum THEN 1 ELSE 0
  /\ lead' = SyncLead
  /\ phase' = "poll0"
  /\ UNCHANGED <<created, halt, left, next_insn, lrVars, ran>>

----------------------------------------------------------------------------
(* esp32p4_smp_poll: interrupts of hart 0, then of hart 1.                 *)

PollPhase(h) == IF h = 0 THEN "poll0" ELSE "poll1"
IsrPhase(h)  == IF h = 0 THEN "isr0" ELSE "isr1"
AfterPoll(h) == IF h = 0 THEN "poll1" ELSE "dispatch"

(* Nothing deliverable (or no hart1 yet).                                  *)
PollQuiet(h) ==
  /\ phase = PollPhase(h)
  /\ phase' = AfterPoll(h)
  /\ UNCHANGED <<schedVars, cycleVars, next_insn, lrVars, ran>>

(* check_interrupt delivers: the handler runs inside the poll.             *)
PollDeliver(h) ==
  /\ phase = PollPhase(h) /\ ~halt[h]
  /\ h = 1 => created
  /\ phase' = IsrPhase(h)
  /\ UNCHANGED <<schedVars, cycleVars, next_insn, lrVars, ran>>

(* mret, or the pause after trap_budget instructions.                      *)
IsrEnd(h, n) ==
  /\ phase = IsrPhase(h)
  /\ Spend(h, n)
  /\ phase' = AfterPoll(h)
  /\ UNCHANGED <<schedVars, next_insn, lrVars, ran>>

----------------------------------------------------------------------------
(* The rest of the loop body: one block of the selected hart.              *)

(* The saved instruction, if there is one, else the block at the hart's PC. *)
Dispatch ==
  /\ phase = "dispatch"
  /\ next_insn' = [next_insn EXCEPT ![cur] = FALSE]
  /\ phase' = IF next_insn[cur] THEN "resume" ELSE "exec"
  /\ ran' = cur
  /\ UNCHANGED <<schedVars, cycleVars, lrVars>>

(* The block (or what was left of it) ran to its end, or its translation   *)
(* trapped and the handler ran.                                            *)
EndBlock(n) ==
  /\ phase \in {"exec", "resume"}
  /\ Spend(cur, n)
  /\ phase' = "loop"
  /\ UNCHANGED <<schedVars, next_insn, lrVars, ran>>

(* RVOP_TAIL_INTRA hits the hard limit: the block is left half-way.        *)
Yield(n) ==
  /\ phase \in {"exec", "resume"}
  /\ Spend(cur, n)
  /\ next_insn' = [next_insn EXCEPT ![cur] = TRUE]
  /\ phase' = "loop"
  /\ UNCHANGED <<schedVars, lrVars, ran>>

(* An instruction returned false (a trap was taken, the map was cleared).  *)
BlockFails(n) ==
  /\ phase \in {"exec", "resume"}
  /\ Spend(cur, n)
  /\ phase' = "idle"
  /\ UNCHANGED <<schedVars, next_insn, lrVars, ran>>

(* block_find_or_translate returned NULL and no trap is pending.           *)
Untranslatable ==
  /\ phase = "exec"
  /\ halt' = [halt EXCEPT ![cur] = TRUE]
  /\ phase' = "idle"
  /\ UNCHANGED <<cur, created, smp_lr_pin, smp_toggle, cycleVars, next_insn,
                 lrVars, ran>>

(* indirect_rv_halt: the page stops hart0 between two main-loop calls.     *)
HostHalt ==
  /\ phase = "idle" /\ ~halt[0]
  /\ halt' = [halt EXCEPT ![0] = TRUE]
  /\ UNCHANGED <<phase, cur, created, smp_lr_pin, smp_toggle, cycleVars,
                 next_insn, lrVars, ran>>

(* rv_run's loop ended: only hart0 governs shutdown.                       *)
Stopped == phase = "idle" /\ halt[0] /\ UNCHANGED vars

----------------------------------------------------------------------------
Init ==
  /\ phase = "idle" /\ cur = 0 /\ created = FALSE
  /\ halt = [h \in Harts |-> FALSE]
  /\ next_insn = [h \in Harts |-> FALSE]
  /\ smp_lr_pin = 0 /\ smp_toggle = 0
  /\ lead = 0 /\ left = 0
  /\ lr_valid = [h \in Harts |-> FALSE]
  /\ lr_word = [h \in Harts |-> 0]
  /\ peer = [h \in Harts |-> {}]
  /\ ran = 0

Target == TargetCreate \/ TargetBusy \/ TargetHalted \/ TargetPinned
          \/ TargetQuantum

Memory == \E h \in Harts :
  \/ \E a \in Addrs, n \in Sizes : Store(h, a, n)
  \/ \E w \in Words : LoadReserved(h, w) \/ StoreConditional(h, w)

Poll == \E h \in Harts :
  \/ PollQuiet(h) \/ PollDeliver(h)
  \/ \E n \in 1 .. MaxCost : IsrEnd(h, n)

Block == \/ Dispatch \/ Untranslatable
         \/ \E n \in 1 .. MaxCost : EndBlock(n) \/ Yield(n) \/ BlockFails(n)

Next == StepBegin \/ StepEnd \/ Target \/ Memory \/ Poll \/ Block
        \/ HostHalt \/ Stopped

Spec == Init /\ [][Next]_vars

(* The host thread keeps running; handlers end (trap_budget) and a block   *)
(* left half-way is resumed to its end after finitely many unwinds, since  *)
(* blocks are finite and are not chained (CONFIG_BLOCK_CHAINING=n).        *)
Progress == StepBegin \/ StepEnd \/ Target \/ Poll \/ Block
EndBlockOf(h) == cur = h /\ \E n \in 1 .. MaxCost : EndBlock(n)
FairSpec == Spec /\ WF_vars(Progress) /\ \A h \in Harts : SF_vars(EndBlockOf(h))

----------------------------------------------------------------------------
TypeOK ==
  /\ phase \in Phases
  /\ cur \in Harts /\ ran \in Harts /\ created \in BOOLEAN
  /\ halt \in [Harts -> BOOLEAN] /\ next_insn \in [Harts -> BOOLEAN]
  /\ smp_lr_pin \in 0 .. PinMax /\ smp_toggle \in 0 .. 2 * Quantum - 1
  /\ lead \in -CycleSpan .. CycleSpan /\ left \in -CycleSpan .. CycleSpan
  /\ lr_valid \in [Harts -> BOOLEAN] /\ lr_word \in [Harts -> Words]
  /\ peer \in [Harts -> SUBSET {"whole", "split"}]

(* While a reservation is live, no peer store has touched the reserved     *)
(* word since the LR, except a word store split across a word boundary:    *)
(* what makes a successful SC (rv32_template.c scw) an atomic update.      *)
ReservationSound == \A h \in Harts : lr_valid[h] => "whole" \notin peer[h]

(* A live reservation is lost only through the hart's own SC or a peer     *)
(* store that overlaps the reserved word; traps, hart switches, unwinds    *)
(* and stores elsewhere keep it (the write_w comment: a blanket clear      *)
(* turned every peer store into a permanent sc failure).                   *)
ReservationKept ==
  [][\A h \in Harts : lr_valid[h] /\ ~lr_valid'[h] =>
        Running = h \/ peer'[h] # {}]_vars

(* Unless it or the governing hart0 has halted, each hart executes blocks  *)
(* again and again: the quantum, the bounded pin and the unwind priority   *)
(* of smp_target starve nobody.                                            *)
NoStarvation ==
  \A h \in Harts : []<>(halt[h] \/ halt[0] \/ (phase = "exec" /\ cur = h))

(* The write_w comment: "An overlapping store by the peer hart clears its  *)
(* LR reservation".                                                        *)
OverlapClears == \A h \in Harts : lr_valid[h] => peer[h] = {}

(* The smp_target comment: a hart with a live reservation is NEVER         *)
(* preempted by the quantum switch (below the pin bound).                  *)
NeverPreempted ==
  [][TargetQuantum /\ cur' # ran /\ smp_lr_pin < PinMax => ~lr_valid[ran]]_vars
=============================================================================
