------------------------------- MODULE P4I2c -------------------------------
(***************************************************************************)
(* The P4's I2C controller with its virtual EEPROM at address 0x50.  The   *)
(* driver fills the TX FIFO and the command registers and writes START;    *)
(* the next esp32p4_periodic walks the list (I2cPoll).  Walk is the        *)
(* executor as coded, Bus what its comments say a round does on the bus.   *)
(***************************************************************************)
EXTENDS Integers, Sequences

CONSTANTS
  FifoSize,    \* depth of both FIFOs (32)
  DevSize,     \* bytes of the EEPROM (16)
  CmdRegs,     \* number of command registers (8)
  MaxRounds,   \* bound: rounds the driver prepares
  CmdArgs,     \* <<register, command>> the driver programs
  DataArgs     \* bytes the driver pushes to the TX FIFO

Cmd(op, n) == [op |-> op, n |-> n]
Unprogrammed == Cmd("none", 0)
Ops == {"rstart", "write", "read", "stop", "end"}

ASSUME I2cAssumption ==
  /\ FifoSize \in Nat /\ DevSize \in 1 .. 192 /\ CmdRegs \in Nat
  /\ MaxRounds \in Nat
  /\ CmdArgs \subseteq (1 .. CmdRegs) \X [op : Ops \cup {"none"}, n : Nat]
  /\ DataArgs \subseteq 0 .. 255

VARIABLES
  i2c_cmd,                 \* command[0..7]
  i2c_tx, i2c_rx,          \* the FIFOs
  i2c_rx_pos,              \* bytes of i2c_rx already read
  i2c_exec_pending,
  i2c_raw, i2c_ena, i2c_source,
  i2c_dev_mem, i2c_dev_ptr,\* the EEPROM and its register pointer
  i2c_rounds               \* bound: rounds executed

i2cBus == <<i2c_cmd, i2c_tx, i2c_rx, i2c_rx_pos, i2c_exec_pending>>
i2cInt == <<i2c_raw, i2c_ena, i2c_source>>
i2cDev == <<i2c_dev_mem, i2c_dev_ptr>>
i2cVars == <<i2cBus, i2cInt, i2cDev, i2c_rounds>>

I2cBits == {"nack", "end_detect", "trans_complete"}

I2cInit ==
  /\ i2c_cmd = [c \in 1 .. CmdRegs |-> Unprogrammed]
  /\ i2c_tx = <<>> /\ i2c_rx = <<>> /\ i2c_rx_pos = 0
  /\ i2c_exec_pending = FALSE
  /\ i2c_raw = {} /\ i2c_ena = {} /\ i2c_source = FALSE
  /\ i2c_dev_mem = [i \in 0 .. DevSize - 1 |-> 64 + i]
  /\ i2c_dev_ptr = 0
  /\ i2c_rounds = 0

----------------------------------------------------------------------------
(* The executor.  e is the round so far: the FIFO bytes left, the slave's  *)
(* state and the loop's flags; ptr0 says that no FIFO byte was consumed.   *)

IsDevice(b) == b \div 2 = 80      \* P4_I2C_DEV_ADDR
IsRead(b) == b % 2 = 1

Listens(e) == e.active /\ ~e.rw

(* The byte after an RSTART.                                               *)
Address(e, b) ==
  IF IsDevice(b) THEN [e EXCEPT !.active = TRUE, !.rw = IsRead(b)]
                 ELSE [e EXCEPT !.active = FALSE, !.nack = TRUE]

SetPointer(e, b) == IF Listens(e) THEN [e EXCEPT !.ptr = b] ELSE e

StoreByteNoWrap(e, b) ==
  IF Listens(e) THEN [e EXCEPT !.mem[e.ptr % DevSize] = b, !.ptr = @ + 1] ELSE e

(* A payload byte: stored, with auto-increment.                            *)
StoreByte(e, b) ==
  IF Listens(e) THEN [e EXCEPT !.mem[e.ptr % DevSize] = b,
                               !.ptr = (@ + 1) % DevSize]
                ELSE e

(* Byte k of a WRITE.  After an RSTART (heads) the first is the address    *)
(* and the second the register pointer; any other WRITE has payload only.  *)
WriteByte(e, k, b, heads, ptr0) ==
  IF k = 1 /\ heads THEN Address(e, b)
  ELSE IF (k = 2 /\ heads) \/ (k = 1 /\ ptr0) THEN SetPointer(e, b)
  ELSE StoreByte(e, b)

(* A WRITE of n bytes, as far as the FIFO has them.                        *)
DoWrite(e, n) ==
  LET m == IF n <= Len(e.fifo) THEN n ELSE Len(e.fifo)
      after[k \in 0 .. m] ==
        IF k = 0
        THEN [e EXCEPT !.fifo = SubSeq(@, m + 1, Len(@)), !.phase = FALSE,
                       !.ptr0 = @ /\ m = 0]
        ELSE WriteByte(after[k - 1], k, e.fifo[k], e.phase, e.ptr0)
  IN  after[m]

(* k bytes from the pointer on, as many as the RX FIFO takes.              *)
DoRead(e, n) ==
  LET room == FifoSize - Len(e.rx)
      k == IF n <= room THEN n ELSE room
  IN  IF e.nack THEN [e EXCEPT !.stop = TRUE]
      ELSE IF ~e.active THEN [e EXCEPT !.nack = TRUE]
      ELSE [e EXCEPT
             !.rx = @ \o [i \in 1 .. k |-> e.mem[(e.ptr + i - 1) % DevSize]],
             !.ptr = (@ + k) % DevSize]

(* One command of the loop; nothing after a STOP, END or empty register.   *)
Step(e, cmd) ==
  IF e.stop THEN e ELSE
  CASE cmd.op = "none"   -> [e EXCEPT !.stop = TRUE]
    [] cmd.op = "rstart" -> [e EXCEPT !.phase = TRUE]
    [] cmd.op = "write"  -> DoWrite(e, cmd.n)
    [] cmd.op = "read"   -> DoRead(e, cmd.n)
    [] cmd.op = "stop"   -> [e EXCEPT !.stop = TRUE, !.saw_stop = TRUE]
    [] cmd.op = "end"    -> [e EXCEPT !.stop = TRUE]

Round == [fifo |-> i2c_tx, ptr0 |-> TRUE, phase |-> FALSE, active |-> FALSE,
          rw |-> FALSE, nack |-> FALSE, stop |-> FALSE, saw_stop |-> FALSE,
          ptr |-> i2c_dev_ptr, mem |-> i2c_dev_mem, rx |-> i2c_rx]

(* The loop over the command registers: the round after each of them.      *)
WalkTo ==
  LET after[c \in 0 .. CmdRegs] ==
        IF c = 0 THEN Round ELSE Step(after[c - 1], i2c_cmd[c])
  IN  after
Walk == WalkTo[CmdRegs]

(* The one event a round reports.                                          *)
Event(e) == IF e.nack THEN "nack"
            ELSE IF e.saw_stop THEN "end_detect" ELSE "trans_complete"

(* The I2C part of esp32p4_periodic.                                       *)
I2cPoll ==
  IF ~i2c_exec_pending THEN UNCHANGED i2cVars ELSE
  LET e == Walk
  IN  /\ i2c_exec_pending' = FALSE
      /\ i2c_rx' = e.rx
      /\ i2c_tx' = <<>>
      /\ i2c_dev_mem' = e.mem
      /\ i2c_dev_ptr' = e.ptr
      /\ i2c_raw' = i2c_raw \cup {Event(e)}
      /\ i2c_source' = (i2c_source \/ i2c_raw' \cap i2c_ena # {})
      /\ i2c_rounds' = i2c_rounds + 1
      /\ UNCHANGED <<i2c_cmd, i2c_rx_pos, i2c_ena>>

----------------------------------------------------------------------------
(* Register accesses of the driver.                                        *)

I2cCommand(c, cmd) ==
  /\ i2c_cmd' = [i2c_cmd EXCEPT ![c] = cmd]
  /\ UNCHANGED <<i2c_tx, i2c_rx, i2c_rx_pos, i2c_exec_pending, i2cInt, i2cDev,
                 i2c_rounds>>

I2cPushAnyway(b) ==
  /\ i2c_tx' = Append(i2c_tx, b)
  /\ UNCHANGED <<i2c_cmd, i2c_rx, i2c_rx_pos, i2c_exec_pending, i2cInt, i2cDev,
                 i2c_rounds>>

(* DATA: a full FIFO drops the byte.                                       *)
I2cPush(b) ==
  /\ i2c_tx' = IF Len(i2c_tx) < FifoSize THEN Append(i2c_tx, b) ELSE i2c_tx
  /\ UNCHANGED <<i2c_cmd, i2c_rx, i2c_rx_pos, i2c_exec_pending, i2cInt, i2cDev,
                 i2c_rounds>>

(* A read of DATA pops the RX FIFO.                                        *)
I2cPop ==
  /\ i2c_rx_pos < Len(i2c_rx)
  /\ i2c_rx_pos' = i2c_rx_pos + 1
  /\ UNCHANGED <<i2c_cmd, i2c_tx, i2c_rx, i2c_exec_pending, i2cInt, i2cDev,
                 i2c_rounds>>

(* CTR with trans_start: a round is due.  The stored bit is always clear,  *)
(* so a repeated START starts over; nothing is lost by it.                 *)
I2cStart ==
  /\ i2c_exec_pending' = TRUE
  /\ i2c_rx' = <<>> /\ i2c_rx_pos' = 0
  /\ UNCHANGED <<i2c_cmd, i2c_tx, i2cInt, i2cDev,
                 i2c_rounds>>

I2cFifoReset(tx, rx) ==
  /\ i2c_tx' = IF tx THEN <<>> ELSE i2c_tx
  /\ i2c_rx' = IF rx THEN <<>> ELSE i2c_rx
  /\ i2c_rx_pos' = IF rx THEN 0 ELSE i2c_rx_pos
  /\ UNCHANGED <<i2c_cmd, i2c_exec_pending, i2cInt, i2cDev,
                 i2c_rounds>>

(* INT_CLR drops the source whatever bits remain.                          *)
I2cIntClr(bits) ==
  /\ i2c_raw' = i2c_raw \ bits
  /\ i2c_source' = FALSE
  /\ UNCHANGED <<i2cBus, i2c_ena, i2cDev, i2c_rounds>>

I2cIntEna(bits) ==
  /\ i2c_ena' = bits
  /\ UNCHANGED <<i2cBus, i2c_raw, i2c_source, i2cDev, i2c_rounds>>

I2cGuest ==
  \/ /\ i2c_rounds < MaxRounds
     /\ \/ \E a \in CmdArgs : I2cCommand(a[1], a[2])
        \/ \E b \in DataArgs : I2cPush(b)
        \/ I2cStart
  \/ I2cPop
  \/ \E tx, rx \in BOOLEAN : I2cFifoReset(tx, rx)
  \/ I2cIntClr(I2cBits)
  \/ I2cIntEna(I2cBits)

----------------------------------------------------------------------------
(* Properties.                                                             *)

(* FIFOs within their depth, the reader behind the writer, the pointer a   *)
(* byte.                                                                   *)
I2cTypeOK ==
  /\ Len(i2c_tx) <= FifoSize /\ Len(i2c_rx) <= FifoSize
  /\ i2c_rx_pos \in 0 .. Len(i2c_rx)
  /\ i2c_raw \subseteq I2cBits
  /\ i2c_dev_ptr \in 0 .. 255
  /\ i2c_dev_mem \in [0 .. DevSize - 1 -> 0 .. 255]

(* What a round does on the bus, byte by byte: b.want is what the slave    *)
(* expects next.  A NACK ends the list.                                    *)
BusByte(b, byte) ==
  CASE b.want = "address" ->
         IF ~IsDevice(byte) THEN [b EXCEPT !.want = "nothing", !.nack = TRUE]
         ELSE [b EXCEPT !.want = IF IsRead(byte) THEN "nothing" ELSE "pointer",
                        !.active = TRUE]
    [] b.want = "pointer" -> [b EXCEPT !.want = "data", !.ptr = byte]
    [] b.want = "data" -> [b EXCEPT !.mem[b.ptr % DevSize] = byte,
                                    !.ptr = (@ + 1) % DevSize]
    [] OTHER -> b

BusWrite(b, n) ==
  LET m == IF n <= Len(b.fifo) THEN n ELSE Len(b.fifo)
      after[k \in 0 .. m] ==
        IF k = 0 THEN [b EXCEPT !.fifo = SubSeq(@, m + 1, Len(@))]
        ELSE BusByte(after[k - 1], b.fifo[k])
  IN  after[m]

BusRead(b, n) ==
  LET k == IF n <= FifoSize - Len(b.rx) THEN n ELSE FifoSize - Len(b.rx)
  IN  IF ~b.active THEN [b EXCEPT !.nack = TRUE]
      ELSE [b EXCEPT !.rx = @ \o [i \in 1 .. k |-> b.mem[(b.ptr + i - 1) % DevSize]],
                     !.ptr = (@ + k) % DevSize]

BusStep(b, cmd) ==
  IF b.stop \/ b.nack THEN b
  ELSE CASE cmd.op = "rstart" -> [b EXCEPT !.want = "address"]
         [] cmd.op = "write"  -> BusWrite(b, cmd.n)
         [] cmd.op = "read"   -> BusRead(b, cmd.n)
         [] OTHER -> [b EXCEPT !.stop = TRUE, !.saw_stop = cmd.op = "stop"]

BusTo ==
  LET after[c \in 0 .. CmdRegs] ==
        IF c = 0
        THEN [fifo |-> i2c_tx, want |-> "nothing", active |-> FALSE,
              nack |-> FALSE, stop |-> FALSE, saw_stop |-> FALSE,
              ptr |-> i2c_dev_ptr, mem |-> i2c_dev_mem, rx |-> i2c_rx]
        ELSE BusStep(after[c - 1], i2c_cmd[c])
  IN  after
Bus == BusTo[CmdRegs]

RoundIsBus ==
  LET w == Walk
      b == Bus
  IN  w.mem = b.mem /\ w.ptr = b.ptr /\ w.rx = b.rx /\ Event(w) = Event(b)

(* Command c is a WRITE to a slave that expects want.                      *)
WritesTo(c, want) ==
  ~BusTo[c - 1].stop /\ BusTo[c - 1].want = want /\ i2c_cmd[c].op = "write"

(* The address has a WRITE of its own (the legacy driver's write_byte);    *)
(* else it heads the WRITE that carries the pointer.                       *)
AddressAlone == \E c \in 1 .. CmdRegs : WritesTo(c, "pointer")

(* A WRITE of no bytes where the address is due.                           *)
AddressMissing ==
  \E c \in 1 .. CmdRegs : WritesTo(c, "address") /\ i2c_cmd[c].n = 0

(* The executor selects the slave once more after a NACK.                  *)
SelectsAfterNack == \E c \in 0 .. CmdRegs : WalkTo[c].nack /\ WalkTo[c].active

(* Whatever the driver wrote between its START and the poll, the round     *)
(* the executor runs changes the EEPROM and its pointer, fills the RX FIFO *)
(* and reports as the bus protocol says: for lists whose write address     *)
(* heads its payload and in which no second address follows a NACK.        *)
WalkFollowsBus ==
  i2c_exec_pending /\ ~AddressAlone /\ ~AddressMissing /\ ~SelectsAfterNack
    => RoundIsBus

(* "The first payload byte of a W phase = register pointer", also when the *)
(* address had a WRITE of its own.                                         *)
PointerComesFirst ==
  i2c_exec_pending /\ AddressAlone /\ ~Walk.nack => RoundIsBus
=============================================================================
