------------------------------- MODULE P4Uart -------------------------------
(***************************************************************************)
(* One UART port of the P4: the receive ring filled from the host's FIFO   *)
(* file (port 0) and by TX->RX loopback, its interrupt bits and its        *)
(* interrupt source.  The ring keeps one slot free.  UartPoll is what      *)
(* esp32p4_periodic does for the port; everything else is a guest access.  *)
(* The RX bits FULL and TOUT are raised together and cleared one by one.   *)
(***************************************************************************)
EXTENDS Integers, Sequences

CONSTANTS
  Port,        \* 0 or 1
  RingSize,    \* UART_RX_FIFO_SZ (128)
  Bytes,       \* byte values
  MaxLine,     \* bound: bytes the host keeps waiting in the file
  ClrArgs,     \* bit sets the driver writes to INT_CLR ...
  EnaArgs      \* ... and to INT_ENA

RxBits == {"full", "tout"}
UartBits == RxBits \cup {"tx"}

ASSUME UartAssumption ==
  /\ Port \in {0, 1}
  /\ RingSize \in Nat \ {0, 1}
  /\ 0 \in Bytes
  /\ MaxLine \in Nat
  /\ ClrArgs \subseteq SUBSET UartBits
  /\ EnaArgs \subseteq SUBSET UartBits

VARIABLES
  uart_line,               \* bytes in the host's file, not yet read
  uart_rx, uart_rx_head, uart_rx_tail,
  uart_raw, uart_ena,      \* INT_RAW and INT_ENA
  uart_source,             \* the port's interrupt source is pending
  uart_loopback            \* CONF0 bit 12

ringVars == <<uart_rx, uart_rx_head, uart_rx_tail>>
uartIntVars == <<uart_raw, uart_ena, uart_source>>
uartVars == <<uart_line, ringVars, uartIntVars, uart_loopback>>

Slots == 0 .. RingSize - 1

(* esp32p4_new: calloc, and zero registers.                                *)
UartInit ==
  /\ uart_line = <<>>
  /\ uart_rx = [i \in Slots |-> 0]
  /\ uart_rx_head = 0
  /\ uart_rx_tail = 0
  /\ uart_raw = {}
  /\ uart_ena = {}
  /\ uart_source = FALSE
  /\ uart_loopback = FALSE

----------------------------------------------------------------------------
(* The ring.                                                               *)

Count(head, tail) == (head - tail) % RingSize

Smaller(a, b) == IF a <= b THEN a ELSE b

ChunkIgnoringFree(head, tail, n) == Smaller(RingSize - head, n)

(* What one read() of the poll loop returns when n bytes are waiting: up   *)
(* to the end of the array, and no more than there are free slots.         *)
Chunk(head, tail, n) ==
  Smaller(Smaller(RingSize - head, RingSize - 1 - Count(head, tail)), n)

AdvanceNoWrap(i, n) == i + n

Advance(i, n) == (i + n) % RingSize

(* One iteration of the poll loop.  s.mem is the ring, s.line the file.    *)
ReadOnce(s) ==
  LET n == Chunk(s.head, uart_rx_tail, Len(s.line))
  IN  [mem  |-> [i \in Slots |-> IF i \in s.head .. s.head + n - 1
                                 THEN s.line[i - s.head + 1] ELSE s.mem[i]],
       head |-> Advance(s.head, n),
       line |-> SubSeq(s.line, n + 1, Len(s.line))]

Ring == [mem |-> uart_rx, head |-> uart_rx_head, line |-> uart_line]

(* esp32p4_uart_rx_poll.  The loop reads until read() returns nothing; the *)
(* third read never does (ThirdReadIsEmpty).                               *)
Filled == ReadOnce(ReadOnce(Ring))

----------------------------------------------------------------------------
(* esp32p4_periodic.                                                       *)

(* Raise the RX bits unless one is up; the source only if one is enabled.  *)
RaiseRx(raw, src) ==
  IF raw \cap RxBits # {} THEN <<raw, src>>
  ELSE <<raw \cup RxBits, src \/ uart_ena \cap RxBits # {}>>

FollowNothing(waiting, raw, src) == <<raw, src>>

(* The level follower of port 0: bytes wait, RX is enabled, no RX bit up.  *)
FollowRx(waiting, raw, src) ==
  IF Port = 0 /\ waiting /\ uart_ena \cap RxBits # {} THEN RaiseRx(raw, src)
                                                     ELSE <<raw, src>>

(* TXFIFO_EMPTY: enabled and not up.                                       *)
FollowTx(raw, src) ==
  IF "tx" \in uart_ena \ raw THEN <<raw \cup {"tx"}, TRUE>> ELSE <<raw, src>>

(* due: the cycle count is a multiple of 512, the file is looked at.       *)
UartPoll(due) ==
  LET reads  == due /\ Port = 0
      after  == IF reads THEN Filled ELSE Ring
      more   == Count(after.head, uart_rx_tail) # Count(uart_rx_head, uart_rx_tail)
      edge   == IF more THEN RaiseRx(uart_raw, uart_source)
                        ELSE <<uart_raw, uart_source>>
      level  == FollowRx(after.head # uart_rx_tail, edge[1], edge[2])
      final  == FollowTx(level[1], level[2])
  IN  /\ uart_rx' = after.mem
      /\ uart_rx_head' = after.head
      /\ uart_line' = after.line
      /\ uart_raw' = final[1]
      /\ uart_source' = final[2]
      /\ UNCHANGED <<uart_rx_tail, uart_ena, uart_loopback>>

----------------------------------------------------------------------------
(* Guest accesses, and the host.                                           *)

(* The host writes a byte to the file.                                     *)
HostSends(b) ==
  /\ Len(uart_line) < MaxLine
  /\ uart_line' = Append(uart_line, b)
  /\ UNCHANGED <<ringVars, uartIntVars, uart_loopback>>

(* Read of the FIFO register; an empty ring reads 0 and changes nothing.   *)
UartRead ==
  /\ uart_rx_head # uart_rx_tail
  /\ uart_rx_tail' = Advance(uart_rx_tail, 1)
  /\ UNCHANGED <<uart_line, uart_rx, uart_rx_head, uartIntVars,
                 uart_loopback>>

(* The byte goes out and, in loopback, into the ring if it has room.       *)
Transmit(b) ==
  IF uart_loopback /\ Count(uart_rx_head, uart_rx_tail) < RingSize - 1
  THEN LET up == RaiseRx(uart_raw, uart_source)
       IN  /\ uart_rx' = [uart_rx EXCEPT ![uart_rx_head] = b]
           /\ uart_rx_head' = Advance(uart_rx_head, 1)
           /\ uart_raw' = up[1]
           /\ uart_source' = up[2]
           /\ UNCHANGED <<uart_rx_tail, uart_ena>>
  ELSE UNCHANGED <<ringVars, uartIntVars>>

(* A word store to the FIFO register.                                      *)
UartWrite(b) ==
  /\ Transmit(b)
  /\ UNCHANGED <<uart_line, uart_loopback>>

(* INT_CLR: the source falls only with the last of the three bits.         *)
UartIntClr(bits) ==
  /\ uart_raw' = uart_raw \ bits
  /\ uart_source' = (uart_source /\ uart_raw \ bits # {})
  /\ UNCHANGED <<uart_line, ringVars, uart_ena, uart_loopback>>

(* INT_ENA: TXFIFO_EMPTY is forced on; the source is not looked at again.  *)
UartIntEna(bits) ==
  /\ uart_ena' = bits \cup {"tx"}
  /\ UNCHANGED <<uart_line, ringVars, uart_raw, uart_source,
                 uart_loopback>>

(* CONF0: rxfifo_rst (bit 22) empties the ring, bit 12 is the loopback.    *)
UartConf0(rst, loop) ==
  /\ uart_rx_head' = IF rst THEN 0 ELSE uart_rx_head
  /\ uart_rx_tail' = IF rst THEN 0 ELSE uart_rx_tail
  /\ uart_loopback' = loop
  /\ UNCHANGED <<uart_line, uart_rx, uartIntVars>>

UartGuest ==
  \/ \E b \in Bytes : UartWrite(b)
  \/ UartRead
  \/ \E bits \in ClrArgs : UartIntClr(bits)
  \/ \E bits \in EnaArgs : UartIntEna(bits)
  \/ \E rst, loop \in BOOLEAN : UartConf0(rst, loop)

UartNext ==
  \/ \E b \in Bytes : HostSends(b)
  \/ UartGuest
  \/ \E due \in BOOLEAN : UartPoll(due)

UartSpec == UartInit /\ [][UartNext]_uartVars

----------------------------------------------------------------------------
(* Properties.                                                             *)

(* The ring's indices stay inside the array, the interrupt registers hold  *)
(* the port's bits.                                                        *)
UartTypeOK ==
  /\ uart_line \in Seq(Bytes)
  /\ uart_rx \in [Slots -> Bytes]
  /\ uart_rx_head \in Slots
  /\ uart_rx_tail \in Slots
  /\ uart_raw \subseteq UartBits
  /\ uart_ena \subseteq UartBits
  /\ uart_source \in BOOLEAN
  /\ uart_loopback \in BOOLEAN

(* The bytes waiting in the ring, oldest first.                            *)
RingContents ==
  [i \in 1 .. Count(uart_rx_head, uart_rx_tail) |->
     uart_rx[Advance(uart_rx_tail, i - 1)]]

Fifo == INSTANCE ByteQueue WITH
          line <- uart_line, queue <- RingContents, Capacity <- RingSize - 1

(* The ring, its wrapped reads, loopback and resets included, is a bounded *)
(* queue: no byte is lost, repeated or reordered, and a poll takes         *)
(* all that fits (uart_rx_poll, the FIFO register).                        *)
RingIsQueue == Fifo!QueueSpec

(* After every poll of port 0 a driver that has RX enabled and bytes       *)
(* waiting is being interrupted, and sees an RX bit - also when the edge   *)
(* came before it armed INT_ENA, or it cleared the bits with bytes left.   *)
RxSeen ==
  Port = 0 /\ uart_rx_head # uart_rx_tail /\ uart_ena \cap RxBits # {}
     => uart_source /\ uart_raw \cap RxBits # {}

UartAwake == [][(\E due \in BOOLEAN : UartPoll(due)) => RxSeen']_uartVars
=============================================================================
