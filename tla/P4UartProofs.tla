---------------------------- MODULE P4UartProofs ----------------------------
(***************************************************************************)
(* The receive ring of a UART port is a bounded queue of bytes, for every  *)
(* ring size, and its driver is not left asleep with bytes waiting.        *)
(***************************************************************************)
EXTENDS P4Uart, SequenceTheorems, TLAPS

----------------------------------------------------------------------------
(* Ring arithmetic.                                                        *)

(* The three cases of a remainder the ring needs.                          *)
LEMMA ModBelow ==
  ASSUME NEW m \in Nat \ {0}, NEW x \in 0 .. m - 1
  PROVE  x % m = x
  OBVIOUS

LEMMA ModAbove ==
  ASSUME NEW m \in Nat \ {0}, NEW x \in m .. m + m - 1
  PROVE  x % m = x - m
  OBVIOUS

LEMMA ModNegative ==
  ASSUME NEW m \in Nat \ {0}, NEW x \in Int, 0 < -x, -x <= m
  PROVE  x % m = x + m
  OBVIOUS

(* The number of bytes between two indices.                                *)
LEMMA CountIs ==
  ASSUME NEW h \in Slots, NEW t \in Slots
  PROVE  /\ Count(h, t) = IF t <= h THEN h - t ELSE h - t + RingSize
         /\ Count(h, t) \in Slots
         /\ Count(h, t) = 0 <=> h = t
<1>1. CASE t <= h
  BY <1>1, UartAssumption, ModBelow DEF Count, Slots
<1>2. CASE h < t
  BY <1>2, UartAssumption, ModNegative DEF Count, Slots
<1> QED BY <1>1, <1>2 DEF Slots

(* An index moved on by at most a full turn.                               *)
LEMMA AdvanceIs ==
  ASSUME NEW i \in Slots, NEW n \in 0 .. RingSize
  PROVE  /\ Advance(i, n) = IF i + n < RingSize THEN i + n ELSE i + n - RingSize
         /\ Advance(i, n) \in Slots
<1>1. CASE i + n < RingSize
  BY <1>1, UartAssumption, ModBelow DEF Advance, Slots
<1>2. CASE RingSize <= i + n
  <2>1. RingSize \in Nat \ {0} /\ i + n \in RingSize .. RingSize + RingSize - 1
    BY <1>2, UartAssumption DEF Slots
  <2> DEFINE x == i + n
  <2>2. x \in RingSize .. RingSize + RingSize - 1
    BY <2>1
  <2>3. x % RingSize = x - RingSize
    <3> HIDE DEF x
    <3> QED BY <2>1, <2>2, ModAbove
  <2> QED BY <1>2, <2>1, <2>3 DEF Advance, Slots
<1> QED BY <1>1, <1>2, UartAssumption DEF Slots

(* Moving the head on adds bytes, as long as one slot stays free.          *)
LEMMA CountAfterAdvance ==
  ASSUME NEW h \in Slots, NEW t \in Slots, NEW n \in Nat,
         Count(h, t) + n <= RingSize - 1
  PROVE  /\ Count(Advance(h, n), t) = Count(h, t) + n
         /\ Advance(h, n) \in Slots
<1>1. n \in 0 .. RingSize
  BY CountIs, UartAssumption DEF Slots
<1>2. Advance(h, n) \in Slots
  BY <1>1, AdvanceIs
<1>3. Advance(h, n) = IF h + n < RingSize THEN h + n ELSE h + n - RingSize
  BY <1>1, AdvanceIs
<1>4. Count(h, t) = IF t <= h THEN h - t ELSE h - t + RingSize
  BY CountIs
<1>5. Count(Advance(h, n), t) = IF t <= Advance(h, n) THEN Advance(h, n) - t
                                ELSE Advance(h, n) - t + RingSize
  BY <1>2, CountIs
<1> QED BY <1>1, <1>2, <1>3, <1>4, <1>5, UartAssumption DEF Slots

(* What one read() returns is no more than there is, and than fits.        *)
LEMMA ChunkIs ==
  ASSUME NEW h \in Slots, NEW t \in Slots, NEW n \in Nat
  PROVE  /\ Chunk(h, t, n) \in 0 .. n
         /\ Count(h, t) + Chunk(h, t, n) <= RingSize - 1
         /\ h + Chunk(h, t, n) <= RingSize
         /\ \/ Chunk(h, t, n) = n
            \/ Count(h, t) + Chunk(h, t, n) = RingSize - 1
            \/ h + Chunk(h, t, n) = RingSize
<1> DEFINE c == Count(h, t)
<1>1. c \in 0 .. RingSize - 1 /\ RingSize \in Nat /\ h \in 0 .. RingSize - 1
  BY CountIs, UartAssumption DEF Slots
<1>2. Chunk(h, t, n) = Smaller(Smaller(RingSize - h, RingSize - 1 - c), n)
  BY DEF Chunk
<1> HIDE DEF c
<1>3. /\ Chunk(h, t, n) \in 0 .. n
      /\ c + Chunk(h, t, n) <= RingSize - 1
      /\ h + Chunk(h, t, n) <= RingSize
      /\ \/ Chunk(h, t, n) = n
         \/ c + Chunk(h, t, n) = RingSize - 1
         \/ h + Chunk(h, t, n) = RingSize
  BY <1>1, <1>2 DEF Smaller
<1> QED BY <1>3 DEF c

----------------------------------------------------------------------------
(* The poll loop.                                                          *)

(* The loop's state.                                                       *)
Loops == [mem : [Slots -> Bytes], head : Slots, line : Seq(Bytes)]

(* The bytes of a ring, oldest first.                                      *)
Held(mem, head, tail) ==
  [i \in 1 .. Count(head, tail) |-> mem[Advance(tail, i - 1)]]

LEMMA HeldIsSeq ==
  ASSUME NEW mem \in [Slots -> Bytes], NEW h \in Slots, NEW t \in Slots
  PROVE  /\ Held(mem, h, t) \in Seq(Bytes)
         /\ Len(Held(mem, h, t)) = Count(h, t)
         /\ \A i \in 1 .. Count(h, t) :
              Held(mem, h, t)[i] = mem[Advance(t, i - 1)]
<1>0. Count(h, t) \in Slots
  BY CountIs
<1>1. Count(h, t) \in Nat /\ Count(h, t) <= RingSize - 1
  BY <1>0, UartAssumption DEF Slots
<1>2. \A i \in 1 .. Count(h, t) : Advance(t, i - 1) \in Slots
  <2> SUFFICES ASSUME NEW i \in 1 .. Count(h, t) PROVE Advance(t, i - 1) \in Slots
    OBVIOUS
  <2>1. i - 1 \in 0 .. RingSize
    BY <1>1, UartAssumption
  <2> QED BY <2>1, AdvanceIs
<1>3. Held(mem, h, t) \in [1 .. Count(h, t) -> Bytes]
  BY <1>2 DEF Held
<1>4. Held(mem, h, t) \in Seq(Bytes)
  BY <1>1, <1>3, SeqDef
<1> QED BY <1>1, <1>3, <1>4, LenProperties DEF Held

(* One read keeps the types.                                               *)
LEMMA ReadOnceType ==
  ASSUME NEW s \in Loops, uart_rx_tail \in Slots
  PROVE  ReadOnce(s) \in Loops
<1> DEFINE n == Chunk(s.head, uart_rx_tail, Len(s.line))
<1>1. s.head \in Slots /\ s.line \in Seq(Bytes) /\ s.mem \in [Slots -> Bytes]
  BY DEF Loops
<1>2. Len(s.line) \in Nat /\ \A i \in 1 .. Len(s.line) : s.line[i] \in Bytes
  BY <1>1, LenProperties, ElementOfSeq
<1>3. /\ n \in 0 .. Len(s.line)
      /\ Count(s.head, uart_rx_tail) + n <= RingSize - 1
  BY <1>1, <1>2, ChunkIs
<1>4. Advance(s.head, n) \in Slots
  BY <1>1, <1>2, <1>3, CountAfterAdvance
<1>5. SubSeq(s.line, n + 1, Len(s.line)) \in Seq(Bytes)
  <2> HIDE DEF n
  <2>1. n + 1 \in Int /\ \A i \in n + 1 .. Len(s.line) : s.line[i] \in Bytes
    BY <1>2, <1>3
  <2> QED BY <1>2, <2>1, SubSeqProperties
<1>6. [i \in Slots |-> IF i \in s.head .. s.head + n - 1
                       THEN s.line[i - s.head + 1] ELSE s.mem[i]]
        \in [Slots -> Bytes]
  <2> HIDE DEF n
  <2> SUFFICES ASSUME NEW i \in Slots
               PROVE (IF i \in s.head .. s.head + n - 1
                      THEN s.line[i - s.head + 1] ELSE s.mem[i]) \in Bytes
    OBVIOUS
  <2>1. CASE i \in s.head .. s.head + n - 1
    <3>1. i - s.head + 1 \in 1 .. Len(s.line)
      BY <2>1, <1>1, <1>2, <1>3 DEF Slots
    <3> QED BY <2>1, <3>1, <1>2
  <2>2. CASE i \notin s.head .. s.head + n - 1
    BY <2>2, <1>1
  <2> QED BY <2>1, <2>2
<1> QED BY <1>4, <1>5, <1>6 DEF ReadOnce, Loops

(* One read appends a prefix of the line to the ring.                      *)
LEMMA ReadOnceAppends ==
  ASSUME NEW s \in Loops, uart_rx_tail \in Slots
  PROVE  LET n == Chunk(s.head, uart_rx_tail, Len(s.line))
             r == ReadOnce(s)
         IN  /\ Held(r.mem, r.head, uart_rx_tail)
                  = Held(s.mem, s.head, uart_rx_tail) \o SubSeq(s.line, 1, n)
             /\ r.line = SubSeq(s.line, n + 1, Len(s.line))
             /\ r.head = Advance(s.head, n)
<1> DEFINE n == Chunk(s.head, uart_rx_tail, Len(s.line))
           r == ReadOnce(s)
           c == Count(s.head, uart_rx_tail)
           old == Held(s.mem, s.head, uart_rx_tail)
           new == Held(r.mem, r.head, uart_rx_tail)
<1>1. s.head \in Slots /\ s.line \in Seq(Bytes) /\ s.mem \in [Slots -> Bytes]
  BY DEF Loops
<1>2. Len(s.line) \in Nat /\ \A i \in 1 .. Len(s.line) : s.line[i] \in Bytes
  BY <1>1, LenProperties, ElementOfSeq
<1>3. /\ n \in 0 .. Len(s.line)
      /\ c + n <= RingSize - 1
      /\ s.head + n <= RingSize
  BY <1>1, <1>2, ChunkIs
<1>4. /\ r.line = SubSeq(s.line, n + 1, Len(s.line))
      /\ r.head = Advance(s.head, n)
      /\ \A i \in Slots : r.mem[i] = IF i \in s.head .. s.head + n - 1
                                     THEN s.line[i - s.head + 1] ELSE s.mem[i]
  BY DEF ReadOnce
<1>5. r \in Loops
  BY ReadOnceType
<1>6. r.head \in Slots /\ r.mem \in [Slots -> Bytes]
  BY <1>5 DEF Loops
<1>7. Count(r.head, uart_rx_tail) = c + n
  BY <1>1, <1>3, <1>4, CountAfterAdvance
<1>8. /\ old \in Seq(Bytes) /\ Len(old) = c
      /\ \A i \in 1 .. c : old[i] = s.mem[Advance(uart_rx_tail, i - 1)]
  BY <1>1, HeldIsSeq
<1>9. /\ new \in Seq(Bytes) /\ Len(new) = c + n
      /\ \A i \in 1 .. c + n : new[i] = r.mem[Advance(uart_rx_tail, i - 1)]
  BY <1>6, <1>7, HeldIsSeq
<1>10. c \in 0 .. RingSize - 1
  BY <1>1, CountIs DEF Slots
<1>11. /\ SubSeq(s.line, 1, n) \in Seq(Bytes)
       /\ Len(SubSeq(s.line, 1, n)) = n
       /\ \A i \in 1 .. n : SubSeq(s.line, 1, n)[i] = s.line[i]
  <2> HIDE DEF n
  <2>1. n \in Int /\ \A i \in 1 .. n : s.line[i] \in Bytes
    BY <1>2, <1>3
  <2> QED BY <1>2, <1>3, <2>1, SubSeqProperties
<1>12. \A i \in 1 .. c + n :
          new[i] = IF i <= c THEN old[i] ELSE SubSeq(s.line, 1, n)[i - c]
  <2> SUFFICES ASSUME NEW i \in 1 .. c + n
               PROVE new[i] = IF i <= c THEN old[i] ELSE SubSeq(s.line, 1, n)[i - c]
    OBVIOUS
  <2> DEFINE at == Advance(uart_rx_tail, i - 1)
  <2>1. i - 1 \in 0 .. RingSize
    BY <1>3, <1>10, UartAssumption
  <2>2. /\ at \in Slots
        /\ at = IF uart_rx_tail + (i - 1) < RingSize THEN uart_rx_tail + (i - 1)
                ELSE uart_rx_tail + (i - 1) - RingSize
    BY <2>1, AdvanceIs
  <2>3. c = IF uart_rx_tail <= s.head THEN s.head - uart_rx_tail
            ELSE s.head - uart_rx_tail + RingSize
    BY <1>1, CountIs
  <2>4. new[i] = IF at \in s.head .. s.head + n - 1
                 THEN s.line[at - s.head + 1] ELSE s.mem[at]
    BY <1>4, <1>9, <2>2
  <2> HIDE DEF at, new, old, n, c, r
  <2>0. /\ uart_rx_tail \in 0 .. RingSize - 1 /\ s.head \in 0 .. RingSize - 1
        /\ RingSize \in Nat /\ n \in Nat /\ i \in Nat \ {0} /\ c \in Nat
        /\ at \in Int /\ i <= c + n
    BY <1>1, <1>2, <1>3, <1>10, <2>2, UartAssumption DEF Slots
  <2>7. /\ i <= c => at \notin s.head .. s.head + n - 1
        /\ c < i => at = s.head + (i - 1 - c)
    <3>1. CASE uart_rx_tail <= s.head
      <4>1. c = s.head - uart_rx_tail
        BY <3>1, <2>3
      <4>2. uart_rx_tail + (i - 1) < RingSize
        BY <4>1, <2>0, <1>3
      <4>3. at = uart_rx_tail + (i - 1)
        BY <4>2, <2>2
      <4>4. at = s.head + (i - 1 - c)
        BY <4>1, <4>3, <2>0
      <4>5. i <= c => at < s.head
        BY <4>4, <2>0
      <4> QED BY <4>4, <4>5, <2>0
    <3>2. CASE s.head < uart_rx_tail
      <4>1. c = s.head - uart_rx_tail + RingSize
        BY <3>2, <2>0, <2>3
      <4>2. CASE uart_rx_tail + (i - 1) < RingSize
        <5>1. at = uart_rx_tail + (i - 1)
          BY <4>2, <2>2
        <5> QED BY <4>1, <4>2, <5>1, <3>2, <2>0, <1>3
      <4>3. CASE RingSize <= uart_rx_tail + (i - 1)
        <5>1. at = uart_rx_tail + (i - 1) - RingSize
          BY <4>3, <2>0, <2>2
        <5>2. at = s.head + (i - 1 - c)
          BY <4>1, <5>1, <2>0
        <5>3. i <= c => at < s.head
          BY <5>2, <2>0
        <5> QED BY <5>2, <5>3, <2>0
      <4> QED BY <4>2, <4>3, <2>0
    <3> QED BY <3>1, <3>2, <2>0
  <2>5. CASE i <= c
    <3>1. at \notin s.head .. s.head + n - 1
      BY <2>5, <2>7
    <3>2. old[i] = s.mem[at]
      BY <2>5, <1>8, <1>10 DEF at
    <3> QED BY <2>5, <2>4, <3>1, <3>2
  <2>6. CASE c < i
    <3>1. at = s.head + (i - 1 - c)
      BY <2>6, <2>7
    <3>2. at \in s.head .. s.head + n - 1 /\ at - s.head + 1 = i - c
      BY <2>6, <3>1, <1>1, <1>2, <1>3, <1>10, UartAssumption DEF Slots
    <3>3. i - c \in 1 .. n
      BY <2>6, <1>2, <1>3, <1>10
    <3> QED BY <2>6, <2>4, <3>2, <3>3, <1>11, <1>10
  <2> QED BY <2>5, <2>6, <1>2, <1>3, <1>10
<1>13. new = old \o SubSeq(s.line, 1, n)
  <2> HIDE DEF new, old, n, c, r
  <2> DEFINE piece == SubSeq(s.line, 1, n)
  <2>1. /\ old \o piece \in Seq(Bytes) /\ Len(old \o piece) = c + n
        /\ \A i \in 1 .. c + n : (old \o piece)[i] =
               IF i <= c THEN old[i] ELSE piece[i - c]
    BY <1>8, <1>11, ConcatProperties
  <2> QED BY <2>1, <1>9, <1>12, SeqEqual
<1> QED BY <1>4, <1>13
(* All that fits is in the ring after two reads.                           *)
LEMMA TwoReads ==
  ASSUME NEW s \in Loops, uart_rx_tail \in Slots
  PROVE  LET n1 == Chunk(s.head, uart_rx_tail, Len(s.line))
             r == ReadOnce(s)
             n2 == Chunk(r.head, uart_rx_tail, Len(r.line))
             c == Count(s.head, uart_rx_tail)
         IN  /\ n1 \in Nat /\ n2 \in Nat
             /\ Len(r.line) = Len(s.line) - n1
             /\ Count(r.head, uart_rx_tail) = c + n1
             /\ n1 + n2 = IF Len(s.line) <= RingSize - 1 - c THEN Len(s.line)
                          ELSE RingSize - 1 - c
<1> DEFINE n1 == Chunk(s.head, uart_rx_tail, Len(s.line))
           r == ReadOnce(s)
           n2 == Chunk(r.head, uart_rx_tail, Len(r.line))
           c == Count(s.head, uart_rx_tail)
<1>1. s.head \in Slots /\ s.line \in Seq(Bytes) /\ Len(s.line) \in Nat
  BY LenProperties DEF Loops
<1>2. r.head \in Slots /\ r.line \in Seq(Bytes) /\ Len(r.line) \in Nat
  BY ReadOnceType, LenProperties DEF Loops
<1>3. /\ n1 \in 0 .. Len(s.line) /\ c + n1 <= RingSize - 1
      /\ s.head + n1 <= RingSize
      /\ n1 = Len(s.line) \/ c + n1 = RingSize - 1 \/ s.head + n1 = RingSize
  BY <1>1, ChunkIs
<1>4. r.line = SubSeq(s.line, n1 + 1, Len(s.line)) /\ r.head = Advance(s.head, n1)
  BY DEF ReadOnce
<1>5. Len(r.line) = Len(s.line) - n1
  <2> HIDE DEF n1
  <2>1. n1 + 1 \in Int /\ \A i \in n1 + 1 .. Len(s.line) : s.line[i] \in Bytes
    BY <1>1, <1>3, ElementOfSeq
  <2>2. Len(SubSeq(s.line, n1 + 1, Len(s.line)))
          = IF n1 + 1 <= Len(s.line) THEN Len(s.line) - (n1 + 1) + 1 ELSE 0
    BY <1>1, <2>1, SubSeqProperties
  <2> QED BY <2>2, <1>1, <1>3, <1>4
<1>6. Count(r.head, uart_rx_tail) = c + n1
  BY <1>1, <1>3, <1>4, CountAfterAdvance
<1>7. /\ n2 \in 0 .. Len(r.line) /\ (c + n1) + n2 <= RingSize - 1
      /\ n2 = Len(r.line) \/ (c + n1) + n2 = RingSize - 1 \/ r.head + n2 = RingSize
  BY <1>2, <1>6, ChunkIs
<1>9. c \in 0 .. RingSize - 1 /\ RingSize \in Nat /\ s.head \in Nat /\ r.head \in Nat
  <2>1. c \in Slots
    BY <1>1, CountIs
  <2> QED BY <2>1, <1>1, <1>2, UartAssumption DEF Slots
<1>8. s.head + n1 = RingSize => r.head = 0
  <2>1. n1 \in 0 .. RingSize
    BY <1>1, <1>3, <1>9
  <2>2. r.head = IF s.head + n1 < RingSize THEN s.head + n1
                 ELSE s.head + n1 - RingSize
    BY <1>1, <1>4, <2>1, AdvanceIs
  <2> HIDE DEF n1, r
  <2> QED BY <2>1, <2>2, <1>9
<1> HIDE DEF n1, n2, c, r
<1>10. n1 + n2 = IF Len(s.line) <= RingSize - 1 - c THEN Len(s.line)
                 ELSE RingSize - 1 - c
  <2>1. CASE n1 = Len(s.line) \/ c + n1 = RingSize - 1
    BY <2>1, <1>1, <1>2, <1>3, <1>5, <1>7, <1>9
  <2>2. CASE s.head + n1 = RingSize
    BY <2>2, <1>1, <1>2, <1>3, <1>5, <1>7, <1>8, <1>9
  <2> QED BY <2>1, <2>2, <1>3
<1> QED BY <1>1, <1>2, <1>3, <1>5, <1>6, <1>7, <1>10 DEF n1, n2, c, r

(* The third read() of the poll loop returns nothing, so that Filled is    *)
(* the loop's result.                                                      *)
THEOREM ThirdReadIsEmpty ==
  ASSUME UartTypeOK
  PROVE  Chunk(Filled.head, uart_rx_tail, Len(Filled.line)) = 0
<1> DEFINE r1 == ReadOnce(Ring)
           r2 == ReadOnce(r1)
           n1 == Chunk(Ring.head, uart_rx_tail, Len(Ring.line))
           n2 == Chunk(r1.head, uart_rx_tail, Len(r1.line))
           c == Count(Ring.head, uart_rx_tail)
<1>1. Ring \in Loops /\ uart_rx_tail \in Slots
  BY DEF UartTypeOK, Ring, Loops
<1>2. r1 \in Loops /\ r2 \in Loops
  BY <1>1, ReadOnceType
<1>3. /\ n1 \in Nat /\ n2 \in Nat /\ Len(r1.line) = Len(Ring.line) - n1
      /\ Count(r1.head, uart_rx_tail) = c + n1
      /\ n1 + n2 = IF Len(Ring.line) <= RingSize - 1 - c THEN Len(Ring.line)
                   ELSE RingSize - 1 - c
  BY <1>1, TwoReads
<1>4. Len(r2.line) = Len(r1.line) - n2 /\ Count(r2.head, uart_rx_tail) = c + n1 + n2
  BY <1>1, <1>2, <1>3, TwoReads
<1>5. /\ Len(Ring.line) \in Nat /\ Len(r2.line) \in Nat /\ r2.head \in Slots
      /\ c \in 0 .. RingSize - 1 /\ RingSize \in Nat
  BY <1>1, <1>2, LenProperties, CountIs, UartAssumption DEF Loops, Slots
<1>6. /\ Chunk(r2.head, uart_rx_tail, Len(r2.line)) \in 0 .. Len(r2.line)
      /\ Count(r2.head, uart_rx_tail) + Chunk(r2.head, uart_rx_tail, Len(r2.line))
           <= RingSize - 1
  BY <1>1, <1>5, ChunkIs
<1> HIDE DEF r1, r2, n1, n2, c
<1>7. Chunk(r2.head, uart_rx_tail, Len(r2.line)) = 0
  BY <1>3, <1>4, <1>5, <1>6
<1> QED BY <1>7 DEF Filled, r1, r2

----------------------------------------------------------------------------
(* Types.                                                                  *)

(* The level followers of the poll keep the bits in their registers, never *)
(* drop the source, and raise it with TXFIFO_EMPTY.                        *)
Steady(raw, src) ==
  /\ raw \subseteq UartBits /\ src \in BOOLEAN
  /\ "tx" \in raw => src

LEMMA RaiseRxSteady ==
  ASSUME NEW raw, NEW src, Steady(raw, src)
  PROVE  Steady(RaiseRx(raw, src)[1], RaiseRx(raw, src)[2])
  BY DEF RaiseRx, Steady, RxBits, UartBits

LEMMA FollowRxSteady ==
  ASSUME NEW w, NEW raw, NEW src, Steady(raw, src)
  PROVE  Steady(FollowRx(w, raw, src)[1], FollowRx(w, raw, src)[2])
<1>1. CASE Port = 0 /\ w /\ uart_ena \cap RxBits # {}
  BY <1>1, RaiseRxSteady DEF FollowRx
<1>2. CASE ~(Port = 0 /\ w /\ uart_ena \cap RxBits # {})
  BY <1>2 DEF FollowRx
<1> QED BY <1>1, <1>2

LEMMA FollowTxSteady ==
  ASSUME NEW raw, NEW src, Steady(raw, src)
  PROVE  Steady(FollowTx(raw, src)[1], FollowTx(raw, src)[2])
  BY DEF FollowTx, Steady, UartBits

(* The interrupt registers: INT_ENA is empty or has TXFIFO_EMPTY, and the  *)
(* source is up with that bit.                                             *)
UartInv ==
  /\ UartTypeOK
  /\ Steady(uart_raw, uart_source)
  /\ uart_ena # {} => "tx" \in uart_ena

(* The two loop results a poll can have.                                   *)
LEMMA PollType ==
  ASSUME UartTypeOK
  PROVE  Ring \in Loops /\ Filled \in Loops
<1>1. Ring \in Loops /\ uart_rx_tail \in Slots
  BY DEF UartTypeOK, Ring, Loops
<1> QED BY <1>1, ReadOnceType DEF Filled

LEMMA PollInv ==
  ASSUME UartInv, NEW due \in BOOLEAN, UartPoll(due)
  PROVE  UartInv'
<1> DEFINE after == IF due /\ Port = 0 THEN Filled ELSE Ring
           more  == Count(after.head, uart_rx_tail) # Count(uart_rx_head, uart_rx_tail)
           edge  == IF more THEN RaiseRx(uart_raw, uart_source)
                            ELSE <<uart_raw, uart_source>>
           level == FollowRx(after.head # uart_rx_tail, edge[1], edge[2])
           final == FollowTx(level[1], level[2])
<1>1. after \in Loops
  BY PollType DEF UartInv
<1>2. Steady(edge[1], edge[2])
  BY RaiseRxSteady DEF UartInv
<1>3. Steady(level[1], level[2])
  BY <1>2, FollowRxSteady
<1>4. Steady(final[1], final[2])
  BY <1>3, FollowTxSteady
<1>5. /\ uart_rx' = after.mem /\ uart_rx_head' = after.head /\ uart_line' = after.line
      /\ uart_raw' = final[1] /\ uart_source' = final[2]
      /\ UNCHANGED <<uart_rx_tail, uart_ena, uart_loopback>>
  BY DEF UartPoll
<1>6. Steady(uart_raw, uart_source)'
  BY <1>4, <1>5 DEF Steady
<1> HIDE DEF after, final
<1>7. UartTypeOK'
  BY <1>1, <1>5, <1>6 DEF UartInv, UartTypeOK, Loops, Steady, Slots
<1> QED BY <1>5, <1>6, <1>7 DEF UartInv

(* A byte looped back.                                                     *)
LEMMA WriteInv ==
  ASSUME UartInv, NEW b \in Bytes, UartWrite(b)
  PROVE  UartInv'
<1>1. CASE uart_loopback /\ Count(uart_rx_head, uart_rx_tail) < RingSize - 1
  <2>1. /\ uart_rx' = [uart_rx EXCEPT ![uart_rx_head] = b]
        /\ uart_rx_head' = Advance(uart_rx_head, 1)
        /\ uart_raw' = RaiseRx(uart_raw, uart_source)[1]
        /\ uart_source' = RaiseRx(uart_raw, uart_source)[2]
        /\ UNCHANGED <<uart_rx_tail, uart_ena, uart_line, uart_loopback>>
    BY <1>1 DEF UartWrite, Transmit
  <2>2. Advance(uart_rx_head, 1) \in Slots
    BY AdvanceIs, UartAssumption DEF UartInv, UartTypeOK
  <2>3. Steady(uart_raw, uart_source)'
    BY <2>1, RaiseRxSteady DEF UartInv, Steady
  <2>4. UartTypeOK'
    BY <2>1, <2>2, <2>3 DEF UartInv, UartTypeOK, Steady, Slots
  <2> QED BY <2>1, <2>3, <2>4 DEF UartInv
<1>2. CASE ~(uart_loopback /\ Count(uart_rx_head, uart_rx_tail) < RingSize - 1)
  BY <1>2 DEF UartWrite, Transmit, ringVars, uartIntVars, UartInv, UartTypeOK,
     Steady, Slots
<1> QED BY <1>1, <1>2

(* Every step keeps UartInv.                                               *)
LEMMA UartStepInv ==
  ASSUME UartInv, [UartNext]_uartVars
  PROVE  UartInv'
<1> USE DEF UartInv, UartTypeOK, Steady, Slots, ringVars, uartIntVars
<1>1. CASE UNCHANGED uartVars
  BY <1>1 DEF uartVars
<1>2. ASSUME NEW b \in Bytes, HostSends(b) PROVE UartInv'
  BY <1>2 DEF HostSends
<1>3. ASSUME NEW b \in Bytes, UartWrite(b) PROVE UartInv'
  BY <1>3, WriteInv
<1>4. CASE UartRead
  <2>1. Advance(uart_rx_tail, 1) \in Slots
    BY AdvanceIs, UartAssumption
  <2> QED BY <1>4, <2>1 DEF UartRead
<1>5. ASSUME NEW bits \in ClrArgs, UartIntClr(bits) PROVE UartInv'
  BY <1>5, UartAssumption DEF UartIntClr
<1>6. ASSUME NEW bits \in EnaArgs, UartIntEna(bits) PROVE UartInv'
  BY <1>6, UartAssumption DEF UartIntEna, UartBits
<1>7. ASSUME NEW rst \in BOOLEAN, NEW loop \in BOOLEAN, UartConf0(rst, loop)
      PROVE UartInv'
  BY <1>7, UartAssumption DEF UartConf0
<1>8. ASSUME NEW due \in BOOLEAN, UartPoll(due) PROVE UartInv'
  BY <1>8, PollInv
<1> QED BY <1>1, <1>2, <1>3, <1>4, <1>5, <1>6, <1>7, <1>8 DEF UartNext, UartGuest

(* UartInv is an invariant.                                                *)
LEMMA UartInvariant == UartSpec => []UartInv
<1>1. UartInit => UartInv
  BY UartAssumption, EmptySeq DEF UartInit, UartInv, UartTypeOK, Steady, Slots
<1> QED BY <1>1, UartStepInv, PTL DEF UartSpec

(* Ring indices stay inside the array and the interrupt registers hold     *)
(* only the port's bits, for every ring size (uart_rx_poll, loopback, the  *)
(* FIFO register, CONF0).                                                  *)
THEOREM UartTypeCorrect == UartSpec => []UartTypeOK
<1>1. UartInv => UartTypeOK
  BY DEF UartInv
<1> QED BY <1>1, UartInvariant, PTL

(* After every poll of port 0 a driver with RX enabled and bytes waiting   *)
(* is interrupted and sees an RX bit (the level follower of periodic).     *)
THEOREM UartStaysAwake == UartSpec => UartAwake
<1>1. ASSUME UartInv, NEW due \in BOOLEAN, UartPoll(due) PROVE RxSeen'
  <2> DEFINE after == IF due /\ Port = 0 THEN Filled ELSE Ring
             more  == Count(after.head, uart_rx_tail) # Count(uart_rx_head, uart_rx_tail)
             edge  == IF more THEN RaiseRx(uart_raw, uart_source)
                              ELSE <<uart_raw, uart_source>>
             level == FollowRx(after.head # uart_rx_tail, edge[1], edge[2])
             final == FollowTx(level[1], level[2])
  <2>1. /\ uart_rx_head' = after.head /\ uart_rx_tail' = uart_rx_tail
        /\ uart_ena' = uart_ena
        /\ uart_raw' = final[1] /\ uart_source' = final[2]
    BY <1>1 DEF UartPoll
  <2>2. Steady(edge[1], edge[2])
    BY <1>1, RaiseRxSteady DEF UartInv
  <2>3. SUFFICES ASSUME Port = 0, after.head # uart_rx_tail, uart_ena \cap RxBits # {}
                 PROVE  final[2] /\ final[1] \cap RxBits # {}
    BY <2>1 DEF RxSeen
  <2>4. "tx" \in uart_ena
    BY <1>1, <2>3 DEF UartInv
  <2> HIDE DEF after, edge
  <2>5. level[1] \cap RxBits # {} /\ Steady(level[1], level[2])
    <3>1. Steady(level[1], level[2])
      BY <2>2, FollowRxSteady
    <3>2. level[1] \cap RxBits # {}
      BY <2>3 DEF FollowRx, RaiseRx, RxBits
    <3> QED BY <3>1, <3>2
  <2> HIDE DEF level
  <2> QED BY <2>4, <2>5 DEF FollowTx, Steady, RxBits
<1>2. UartInv /\ [UartNext]_uartVars =>
        [(\E due \in BOOLEAN : UartPoll(due)) => RxSeen']_uartVars
  BY <1>1
<1> QED BY <1>2, UartInvariant, PTL DEF UartSpec, UartAwake

----------------------------------------------------------------------------
(* Refinement.                                                             *)

LEMMA ContentsHeld == RingContents = Held(uart_rx, uart_rx_head, uart_rx_tail)
  BY DEF RingContents, Held

(* Two reads in a row move one prefix of the line, as long as what fits.   *)
LEMMA FilledReceives ==
  ASSUME UartTypeOK
  PROVE  LET c == Count(uart_rx_head, uart_rx_tail)
             fit == IF Len(uart_line) <= RingSize - 1 - c THEN Len(uart_line)
                    ELSE RingSize - 1 - c
         IN  /\ Held(Filled.mem, Filled.head, uart_rx_tail)
                  = RingContents \o SubSeq(uart_line, 1, fit)
             /\ Filled.line = SubSeq(uart_line, fit + 1, Len(uart_line))
<1> DEFINE r1 == ReadOnce(Ring)
           n1 == Chunk(uart_rx_head, uart_rx_tail, Len(uart_line))
           n2 == Chunk(r1.head, uart_rx_tail, Len(r1.line))
           c == Count(uart_rx_head, uart_rx_tail)
           fit == IF Len(uart_line) <= RingSize - 1 - c THEN Len(uart_line)
                  ELSE RingSize - 1 - c
           l == uart_line
           q == RingContents
           p1 == SubSeq(l, 1, n1)
           p2 == SubSeq(r1.line, 1, n2)
<1>1. /\ Ring \in Loops /\ uart_rx_tail \in Slots
      /\ Ring.mem = uart_rx /\ Ring.head = uart_rx_head /\ Ring.line = l
  BY DEF UartTypeOK, Ring, Loops
<1>2. r1 \in Loops
  BY <1>1, ReadOnceType
<1>3. /\ Held(r1.mem, r1.head, uart_rx_tail) = q \o p1
      /\ r1.line = SubSeq(l, n1 + 1, Len(l))
  BY <1>1, ReadOnceAppends, ContentsHeld
<1>4. /\ Held(Filled.mem, Filled.head, uart_rx_tail) = (q \o p1) \o p2
      /\ Filled.line = SubSeq(r1.line, n2 + 1, Len(r1.line))
  BY <1>1, <1>2, <1>3, ReadOnceAppends DEF Filled
<1>5. /\ n1 \in Nat /\ n2 \in Nat /\ Len(r1.line) = Len(l) - n1
      /\ n1 + n2 = fit
  BY <1>1, TwoReads
<1>6. /\ l \in Seq(Bytes) /\ Len(l) \in Nat /\ r1.line \in Seq(Bytes)
      /\ q \in Seq(Bytes) /\ RingSize \in Nat
      /\ n2 \in 0 .. Len(r1.line) /\ Len(r1.line) \in Nat
  <2>1. uart_line \in Seq(Bytes) /\ r1.line \in Seq(Bytes) /\ r1.head \in Slots
    BY <1>2 DEF UartTypeOK, Loops
  <2>2. Len(uart_line) \in Nat /\ Len(r1.line) \in Nat
    BY <2>1, LenProperties
  <2>3. q \in Seq(Bytes)
    BY HeldIsSeq, ContentsHeld DEF UartTypeOK
  <2>4. n2 \in 0 .. Len(r1.line)
    BY <1>1, <2>1, <2>2, ChunkIs
  <2> QED BY <2>1, <2>2, <2>3, <2>4, UartAssumption
<1> HIDE DEF r1, n1, n2, c, fit, q
<1>7. fit \in 0 .. Len(l) /\ n1 \in 0 .. fit /\ Len(l) - n1 \in Nat
  BY <1>5, <1>6
<1>8. \A i \in 1 .. Len(l) : l[i] \in Bytes
  BY <1>6, ElementOfSeq
<1>9. /\ \A i \in 1 .. Len(l) - n1 : r1.line[i] = l[n1 + i]
  <2>1. \A i \in n1 + 1 .. Len(l) : l[i] \in Bytes
    BY <1>7, <1>8
  <2>2. \A i \in 1 .. Len(l) - (n1 + 1) + 1 :
           SubSeq(l, n1 + 1, Len(l))[i] = l[(n1 + 1) + i - 1]
    BY <1>5, <1>6, <2>1, SubSeqProperties
  <2> QED BY <1>3, <1>5, <1>6, <2>2
<1>10. /\ p1 \in Seq(Bytes) /\ Len(p1) = n1 /\ \A i \in 1 .. n1 : p1[i] = l[i]
  <2>1. \A i \in 1 .. n1 : l[i] \in Bytes
    BY <1>7, <1>8
  <2>2. /\ p1 \in Seq(Bytes) /\ Len(p1) = IF 1 <= n1 THEN n1 - 1 + 1 ELSE 0
        /\ \A i \in 1 .. n1 - 1 + 1 : p1[i] = l[1 + i - 1]
    BY <1>5, <2>1, SubSeqProperties
  <2> HIDE DEF p1
  <2> QED BY <1>5, <2>2
<1>11. /\ p2 \in Seq(Bytes) /\ Len(p2) = n2
       /\ \A i \in 1 .. n2 : p2[i] = l[n1 + i]
  <2>1. \A i \in 1 .. n2 : r1.line[i] \in Bytes
    BY <1>6, ElementOfSeq
  <2>2. /\ p2 \in Seq(Bytes) /\ Len(p2) = IF 1 <= n2 THEN n2 - 1 + 1 ELSE 0
        /\ \A i \in 1 .. n2 - 1 + 1 : p2[i] = r1.line[1 + i - 1]
    BY <1>5, <2>1, SubSeqProperties
  <2> HIDE DEF p2
  <2> QED BY <1>5, <1>6, <1>9, <2>2
<1>12. p1 \o p2 = SubSeq(l, 1, fit)
  <2> DEFINE p == SubSeq(l, 1, fit)
  <2>1. \A i \in 1 .. fit : l[i] \in Bytes
    BY <1>6, <1>7, <1>8
  <2>2. /\ p \in Seq(Bytes) /\ Len(p) = IF 1 <= fit THEN fit - 1 + 1 ELSE 0
        /\ \A i \in 1 .. fit - 1 + 1 : p[i] = l[1 + i - 1]
    BY <1>6, <1>7, <2>1, SubSeqProperties
  <2>3. /\ p1 \o p2 \in Seq(Bytes) /\ Len(p1 \o p2) = n1 + n2
        /\ \A i \in 1 .. n1 + n2 : (p1 \o p2)[i] =
               IF i <= n1 THEN p1[i] ELSE p2[i - n1]
    BY <1>10, <1>11, ConcatProperties
  <2> HIDE DEF p, p1, p2
  <2>4. \A i \in 1 .. n1 + n2 : (p1 \o p2)[i] = p[i]
    <3> SUFFICES ASSUME NEW i \in 1 .. n1 + n2 PROVE (p1 \o p2)[i] = p[i]
      OBVIOUS
    <3>1. p[i] = l[i]
      <4>1. i \in 1 .. fit - 1 + 1 /\ 1 + i - 1 = i
        BY <1>5
      <4> QED BY <4>1, <2>2
    <3>2. CASE i <= n1
      BY <3>1, <3>2, <1>5, <1>10, <2>3
    <3>3. CASE n1 < i
      <4>1. i - n1 \in 1 .. n2 /\ n1 + (i - n1) = i
        BY <3>3, <1>5
      <4>2. p2[i - n1] = l[i]
        BY <4>1, <1>11
      <4>3. (p1 \o p2)[i] = p2[i - n1]
        BY <3>3, <1>5, <2>3
      <4> QED BY <3>1, <4>2, <4>3
    <3>4. i <= n1 \/ n1 < i
      BY <1>5
    <3> QED BY <3>2, <3>3, <3>4
  <2>5. Len(p) = n1 + n2
    BY <1>5, <2>2
  <2>6. p1 \o p2 = p
    BY <2>2, <2>3, <2>4, <2>5, SeqEqual
  <2> QED BY <2>6 DEF p
<1>13. (q \o p1) \o p2 = q \o (p1 \o p2)
  <2> HIDE DEF p1, p2
  <2>1. q \in Seq(Bytes) /\ p1 \in Seq(Bytes) /\ p2 \in Seq(Bytes)
    BY <1>6, <1>10, <1>11
  <2>2. \A S : \A x, y, z \in Seq(S) : (x \o y) \o z = x \o (y \o z)
    BY ConcatAssociative
  <2> QED BY <2>1, <2>2
<1>14. SubSeq(r1.line, n2 + 1, Len(r1.line)) = SubSeq(l, fit + 1, Len(l))
  <2> DEFINE a == SubSeq(r1.line, n2 + 1, Len(r1.line))
             b == SubSeq(l, fit + 1, Len(l))
  <2>1. \A i \in n2 + 1 .. Len(r1.line) : r1.line[i] \in Bytes
    BY <1>6, ElementOfSeq
  <2>2. \A i \in fit + 1 .. Len(l) : l[i] \in Bytes
    BY <1>6, <1>7, <1>8
  <2>3. /\ a \in Seq(Bytes)
        /\ Len(a) = IF n2 + 1 <= Len(r1.line) THEN Len(r1.line) - (n2 + 1) + 1 ELSE 0
        /\ \A i \in 1 .. Len(r1.line) - (n2 + 1) + 1 : a[i] = r1.line[(n2 + 1) + i - 1]
    BY <1>5, <1>6, <2>1, SubSeqProperties
  <2>4. /\ b \in Seq(Bytes)
        /\ Len(b) = IF fit + 1 <= Len(l) THEN Len(l) - (fit + 1) + 1 ELSE 0
        /\ \A i \in 1 .. Len(l) - (fit + 1) + 1 : b[i] = l[(fit + 1) + i - 1]
    BY <1>6, <1>7, <2>2, SubSeqProperties
  <2> HIDE DEF a, b
  <2>5. Len(a) = Len(b) /\ Len(b) = Len(l) - fit
    BY <1>5, <1>6, <1>7, <2>3, <2>4
  <2>6. \A i \in 1 .. Len(b) : a[i] = b[i]
    <3> SUFFICES ASSUME NEW i \in 1 .. Len(b) PROVE a[i] = b[i]
      OBVIOUS
    <3>1. i \in Nat \ {0} /\ i <= Len(l) - fit
      BY <1>6, <1>7, <2>5
    <3>2. /\ i \in 1 .. Len(r1.line) - (n2 + 1) + 1 /\ i \in 1 .. Len(l) - (fit + 1) + 1
          /\ (n2 + 1) + i - 1 = n2 + i /\ (fit + 1) + i - 1 = fit + i
          /\ n2 + i \in 1 .. Len(l) - n1 /\ n1 + (n2 + i) = fit + i
      BY <3>1, <1>5, <1>6, <1>7
    <3>3. a[i] = r1.line[n2 + i] /\ b[i] = l[fit + i]
      BY <3>2, <2>3, <2>4
    <3> QED BY <3>2, <3>3, <1>9
  <2>7. a = b
    BY <2>3, <2>4, <2>5, <2>6, SeqEqual
  <2> QED BY <2>7 DEF a, b
<1> QED BY <1>4, <1>12, <1>13, <1>14 DEF c, fit, q

(* The length of the queue.                                                *)
LEMMA ContentsLen ==
  ASSUME UartTypeOK
  PROVE  /\ RingContents \in Seq(Bytes)
         /\ Len(RingContents) = Count(uart_rx_head, uart_rx_tail)
         /\ \A i \in 1 .. Count(uart_rx_head, uart_rx_tail) :
              RingContents[i] = uart_rx[Advance(uart_rx_tail, i - 1)]
  BY ContentsHeld, HeldIsSeq DEF UartTypeOK

(* A poll receives, or leaves ring and line alone.                         *)
LEMMA PollRefines ==
  ASSUME UartTypeOK, NEW due \in BOOLEAN, UartPoll(due)
  PROVE  Fifo!Receive \/ (RingContents' = RingContents /\ uart_line' = uart_line)
<1>0. RingContents' = Held(uart_rx', uart_rx_head', uart_rx_tail')
  BY DEF RingContents, Held, Count, Advance
<1>1. CASE due /\ Port = 0
  <2>1. /\ uart_rx' = Filled.mem /\ uart_rx_head' = Filled.head
        /\ uart_line' = Filled.line /\ uart_rx_tail' = uart_rx_tail
    BY <1>1 DEF UartPoll
  <2> QED BY <1>0, <2>1, FilledReceives, ContentsLen DEF Fifo!Receive, Fifo!Fit
<1>2. CASE ~(due /\ Port = 0)
  <2>1. /\ uart_rx' = uart_rx /\ uart_rx_head' = uart_rx_head
        /\ uart_line' = uart_line /\ uart_rx_tail' = uart_rx_tail
    BY <1>2 DEF UartPoll, Ring
  <2> QED BY <1>0, <2>1, ContentsHeld
<1> QED BY <1>1, <1>2

(* A looped-back byte is appended, or dropped with the ring full.          *)
LEMMA WriteRefines ==
  ASSUME UartTypeOK, NEW b \in Bytes, UartWrite(b)
  PROVE  Fifo!Loop(b) \/ (RingContents' = RingContents /\ uart_line' = uart_line)
<1> DEFINE h == uart_rx_head
           t == uart_rx_tail
           c == Count(h, t)
<1>0. RingContents' = Held(uart_rx', uart_rx_head', uart_rx_tail')
  BY DEF RingContents, Held, Count, Advance
<1>1. CASE uart_loopback /\ c < RingSize - 1
  <2>1. /\ uart_rx' = [uart_rx EXCEPT ![h] = b] /\ uart_rx_head' = Advance(h, 1)
        /\ uart_line' = uart_line /\ uart_rx_tail' = t
    BY <1>1 DEF UartWrite, Transmit
  <2>2. /\ h \in Slots /\ t \in Slots /\ uart_rx \in [Slots -> Bytes]
        /\ c \in Slots /\ c = IF t <= h THEN h - t ELSE h - t + RingSize
    BY CountIs DEF UartTypeOK
  <2>3. RingSize \in Nat /\ h \in 0 .. RingSize - 1 /\ t \in 0 .. RingSize - 1
        /\ c \in 0 .. RingSize - 1
    BY <2>2, UartAssumption DEF Slots
  <2>4. Advance(h, 1) \in Slots /\ Count(Advance(h, 1), t) = c + 1
    BY <1>1, <2>2, <2>3, CountAfterAdvance
  <2> DEFINE m == [uart_rx EXCEPT ![h] = b]
             new == Held(m, Advance(h, 1), t)
  <2>5. m \in [Slots -> Bytes]
    BY <2>2
  <2>6. /\ new \in Seq(Bytes) /\ Len(new) = c + 1
        /\ \A i \in 1 .. c + 1 : new[i] = m[Advance(t, i - 1)]
    <3> DEFINE k == Count(Advance(h, 1), t)
    <3> HIDE DEF m
    <3>1. /\ new \in Seq(Bytes) /\ Len(new) = k
          /\ \A i \in 1 .. k : new[i] = m[Advance(t, i - 1)]
      BY <2>2, <2>4, <2>5, HeldIsSeq
    <3> HIDE DEF new, c
    <3> QED BY <3>1, <2>4
  <2>7. /\ RingContents \in Seq(Bytes) /\ Len(RingContents) = c
        /\ \A i \in 1 .. c : RingContents[i] = uart_rx[Advance(t, i - 1)]
    BY ContentsLen
  <2>8. \A i \in 1 .. c + 1 : new[i] = IF i <= c THEN RingContents[i] ELSE b
    <3> SUFFICES ASSUME NEW i \in 1 .. c + 1
                 PROVE new[i] = IF i <= c THEN RingContents[i] ELSE b
      OBVIOUS
    <3> DEFINE at == Advance(t, i - 1)
    <3>1. i - 1 \in 0 .. RingSize /\ i \in Nat
      BY <2>3
    <3>2. /\ at \in Slots
          /\ at = IF t + (i - 1) < RingSize THEN t + (i - 1) ELSE t + (i - 1) - RingSize
      BY <2>2, <3>1, AdvanceIs
    <3>3. new[i] = IF at = h THEN b ELSE uart_rx[at]
      BY <2>2, <2>6, <3>2
    <3>4. i <= c => RingContents[i] = uart_rx[at]
      BY <2>3, <2>7, <3>1
    <3> HIDE DEF at, new, c
    <3>5. i <= c => at # h
      BY <2>2, <2>3, <3>1, <3>2
    <3>6. i = c + 1 => at = h
      BY <1>1, <2>2, <2>3, <3>1, <3>2
    <3> QED BY <2>3, <3>1, <3>3, <3>4, <3>5, <3>6
  <2>9. /\ Append(RingContents, b) \in Seq(Bytes)
        /\ Len(Append(RingContents, b)) = c + 1
        /\ \A i \in 1 .. c + 1 : Append(RingContents, b)[i]
                = IF i <= c THEN RingContents[i] ELSE b
    BY <2>3, <2>7, AppendProperties
  <2>10. new = Append(RingContents, b)
    <3> HIDE DEF new, c
    <3> QED BY <2>6, <2>8, <2>9, SeqEqual
  <2> QED BY <1>0, <1>1, <2>1, <2>7, <2>10 DEF Fifo!Loop
<1>2. CASE ~(uart_loopback /\ c < RingSize - 1)
  BY <1>0, <1>2, ContentsHeld DEF UartWrite, Transmit, ringVars
<1> QED BY <1>1, <1>2

(* A read of the FIFO register takes the oldest byte.                      *)
LEMMA ReadRefines ==
  ASSUME UartTypeOK, UartRead
  PROVE  Fifo!Take
<1> DEFINE h == uart_rx_head
           t == uart_rx_tail
           c == Count(h, t)
           new == Held(uart_rx, h, Advance(t, 1))
<1>0. RingContents' = Held(uart_rx', uart_rx_head', uart_rx_tail')
  BY DEF RingContents, Held, Count, Advance
<1>1. /\ uart_rx' = uart_rx /\ uart_rx_head' = h /\ uart_line' = uart_line
      /\ uart_rx_tail' = Advance(t, 1) /\ h # t
  BY DEF UartRead
<1>2. /\ h \in Slots /\ t \in Slots /\ uart_rx \in [Slots -> Bytes]
      /\ c \in Slots /\ c = IF t <= h THEN h - t ELSE h - t + RingSize
  BY CountIs DEF UartTypeOK
<1>3. /\ RingSize \in Nat /\ 1 \in 0 .. RingSize
      /\ h \in 0 .. RingSize - 1 /\ t \in 0 .. RingSize - 1 /\ c \in 1 .. RingSize - 1
  BY <1>1, <1>2, UartAssumption DEF Slots
<1>4. /\ Advance(t, 1) \in Slots
      /\ Advance(t, 1) = IF t + 1 < RingSize THEN t + 1 ELSE t + 1 - RingSize
  BY <1>2, <1>3, AdvanceIs
<1>5. Count(h, Advance(t, 1)) = c - 1
  <2>1. Count(h, Advance(t, 1)) = IF Advance(t, 1) <= h THEN h - Advance(t, 1)
                                  ELSE h - Advance(t, 1) + RingSize
    BY <1>2, <1>4, CountIs
  <2> QED BY <2>1, <1>1, <1>2, <1>3, <1>4
<1>6. /\ new \in Seq(Bytes) /\ Len(new) = c - 1
      /\ \A i \in 1 .. c - 1 : new[i] = uart_rx[Advance(Advance(t, 1), i - 1)]
  <2> DEFINE k == Count(h, Advance(t, 1))
  <2>1. /\ new \in Seq(Bytes) /\ Len(new) = k
        /\ \A i \in 1 .. k : new[i] = uart_rx[Advance(Advance(t, 1), i - 1)]
    BY <1>2, <1>4, HeldIsSeq
  <2> HIDE DEF new, c
  <2> QED BY <2>1, <1>5
<1>7. /\ RingContents \in Seq(Bytes) /\ Len(RingContents) = c
      /\ \A i \in 1 .. c : RingContents[i] = uart_rx[Advance(t, i - 1)]
  BY ContentsLen
<1>8. \A i \in 1 .. c - 1 : new[i] = RingContents[i + 1]
  <2> SUFFICES ASSUME NEW i \in 1 .. c - 1 PROVE new[i] = RingContents[i + 1]
    OBVIOUS
  <2>1. i - 1 \in 0 .. RingSize /\ i \in 0 .. RingSize /\ i + 1 \in 1 .. c
    BY <1>3
  <2>2. Advance(Advance(t, 1), i - 1)
          = IF Advance(t, 1) + (i - 1) < RingSize THEN Advance(t, 1) + (i - 1)
            ELSE Advance(t, 1) + (i - 1) - RingSize
    BY <1>4, <2>1, AdvanceIs
  <2>3. Advance(t, i) = IF t + i < RingSize THEN t + i ELSE t + i - RingSize
    BY <1>2, <2>1, AdvanceIs
  <2>4. Advance(Advance(t, 1), i - 1) = Advance(t, i)
    BY <1>3, <1>4, <2>1, <2>2, <2>3
  <2>5. RingContents[i + 1] = uart_rx[Advance(t, i)]
    <3>1. (i + 1) - 1 = i
      BY <2>1
    <3> QED BY <1>7, <2>1, <3>1
  <2> QED BY <1>6, <2>4, <2>5
<1>9. RingContents # <<>>
  BY <1>3, <1>7, EmptySeq
<1>10. /\ Tail(RingContents) \in Seq(Bytes) /\ Len(Tail(RingContents)) = c - 1
       /\ \A i \in 1 .. c - 1 : Tail(RingContents)[i] = RingContents[i + 1]
  BY <1>7, <1>9, HeadTailProperties
<1>11. new = Tail(RingContents)
  <2> HIDE DEF new, c
  <2> QED BY <1>6, <1>8, <1>10, SeqEqual
<1> QED BY <1>0, <1>1, <1>9, <1>11 DEF Fifo!Take

(* The receive path, with its wrapped reads, loopback and resets, is a     *)
(* bounded queue for every ring size: it implements ByteQueue.             *)
THEOREM RingRefinesQueue == UartSpec => RingIsQueue
<1>1. UartInit => Fifo!QueueInit
  <2> SUFFICES ASSUME UartInit PROVE RingContents = <<>> /\ uart_line = <<>>
    BY DEF Fifo!QueueInit
  <2>1. UartTypeOK
    BY UartAssumption, EmptySeq DEF UartInit, UartTypeOK, Slots
  <2>2. Count(uart_rx_head, uart_rx_tail) = 0
    BY <2>1, CountIs DEF UartInit, UartTypeOK
  <2> QED BY <2>1, <2>2, ContentsLen, EmptySeq DEF UartInit
<1>2. ASSUME UartTypeOK, [UartNext]_uartVars
      PROVE  [Fifo!QueueNext]_<<uart_line, RingContents>>
  <2>0. RingContents' = Held(uart_rx', uart_rx_head', uart_rx_tail')
    BY DEF RingContents, Held, Count, Advance
  <2>1. CASE UNCHANGED <<uart_line, ringVars>>
    BY <2>0, <2>1, ContentsHeld DEF ringVars
  <2>2. ASSUME NEW b \in Bytes, HostSends(b)
        PROVE  Fifo!QueueNext
    BY <2>0, <2>2, ContentsHeld DEF HostSends, ringVars, Fifo!QueueNext, Fifo!Send
  <2>3. ASSUME NEW b \in Bytes, UartWrite(b)
        PROVE  [Fifo!QueueNext]_<<uart_line, RingContents>>
    BY <1>2, <2>3, WriteRefines DEF Fifo!QueueNext
  <2>4. CASE UartRead
    BY <1>2, <2>4, ReadRefines DEF Fifo!QueueNext
  <2>5. ASSUME NEW rst \in BOOLEAN, NEW loop \in BOOLEAN, UartConf0(rst, loop)
        PROVE  [Fifo!QueueNext]_<<uart_line, RingContents>>
    <3>1. CASE rst
      <4>1. uart_rx_head' = 0 /\ uart_rx_tail' = 0 /\ UNCHANGED <<uart_rx, uart_line>>
        BY <2>5, <3>1 DEF UartConf0
      <4>2. 0 \in Slots
        BY UartAssumption DEF Slots
      <4>3. Len(Held(uart_rx, 0, 0)) = 0 /\ Held(uart_rx, 0, 0) \in Seq(Bytes)
        BY <1>2, <4>2, HeldIsSeq, CountIs DEF UartTypeOK
      <4>4. RingContents' = <<>>
        BY <2>0, <4>1, <4>3, EmptySeq
      <4> QED BY <4>1, <4>4 DEF Fifo!QueueNext, Fifo!Flush
    <3>2. CASE ~rst
      BY <2>1, <2>5, <3>2 DEF UartConf0, ringVars
    <3> QED BY <3>1, <3>2
  <2>6. ASSUME NEW due \in BOOLEAN, UartPoll(due)
        PROVE  [Fifo!QueueNext]_<<uart_line, RingContents>>
    BY <1>2, <2>6, PollRefines DEF Fifo!QueueNext
  <2> QED BY <1>2, <2>1, <2>2, <2>3, <2>4, <2>5, <2>6
        DEF UartNext, UartGuest, uartVars, UartIntClr, UartIntEna
<1> QED BY <1>1, <1>2, UartTypeCorrect, PTL DEF UartSpec, RingIsQueue, Fifo!QueueSpec
=============================================================================
