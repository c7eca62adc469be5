---------------------------- MODULE P4I2cProofs ----------------------------
(***************************************************************************)
(* The I2C executor runs a command list as the bus protocol says, for      *)
(* every list, FIFO content, depth and memory size: a simulation, command  *)
(* by command and byte by byte, of Bus by Walk.                            *)
(***************************************************************************)
EXTENDS P4I2c, SequenceTheorems, NatRecursion

Byte == 0 .. 255
Mems == [0 .. DevSize - 1 -> Byte]
Rxs == {s \in Seq(Byte) : Len(i2c_rx) <= Len(s) /\ Len(s) <= FifoSize}
Cmds == [op : Ops \cup {"none"}, n : Nat]

(* What the executor and the bus work on.                                  *)
Execs ==
  [fifo : Seq(Byte), ptr0 : BOOLEAN, phase : BOOLEAN, active : BOOLEAN,
   rw : BOOLEAN, nack : BOOLEAN, stop : BOOLEAN, saw_stop : BOOLEAN,
   ptr : Byte, mem : Mems, rx : Rxs]
Buses ==
  [fifo : Seq(Byte), want : {"nothing", "address", "pointer", "data"},
   active : BOOLEAN, nack : BOOLEAN, stop : BOOLEAN, saw_stop : BOOLEAN,
   ptr : Byte, mem : Mems, rx : Rxs]

----------------------------------------------------------------------------
(* Bytes.                                                                  *)

(* What no byte of a WRITE touches.                                        *)
Keeps(a, e) ==
  /\ a.fifo = e.fifo /\ a.ptr0 = e.ptr0 /\ a.phase = e.phase
  /\ a.stop = e.stop /\ a.saw_stop = e.saw_stop /\ a.rx = e.rx
BusKeeps(a, b) ==
  a.fifo = b.fifo /\ a.stop = b.stop /\ a.saw_stop = b.saw_stop /\ a.rx = b.rx

NextPtr(ptr) == (ptr + 1) % DevSize
Put(mem, ptr, byte) == [mem EXCEPT ![ptr % DevSize] = byte]

LEMMA PtrIn ==
  ASSUME NEW p \in Nat
  PROVE  p % DevSize \in 0 .. DevSize - 1 /\ p % DevSize \in Byte
<1>1. DevSize \in Nat \ {0} /\ DevSize <= 192
  BY I2cAssumption
<1>2. p % DevSize \in 0 .. DevSize - 1
  BY <1>1, DivRem
<1> QED BY <1>1, <1>2 DEF Byte

LEMMA PutIs ==
  ASSUME NEW mem \in Mems, NEW ptr \in Byte, NEW byte \in Byte
  PROVE  Put(mem, ptr, byte) \in Mems /\ NextPtr(ptr) \in Byte
<1>1. ptr \in Nat /\ ptr + 1 \in Nat
  BY DEF Byte
<1>2. NextPtr(ptr) \in Byte
  BY <1>1, PtrIn DEF NextPtr
<1>3. Put(mem, ptr, byte) \in Mems
  BY DEF Put, Mems
<1> QED BY <1>2, <1>3

LEMMA AddressIs ==
  ASSUME NEW e \in Execs, NEW b \in Byte
  PROVE  LET a == Address(e, b)
         IN  /\ a \in Execs /\ Keeps(a, e)
             /\ a.ptr = e.ptr /\ a.mem = e.mem
             /\ IF IsDevice(b) THEN a.active /\ a.rw = IsRead(b) /\ a.nack = e.nack
                               ELSE ~a.active /\ a.nack
<1>1. CASE IsDevice(b)
  <2> DEFINE r == IsRead(b)
             a == [e EXCEPT !.active = TRUE, !.rw = r]
  <2>1. Address(e, b) = a
    BY <1>1 DEF Address
  <2>2. r \in BOOLEAN
    BY DEF IsRead
  <2> HIDE DEF r
  <2>3. a \in Execs
    BY <2>2 DEF Execs
  <2>4. /\ a.ptr = e.ptr /\ a.mem = e.mem /\ a.active /\ a.rw = r /\ a.nack = e.nack
        /\ Keeps(a, e)
    BY DEF Execs, Keeps
  <2> QED BY <1>1, <2>1, <2>3, <2>4 DEF r
<1>2. CASE ~IsDevice(b)
  <2> DEFINE a == [e EXCEPT !.active = FALSE, !.nack = TRUE]
  <2>1. Address(e, b) = a
    BY <1>2 DEF Address
  <2>2. a \in Execs
    BY DEF Execs
  <2>3. a.ptr = e.ptr /\ a.mem = e.mem /\ ~a.active /\ a.nack /\ Keeps(a, e)
    BY DEF Execs, Keeps
  <2> QED BY <1>2, <2>1, <2>2, <2>3
<1> QED BY <1>1, <1>2

LEMMA SetPointerIs ==
  ASSUME NEW e \in Execs, NEW b \in Byte
  PROVE  LET a == SetPointer(e, b)
         IN  /\ a \in Execs /\ Keeps(a, e)
             /\ a.active = e.active /\ a.rw = e.rw /\ a.nack = e.nack /\ a.mem = e.mem
             /\ a.ptr = IF Listens(e) THEN b ELSE e.ptr
<1>1. CASE Listens(e)
  <2> DEFINE a == [e EXCEPT !.ptr = b]
  <2>1. SetPointer(e, b) = a
    BY <1>1 DEF SetPointer
  <2>2. a \in Execs
    BY DEF Execs
  <2>3. /\ a.active = e.active /\ a.rw = e.rw /\ a.nack = e.nack /\ a.mem = e.mem
        /\ a.ptr = b /\ Keeps(a, e)
    BY DEF Execs, Keeps
  <2> QED BY <1>1, <2>1, <2>2, <2>3
<1>2. CASE ~Listens(e)
  BY <1>2 DEF SetPointer, Keeps
<1> QED BY <1>1, <1>2

LEMMA StoreByteIs ==
  ASSUME NEW e \in Execs, NEW b \in Byte
  PROVE  LET a == StoreByte(e, b)
         IN  /\ a \in Execs /\ Keeps(a, e)
             /\ a.active = e.active /\ a.rw = e.rw /\ a.nack = e.nack
             /\ a.mem = IF Listens(e) THEN Put(e.mem, e.ptr, b) ELSE e.mem
             /\ a.ptr = IF Listens(e) THEN NextPtr(e.ptr) ELSE e.ptr
<1>1. CASE Listens(e)
  <2> DEFINE mem == Put(e.mem, e.ptr, b)
             ptr == NextPtr(e.ptr)
             a == [e EXCEPT !.mem = mem, !.ptr = ptr]
  <2>1. StoreByte(e, b) = a
    BY <1>1 DEF StoreByte, Put, NextPtr, Execs
  <2>2. mem \in Mems /\ ptr \in Byte
    <3>1. e.mem \in Mems /\ e.ptr \in Byte
      BY DEF Execs
    <3> QED BY <3>1, PutIs
  <2> HIDE DEF mem, ptr
  <2>3. a \in Execs
    BY <2>2 DEF Execs
  <2>4. /\ a.active = e.active /\ a.rw = e.rw /\ a.nack = e.nack /\ a.mem = mem
        /\ a.ptr = ptr /\ Keeps(a, e)
    BY DEF Execs, Keeps
  <2> QED BY <1>1, <2>1, <2>3, <2>4 DEF mem, ptr
<1>2. CASE ~Listens(e)
  BY <1>2 DEF StoreByte, Keeps
<1> QED BY <1>1, <1>2

LEMMA WriteByteIs ==
  ASSUME NEW e \in Execs, NEW b \in Byte, NEW k, NEW heads, NEW ptr0
  PROVE  WriteByte(e, k, b, heads, ptr0) \in Execs
         /\ Keeps(WriteByte(e, k, b, heads, ptr0), e)
BY AddressIs, SetPointerIs, StoreByteIs DEF WriteByte

LEMMA BusByteIs ==
  ASSUME NEW b \in Buses, NEW byte \in Byte
  PROVE  LET a == BusByte(b, byte)
         IN  /\ a \in Buses /\ BusKeeps(a, b)
             /\ b.want = "address" =>
                  /\ a.ptr = b.ptr /\ a.mem = b.mem
                  /\ IF IsDevice(byte)
                     THEN /\ a.active /\ a.nack = b.nack
                          /\ a.want = IF IsRead(byte) THEN "nothing" ELSE "pointer"
                     ELSE a.nack /\ a.want = "nothing" /\ a.active = b.active
             /\ b.want # "address" => a.active = b.active /\ a.nack = b.nack
             /\ b.want = "pointer" => a.want = "data" /\ a.ptr = byte /\ a.mem = b.mem
             /\ b.want = "data" =>
                  /\ a.want = "data" /\ a.ptr = NextPtr(b.ptr)
                  /\ a.mem = Put(b.mem, b.ptr, byte)
             /\ b.want = "nothing" => a = b
<1>1. CASE b.want = "address" /\ ~IsDevice(byte)
  <2> DEFINE a == [b EXCEPT !.want = "nothing", !.nack = TRUE]
  <2>1. BusByte(b, byte) = a
    BY <1>1 DEF BusByte
  <2>2. a \in Buses
    BY DEF Buses
  <2>3. /\ a.ptr = b.ptr /\ a.mem = b.mem /\ a.nack /\ a.want = "nothing"
        /\ a.active = b.active /\ BusKeeps(a, b)
    BY DEF Buses, BusKeeps
  <2> QED BY <1>1, <2>1, <2>2, <2>3
<1>2. CASE b.want = "address" /\ IsDevice(byte)
  <2> DEFINE w == IF IsRead(byte) THEN "nothing" ELSE "pointer"
             a == [b EXCEPT !.want = w, !.active = TRUE]
  <2>1. BusByte(b, byte) = a
    BY <1>2 DEF BusByte
  <2>2. w \in {"nothing", "pointer"}
    OBVIOUS
  <2> HIDE DEF w
  <2>3. a \in Buses
    BY <2>2 DEF Buses
  <2>4. /\ a.ptr = b.ptr /\ a.mem = b.mem /\ a.nack = b.nack /\ a.want = w
        /\ a.active /\ BusKeeps(a, b)
    BY DEF Buses, BusKeeps
  <2> QED BY <1>2, <2>1, <2>3, <2>4 DEF w
<1>3. CASE b.want = "pointer"
  <2> DEFINE a == [b EXCEPT !.want = "data", !.ptr = byte]
  <2>1. BusByte(b, byte) = a
    BY <1>3 DEF BusByte
  <2>2. a \in Buses
    BY DEF Buses
  <2>3. /\ a.ptr = byte /\ a.mem = b.mem /\ a.nack = b.nack /\ a.want = "data"
        /\ a.active = b.active /\ BusKeeps(a, b)
    BY DEF Buses, BusKeeps
  <2> QED BY <1>3, <2>1, <2>2, <2>3
<1>4. CASE b.want = "data"
  <2> DEFINE mem == Put(b.mem, b.ptr, byte)
             ptr == NextPtr(b.ptr)
             a == [b EXCEPT !.mem = mem, !.ptr = ptr]
  <2>1. BusByte(b, byte) = a
    BY <1>4 DEF BusByte, Put, NextPtr, Buses
  <2>2. mem \in Mems /\ ptr \in Byte
    <3>1. b.mem \in Mems /\ b.ptr \in Byte
      BY DEF Buses
    <3> QED BY <3>1, PutIs
  <2> HIDE DEF mem, ptr
  <2>3. a \in Buses
    BY <2>2 DEF Buses
  <2>4. /\ a.active = b.active /\ a.nack = b.nack /\ a.mem = mem
        /\ a.ptr = ptr /\ a.want = b.want /\ BusKeeps(a, b)
    BY DEF Buses, BusKeeps
  <2> QED BY <1>4, <2>1, <2>3, <2>4 DEF mem, ptr
<1>5. CASE b.want = "nothing"
  BY <1>5 DEF BusByte, BusKeeps
<1>6. b.want \in {"nothing", "address", "pointer", "data"}
  BY DEF Buses
<1> QED BY <1>1, <1>2, <1>3, <1>4, <1>5, <1>6

----------------------------------------------------------------------------
(* WRITEs.                                                                 *)

Burst(s, n) == IF n <= Len(s) THEN n ELSE Len(s)
Rest(e, m) ==
  [e EXCEPT !.fifo = SubSeq(@, m + 1, Len(@)), !.phase = FALSE, !.ptr0 = @ /\ m = 0]
BusRest(b, m) == [b EXCEPT !.fifo = SubSeq(@, m + 1, Len(@))]

LEMMA BurstIs ==
  ASSUME NEW s \in Seq(Byte), NEW n \in Nat
  PROVE  /\ Burst(s, n) \in Nat /\ Burst(s, n) \in 0 .. Len(s)
         /\ \A k \in 1 .. Burst(s, n) : s[k] \in Byte
BY DEF Burst

LEMMA TailIs ==
  ASSUME NEW s \in Seq(Byte), NEW m \in 0 .. Len(s)
  PROVE  SubSeq(s, m + 1, Len(s)) \in Seq(Byte)
BY SubSeqProperties

LEMMA RestIs ==
  ASSUME NEW e \in Execs, NEW m \in 0 .. Len(e.fifo)
  PROVE  LET a == Rest(e, m)
         IN  /\ a \in Execs
             /\ a.fifo = SubSeq(e.fifo, m + 1, Len(e.fifo))
             /\ ~a.phase /\ a.ptr0 = (e.ptr0 /\ m = 0)
             /\ a.active = e.active /\ a.rw = e.rw /\ a.nack = e.nack /\ a.ptr = e.ptr
             /\ a.mem = e.mem /\ a.rx = e.rx /\ a.stop = e.stop
             /\ a.saw_stop = e.saw_stop
<1> DEFINE s == SubSeq(e.fifo, m + 1, Len(e.fifo))
           p == e.ptr0 /\ m = 0
           a == [e EXCEPT !.fifo = s, !.phase = FALSE, !.ptr0 = p]
<1>1. Rest(e, m) = a
  BY DEF Rest, Execs
<1>2. s \in Seq(Byte) /\ p \in BOOLEAN
  BY TailIs DEF Execs
<1> HIDE DEF s, p
<1>3. a \in Execs
  BY <1>2 DEF Execs
<1>4. /\ a.fifo = s /\ ~a.phase /\ a.ptr0 = p
      /\ a.active = e.active /\ a.rw = e.rw /\ a.nack = e.nack /\ a.ptr = e.ptr
      /\ a.mem = e.mem /\ a.rx = e.rx /\ a.stop = e.stop
      /\ a.saw_stop = e.saw_stop
  BY DEF Execs
<1> QED BY <1>1, <1>3, <1>4 DEF s, p

LEMMA BusRestIs ==
  ASSUME NEW b \in Buses, NEW m \in 0 .. Len(b.fifo)
  PROVE  LET a == BusRest(b, m)
         IN  /\ a \in Buses
             /\ a.fifo = SubSeq(b.fifo, m + 1, Len(b.fifo))
             /\ a.want = b.want /\ a.active = b.active /\ a.nack = b.nack
             /\ a.ptr = b.ptr /\ a.mem = b.mem /\ a.rx = b.rx /\ a.stop = b.stop
             /\ a.saw_stop = b.saw_stop
<1> DEFINE s == SubSeq(b.fifo, m + 1, Len(b.fifo))
           a == [b EXCEPT !.fifo = s]
<1>1. BusRest(b, m) = a
  BY DEF BusRest, Buses
<1>2. s \in Seq(Byte)
  BY TailIs DEF Buses
<1> HIDE DEF s
<1>3. a \in Buses
  BY <1>2 DEF Buses
<1>4. /\ a.fifo = s /\ a.want = b.want /\ a.active = b.active /\ a.nack = b.nack
      /\ a.ptr = b.ptr /\ a.mem = b.mem /\ a.rx = b.rx /\ a.stop = b.stop
      /\ a.saw_stop = b.saw_stop
  BY DEF Buses
<1> QED BY <1>1, <1>3, <1>4 DEF s

(* A WRITE byte by byte: the state after each of them.                      *)
LEMMA WriteIs ==
  ASSUME NEW e \in Execs, NEW n \in Nat
  PROVE  \E f : /\ f \in [0 .. Burst(e.fifo, n) -> Execs]
                /\ f[0] = Rest(e, Burst(e.fifo, n))
                /\ \A k \in 1 .. Burst(e.fifo, n) :
                       f[k] = WriteByte(f[k - 1], k, e.fifo[k], e.phase, e.ptr0)
                /\ DoWrite(e, n) = f[Burst(e.fifo, n)]
<1> DEFINE N == Burst(e.fifo, n)
           e0 == Rest(e, Burst(e.fifo, n))
           T == [k \in 1 .. N |->
                 [x \in Execs |-> WriteByte(x, k, e.fifo[k], e.phase, e.ptr0)]]
           after[k \in 0 .. N] == IF k = 0 THEN e0
                                  ELSE WriteByte(after[k - 1], k, e.fifo[k], e.phase, e.ptr0)
<1>1. N \in Nat /\ e0 \in Execs
  BY BurstIs, RestIs DEF Execs
<1>2. ASSUME NEW k \in 1 .. N, NEW x \in Execs
      PROVE  WriteByte(x, k, e.fifo[k], e.phase, e.ptr0) \in Execs
  <2>1. e.fifo[k] \in Byte
    BY BurstIs DEF Execs
  <2> QED BY <2>1, WriteByteIs
<1>3. Stepper(T, N, Execs)
  BY <1>2 DEF Stepper
<1>4. \A k \in 1 .. N : \A x \in Execs :
        T[k][x] = WriteByte(x, k, e.fifo[k], e.phase, e.ptr0)
  OBVIOUS
<1> HIDE DEF T
<1>5. PICK g : Orbit(g, N, Execs, e0, T)
  BY <1>1, <1>3, Recursion
<1>6. g \in [0 .. N -> Execs] /\ g[0] = e0
  BY <1>5 DEF Orbit
<1>7. g = [k \in 0 .. N |-> IF k = 0 THEN e0
                            ELSE WriteByte(g[k - 1], k, e.fifo[k], e.phase, e.ptr0)]
  <2> DEFINE h == [k \in 0 .. N |-> IF k = 0 THEN e0
                                    ELSE WriteByte(g[k - 1], k, e.fifo[k], e.phase, e.ptr0)]
  <2>1. ASSUME NEW k \in 0 .. N
        PROVE  g[k] = h[k]
    <3>1. CASE k = 0
      BY <1>6, <3>1
    <3>2. CASE k \in 1 .. N
      <4>1. g[k - 1] \in Execs /\ k # 0
        BY <1>1, <1>6, <3>2
      <4> QED BY <1>4, <1>5, <3>2, <4>1 DEF Orbit
    <3> QED BY <1>1, <3>1, <3>2
  <2> QED BY <1>6, <2>1
<1>8. after = [k \in 0 .. N |-> IF k = 0 THEN e0
                                ELSE WriteByte(after[k - 1], k, e.fifo[k], e.phase, e.ptr0)]
  BY <1>7, Zenon
<1>9. DoWrite(e, n) = after[N]
  BY DEF DoWrite, Burst, Rest
<1> HIDE DEF after, N, e0
<1>10. after[0] = e0
  BY <1>1, <1>8
<1>11. ASSUME NEW k \in 1 .. N
       PROVE  after[k] = WriteByte(after[k - 1], k, e.fifo[k], e.phase, e.ptr0)
  BY <1>1, <1>8
<1>12. Orbit(after, N, Execs, e0, T)
  <2> DEFINE V == {after[k] : k \in 0 .. N}
  <2>1. after \in [0 .. N -> V]
    <3>1. DOMAIN after = 0 .. N /\ after = [k \in DOMAIN after |-> after[k]]
      BY <1>8
    <3> QED BY <3>1
  <2> HIDE DEF V
  <2>2. \A k \in 1 .. N : after[k - 1] \in Execs => after[k] = T[k][after[k - 1]]
    BY <1>4, <1>11
  <2> QED BY <1>1, <1>3, <1>10, <2>1, <2>2, Iterates
<1>13. after \in [0 .. N -> Execs]
  BY <1>12 DEF Orbit
<1> QED BY <1>9, <1>10, <1>11, <1>13 DEF N, e0

(* The same on the bus.                                                     *)
LEMMA BusWriteIs ==
  ASSUME NEW b \in Buses, NEW n \in Nat
  PROVE  \E f : /\ f \in [0 .. Burst(b.fifo, n) -> Buses]
                /\ f[0] = BusRest(b, Burst(b.fifo, n))
                /\ \A k \in 1 .. Burst(b.fifo, n) : f[k] = BusByte(f[k - 1], b.fifo[k])
                /\ BusWrite(b, n) = f[Burst(b.fifo, n)]
<1> DEFINE N == Burst(b.fifo, n)
           e0 == BusRest(b, Burst(b.fifo, n))
           T == [k \in 1 .. N |-> [x \in Buses |-> BusByte(x, b.fifo[k])]]
           after[k \in 0 .. N] == IF k = 0 THEN e0 ELSE BusByte(after[k - 1], b.fifo[k])
<1>1. N \in Nat /\ e0 \in Buses
  BY BurstIs, BusRestIs DEF Buses
<1>2. ASSUME NEW k \in 1 .. N, NEW x \in Buses
      PROVE  BusByte(x, b.fifo[k]) \in Buses
  <2>1. b.fifo[k] \in Byte
    BY BurstIs DEF Buses
  <2> QED BY <2>1, BusByteIs
<1>3. Stepper(T, N, Buses)
  BY <1>2 DEF Stepper
<1>4. \A k \in 1 .. N : \A x \in Buses : T[k][x] = BusByte(x, b.fifo[k])
  OBVIOUS
<1> HIDE DEF T
<1>5. PICK g : Orbit(g, N, Buses, e0, T)
  BY <1>1, <1>3, Recursion
<1>6. g \in [0 .. N -> Buses] /\ g[0] = e0
  BY <1>5 DEF Orbit
<1>7. g = [k \in 0 .. N |-> IF k = 0 THEN e0 ELSE BusByte(g[k - 1], b.fifo[k])]
  <2> DEFINE h == [k \in 0 .. N |-> IF k = 0 THEN e0 ELSE BusByte(g[k - 1], b.fifo[k])]
  <2>1. ASSUME NEW k \in 0 .. N
        PROVE  g[k] = h[k]
    <3>1. CASE k = 0
      BY <1>6, <3>1
    <3>2. CASE k \in 1 .. N
      <4>1. g[k - 1] \in Buses /\ k # 0
        BY <1>1, <1>6, <3>2
      <4> QED BY <1>4, <1>5, <3>2, <4>1 DEF Orbit
    <3> QED BY <1>1, <3>1, <3>2
  <2> QED BY <1>6, <2>1
<1>8. after = [k \in 0 .. N |-> IF k = 0 THEN e0 ELSE BusByte(after[k - 1], b.fifo[k])]
  BY <1>7, Zenon
<1>9. BusWrite(b, n) = after[N]
  BY DEF BusWrite, Burst, BusRest
<1> HIDE DEF after, N, e0
<1>10. after[0] = e0
  BY <1>1, <1>8
<1>11. ASSUME NEW k \in 1 .. N
       PROVE  after[k] = BusByte(after[k - 1], b.fifo[k])
  BY <1>1, <1>8
<1>12. Orbit(after, N, Buses, e0, T)
  <2> DEFINE V == {after[k] : k \in 0 .. N}
  <2>1. after \in [0 .. N -> V]
    <3>1. DOMAIN after = 0 .. N /\ after = [k \in DOMAIN after |-> after[k]]
      BY <1>8
    <3> QED BY <3>1
  <2> HIDE DEF V
  <2>2. \A k \in 1 .. N : after[k - 1] \in Buses => after[k] = T[k][after[k - 1]]
    BY <1>4, <1>11
  <2> QED BY <1>1, <1>3, <1>10, <2>1, <2>2, Iterates
<1>13. after \in [0 .. N -> Buses]
  BY <1>12 DEF Orbit
<1> QED BY <1>9, <1>10, <1>11, <1>13 DEF N, e0

----------------------------------------------------------------------------
(* READs.                                                                  *)

Fetched(rx, n) == IF n <= FifoSize - Len(rx) THEN n ELSE FifoSize - Len(rx)
Fetch(mem, ptr, k) == [i \in 1 .. k |-> mem[(ptr + i - 1) % DevSize]]
Received(rx, mem, ptr, n) == rx \o Fetch(mem, ptr, Fetched(rx, n))
PtrAfter(rx, ptr, n) == (ptr + Fetched(rx, n)) % DevSize

LEMMA ReceivedIs ==
  ASSUME NEW rx \in Rxs, NEW mem \in Mems, NEW ptr \in Byte, NEW n \in Nat
  PROVE  Received(rx, mem, ptr, n) \in Rxs /\ PtrAfter(rx, ptr, n) \in Byte
<1> DEFINE k == Fetched(rx, n)
           s == Fetch(mem, ptr, k)
<1>1. /\ rx \in Seq(Byte) /\ Len(rx) \in Nat
      /\ Len(i2c_rx) <= Len(rx) /\ Len(rx) <= FifoSize
  BY DEF Rxs
<1>2. k \in Nat /\ Len(rx) + k <= FifoSize
  BY <1>1, I2cAssumption DEF Fetched
<1> HIDE DEF k
<1>3. s \in Seq(Byte) /\ Len(s) = k
  <2>1. ASSUME NEW i \in 1 .. k
        PROVE  mem[(ptr + i - 1) % DevSize] \in Byte
    <3>1. ptr + i - 1 \in Nat
      BY <1>2 DEF Byte
    <3>2. (ptr + i - 1) % DevSize \in 0 .. DevSize - 1
      BY <3>1, PtrIn
    <3> QED BY <3>2 DEF Mems
  <2>2. s \in [1 .. k -> Byte]
    BY <2>1 DEF Fetch
  <2> QED BY <1>2, <2>2
<1> HIDE DEF s
<1>4. rx \o s \in Seq(Byte) /\ Len(rx \o s) = Len(rx) + k
  BY <1>1, <1>3, ConcatProperties
<1>5. rx \o s \in Rxs
  <2>1. Len(i2c_rx) <= Len(rx) + k
    BY <1>1, <1>2
  <2> QED BY <1>2, <1>4, <2>1 DEF Rxs
<1>6. (ptr + k) % DevSize \in Byte
  <2>1. ptr + k \in Nat
    BY <1>2 DEF Byte
  <2> QED BY <2>1, PtrIn
<1> QED BY <1>5, <1>6 DEF Received, PtrAfter, s, k

LEMMA ReadIs ==
  ASSUME NEW e \in Execs, NEW n \in Nat
  PROVE  LET a == DoRead(e, n)
         IN  /\ a \in Execs
             /\ a.fifo = e.fifo /\ a.ptr0 = e.ptr0 /\ a.phase = e.phase
             /\ a.active = e.active /\ a.rw = e.rw /\ a.saw_stop = e.saw_stop
             /\ a.mem = e.mem
             /\ a.stop = (e.stop \/ e.nack) /\ a.nack = (e.nack \/ ~e.active)
             /\ IF e.nack \/ ~e.active THEN a.rx = e.rx /\ a.ptr = e.ptr
                ELSE /\ a.rx = Received(e.rx, e.mem, e.ptr, n)
                     /\ a.ptr = PtrAfter(e.rx, e.ptr, n)
<1>1. CASE e.nack
  <2> DEFINE a == [e EXCEPT !.stop = TRUE]
  <2>1. DoRead(e, n) = a
    BY <1>1 DEF DoRead
  <2>2. a \in Execs
    BY DEF Execs
  <2>3. /\ a.fifo = e.fifo /\ a.ptr0 = e.ptr0 /\ a.phase = e.phase
        /\ a.active = e.active /\ a.rw = e.rw /\ a.saw_stop = e.saw_stop
        /\ a.mem = e.mem /\ a.rx = e.rx /\ a.ptr = e.ptr /\ a.stop /\ a.nack = e.nack
    BY DEF Execs
  <2>4. a.nack = TRUE /\ a.stop = TRUE
    BY <1>1, <2>2, <2>3 DEF Execs
  <2> QED BY <1>1, <2>1, <2>2, <2>3, <2>4
<1>2. CASE ~e.nack /\ ~e.active
  <2> DEFINE a == [e EXCEPT !.nack = TRUE]
  <2>1. DoRead(e, n) = a
    BY <1>2 DEF DoRead
  <2>2. a \in Execs
    BY DEF Execs
  <2>3. /\ a.fifo = e.fifo /\ a.ptr0 = e.ptr0 /\ a.phase = e.phase
        /\ a.active = e.active /\ a.rw = e.rw /\ a.saw_stop = e.saw_stop
        /\ a.mem = e.mem /\ a.rx = e.rx /\ a.ptr = e.ptr /\ a.stop = e.stop
        /\ a.nack = TRUE
    BY DEF Execs
  <2>4. e.stop \in BOOLEAN
    BY DEF Execs
  <2> QED BY <1>2, <2>1, <2>2, <2>3, <2>4
<1>3. CASE ~e.nack /\ e.active
  <2> DEFINE rx == Received(e.rx, e.mem, e.ptr, n)
             ptr == PtrAfter(e.rx, e.ptr, n)
             a == [e EXCEPT !.rx = rx, !.ptr = ptr]
  <2>1. DoRead(e, n) = a
    BY <1>3 DEF DoRead, Received, Fetch, Fetched, PtrAfter, Execs
  <2>2. rx \in Rxs /\ ptr \in Byte
    <3>1. e.rx \in Rxs /\ e.mem \in Mems /\ e.ptr \in Byte
      BY DEF Execs
    <3> QED BY <3>1, ReceivedIs
  <2> HIDE DEF rx, ptr
  <2>3. a \in Execs
    BY <2>2 DEF Execs
  <2>4. /\ a.fifo = e.fifo /\ a.ptr0 = e.ptr0 /\ a.phase = e.phase
        /\ a.active = e.active /\ a.rw = e.rw /\ a.saw_stop = e.saw_stop
        /\ a.mem = e.mem /\ a.rx = rx /\ a.ptr = ptr /\ a.stop = e.stop
        /\ a.nack = e.nack
    BY DEF Execs
  <2>5. e.stop \in BOOLEAN /\ e.nack \in BOOLEAN
    BY DEF Execs
  <2> QED BY <1>3, <2>1, <2>3, <2>4, <2>5 DEF rx, ptr
<1> QED BY <1>1, <1>2, <1>3

LEMMA BusReadIs ==
  ASSUME NEW b \in Buses, NEW n \in Nat
  PROVE  LET a == BusRead(b, n)
         IN  /\ a \in Buses
             /\ a.fifo = b.fifo /\ a.want = b.want /\ a.active = b.active
             /\ a.mem = b.mem /\ a.stop = b.stop /\ a.saw_stop = b.saw_stop
             /\ a.nack = (b.nack \/ ~b.active)
             /\ IF ~b.active THEN a.rx = b.rx /\ a.ptr = b.ptr
                ELSE /\ a.rx = Received(b.rx, b.mem, b.ptr, n)
                     /\ a.ptr = PtrAfter(b.rx, b.ptr, n)
<1>1. CASE ~b.active
  <2> DEFINE a == [b EXCEPT !.nack = TRUE]
  <2>1. BusRead(b, n) = a
    BY <1>1 DEF BusRead
  <2>2. a \in Buses
    BY DEF Buses
  <2>3. /\ a.fifo = b.fifo /\ a.want = b.want /\ a.active = b.active
        /\ a.mem = b.mem /\ a.stop = b.stop /\ a.saw_stop = b.saw_stop
        /\ a.rx = b.rx /\ a.ptr = b.ptr /\ a.nack = TRUE
    BY DEF Buses
  <2> QED BY <1>1, <2>1, <2>2, <2>3
<1>2. CASE b.active
  <2> DEFINE rx == Received(b.rx, b.mem, b.ptr, n)
             ptr == PtrAfter(b.rx, b.ptr, n)
             a == [b EXCEPT !.rx = rx, !.ptr = ptr]
  <2>1. BusRead(b, n) = a
    BY <1>2 DEF BusRead, Received, Fetch, Fetched, PtrAfter, Buses
  <2>2. rx \in Rxs /\ ptr \in Byte
    <3>1. b.rx \in Rxs /\ b.mem \in Mems /\ b.ptr \in Byte
      BY DEF Buses
    <3> QED BY <3>1, ReceivedIs
  <2> HIDE DEF rx, ptr
  <2>3. a \in Buses
    BY <2>2 DEF Buses
  <2>4. /\ a.fifo = b.fifo /\ a.want = b.want /\ a.active = b.active
        /\ a.mem = b.mem /\ a.stop = b.stop /\ a.saw_stop = b.saw_stop
        /\ a.rx = rx /\ a.ptr = ptr /\ a.nack = b.nack
    BY DEF Buses
  <2>5. b.nack \in BOOLEAN
    BY DEF Buses
  <2> QED BY <1>2, <2>1, <2>3, <2>4, <2>5 DEF rx, ptr
<1> QED BY <1>1, <1>2

----------------------------------------------------------------------------
(* Commands.                                                               *)

LEMMA StepType ==
  ASSUME NEW e \in Execs, NEW cmd \in Cmds
  PROVE  Step(e, cmd) \in Execs
<1>1. cmd.op \in {"rstart", "write", "read", "stop", "end", "none"} /\ cmd.n \in Nat
  BY DEF Cmds, Ops
<1>2. CASE e.stop
  BY <1>2 DEF Step
<1>3. CASE ~e.stop /\ cmd.op = "write"
  <2>1. PICK n \in Nat : n = cmd.n
    BY <1>1
  <2>2. PICK f : /\ f \in [0 .. Burst(e.fifo, n) -> Execs]
                 /\ DoWrite(e, n) = f[Burst(e.fifo, n)]
    BY WriteIs
  <2>3. Burst(e.fifo, n) \in Nat
    BY BurstIs DEF Execs
  <2>4. DoWrite(e, cmd.n) \in Execs
    BY <2>1, <2>2, <2>3
  <2> QED BY <1>3, <2>4 DEF Step
<1>4. CASE ~e.stop /\ cmd.op = "read"
  <2>1. DoRead(e, cmd.n) \in Execs
    BY <1>1, ReadIs
  <2> QED BY <1>4, <2>1 DEF Step
<1>5. CASE ~e.stop /\ cmd.op = "rstart"
  <2>1. [e EXCEPT !.phase = TRUE] \in Execs
    BY DEF Execs
  <2> QED BY <1>5, <2>1 DEF Step
<1>6. CASE ~e.stop /\ cmd.op = "stop"
  <2>1. [e EXCEPT !.stop = TRUE, !.saw_stop = TRUE] \in Execs
    BY DEF Execs
  <2> QED BY <1>6, <2>1 DEF Step
<1>7. CASE ~e.stop /\ cmd.op \in {"none", "end"}
  <2>1. [e EXCEPT !.stop = TRUE] \in Execs
    BY DEF Execs
  <2> QED BY <1>7, <2>1 DEF Step
<1> QED BY <1>1, <1>2, <1>3, <1>4, <1>5, <1>6, <1>7

LEMMA BusStepType ==
  ASSUME NEW b \in Buses, NEW cmd \in Cmds
  PROVE  BusStep(b, cmd) \in Buses
<1>1. cmd.op \in {"rstart", "write", "read", "stop", "end", "none"} /\ cmd.n \in Nat
  BY DEF Cmds, Ops
<1>2. CASE b.stop \/ b.nack
  BY <1>2 DEF BusStep
<1>3. CASE ~(b.stop \/ b.nack) /\ cmd.op = "write"
  <2>1. PICK n \in Nat : n = cmd.n
    BY <1>1
  <2>2. PICK f : /\ f \in [0 .. Burst(b.fifo, n) -> Buses]
                 /\ BusWrite(b, n) = f[Burst(b.fifo, n)]
    BY BusWriteIs
  <2>3. Burst(b.fifo, n) \in Nat
    BY BurstIs DEF Buses
  <2>4. BusWrite(b, cmd.n) \in Buses
    BY <2>1, <2>2, <2>3
  <2> QED BY <1>3, <2>4 DEF BusStep
<1>4. CASE ~(b.stop \/ b.nack) /\ cmd.op = "read"
  <2>1. BusRead(b, cmd.n) \in Buses
    BY <1>1, BusReadIs
  <2> QED BY <1>4, <2>1 DEF BusStep
<1>5. CASE ~(b.stop \/ b.nack) /\ cmd.op = "rstart"
  <2>1. [b EXCEPT !.want = "address"] \in Buses
    BY DEF Buses
  <2> QED BY <1>5, <2>1 DEF BusStep
<1>6. CASE ~(b.stop \/ b.nack) /\ cmd.op \in {"none", "end", "stop"}
  <2> DEFINE s == cmd.op = "stop"
             a == [b EXCEPT !.stop = TRUE, !.saw_stop = s]
  <2>1. s \in BOOLEAN
    OBVIOUS
  <2>2. BusStep(b, cmd) = a
    BY <1>6 DEF BusStep
  <2> HIDE DEF s
  <2>3. a \in Buses
    BY <2>1 DEF Buses
  <2> QED BY <2>2, <2>3
<1> QED BY <1>1, <1>2, <1>3, <1>4, <1>5, <1>6

(* The controller's state.                                                 *)
I2cTyped ==
  /\ i2c_cmd \in [1 .. CmdRegs -> Cmds]
  /\ i2c_tx \in Seq(Byte) /\ Len(i2c_tx) <= FifoSize
  /\ i2c_rx \in Seq(Byte) /\ Len(i2c_rx) <= FifoSize
  /\ i2c_rx_pos \in 0 .. Len(i2c_rx)
  /\ i2c_raw \subseteq I2cBits
  /\ i2c_dev_ptr \in Byte /\ i2c_dev_mem \in Mems

BusRound ==
  [fifo |-> i2c_tx, want |-> "nothing", active |-> FALSE,
   nack |-> FALSE, stop |-> FALSE, saw_stop |-> FALSE,
   ptr |-> i2c_dev_ptr, mem |-> i2c_dev_mem, rx |-> i2c_rx]

LEMMA RoundIs ==
  ASSUME I2cTyped
  PROVE  Round \in Execs /\ BusRound \in Buses
<1>1. i2c_rx \in Rxs
  BY DEF I2cTyped, Rxs
<1> QED BY <1>1 DEF I2cTyped, Round, BusRound, Execs, Buses

(* The walk over the command registers ...                                  *)
LEMMA WalkIs ==
  ASSUME I2cTyped
  PROVE  /\ WalkTo \in [0 .. CmdRegs -> Execs]
         /\ WalkTo[0] = Round
         /\ \A k \in 1 .. CmdRegs : WalkTo[k] = Step(WalkTo[k - 1], i2c_cmd[k])
<1> DEFINE N == CmdRegs
           e0 == Round
           T == [k \in 1 .. N |-> [x \in Execs |-> Step(x, i2c_cmd[k])]]
           after[k \in 0 .. N] == IF k = 0 THEN e0 ELSE Step(after[k - 1], i2c_cmd[k])
<1>1. N \in Nat /\ e0 \in Execs
  BY I2cAssumption, RoundIs
<1>2. ASSUME NEW k \in 1 .. N, NEW x \in Execs
      PROVE  Step(x, i2c_cmd[k]) \in Execs
  <2>1. i2c_cmd[k] \in Cmds
    BY DEF I2cTyped
  <2> QED BY <2>1, StepType
<1>3. Stepper(T, N, Execs)
  BY <1>2 DEF Stepper
<1>4. \A k \in 1 .. N : \A x \in Execs : T[k][x] = Step(x, i2c_cmd[k])
  OBVIOUS
<1> HIDE DEF T
<1>5. PICK g : Orbit(g, N, Execs, e0, T)
  BY <1>1, <1>3, Recursion
<1>6. g \in [0 .. N -> Execs] /\ g[0] = e0
  BY <1>5 DEF Orbit
<1>7. g = [k \in 0 .. N |-> IF k = 0 THEN e0 ELSE Step(g[k - 1], i2c_cmd[k])]
  <2> DEFINE h == [k \in 0 .. N |-> IF k = 0 THEN e0 ELSE Step(g[k - 1], i2c_cmd[k])]
  <2>1. ASSUME NEW k \in 0 .. N
        PROVE  g[k] = h[k]
    <3>1. CASE k = 0
      BY <1>6, <3>1
    <3>2. CASE k \in 1 .. N
      <4>1. g[k - 1] \in Execs /\ k # 0
        BY <1>1, <1>6, <3>2
      <4> QED BY <1>4, <1>5, <3>2, <4>1 DEF Orbit
    <3> QED BY <1>1, <3>1, <3>2
  <2> QED BY <1>6, <2>1
<1>8. after = [k \in 0 .. N |-> IF k = 0 THEN e0 ELSE Step(after[k - 1], i2c_cmd[k])]
  BY <1>7, Zenon
<1>9. WalkTo = after
  BY DEF WalkTo
<1> HIDE DEF after, N, e0
<1>10. after[0] = e0
  BY <1>1, <1>8
<1>11. ASSUME NEW k \in 1 .. N
       PROVE  after[k] = Step(after[k - 1], i2c_cmd[k])
  BY <1>1, <1>8
<1>12. Orbit(after, N, Execs, e0, T)
  <2> DEFINE V == {after[k] : k \in 0 .. N}
  <2>1. after \in [0 .. N -> V]
    <3>1. DOMAIN after = 0 .. N /\ after = [k \in DOMAIN after |-> after[k]]
      BY <1>8
    <3> QED BY <3>1
  <2> HIDE DEF V
  <2>2. \A k \in 1 .. N : after[k - 1] \in Execs => after[k] = T[k][after[k - 1]]
    BY <1>4, <1>11
  <2> QED BY <1>1, <1>3, <1>10, <2>1, <2>2, Iterates
<1>13. after \in [0 .. N -> Execs]
  BY <1>12 DEF Orbit
<1> QED BY <1>9, <1>10, <1>11, <1>13 DEF N, e0

(* ... and the bus over the same list.                                      *)
LEMMA BusIs ==
  ASSUME I2cTyped
  PROVE  /\ BusTo \in [0 .. CmdRegs -> Buses]
         /\ BusTo[0] = BusRound
         /\ \A k \in 1 .. CmdRegs : BusTo[k] = BusStep(BusTo[k - 1], i2c_cmd[k])
<1> DEFINE N == CmdRegs
           e0 == BusRound
           T == [k \in 1 .. N |-> [x \in Buses |-> BusStep(x, i2c_cmd[k])]]
           after[k \in 0 .. N] == IF k = 0 THEN e0
                                  ELSE BusStep(after[k - 1], i2c_cmd[k])
<1>1. N \in Nat /\ e0 \in Buses
  BY I2cAssumption, RoundIs
<1>2. ASSUME NEW k \in 1 .. N, NEW x \in Buses
      PROVE  BusStep(x, i2c_cmd[k]) \in Buses
  <2>1. i2c_cmd[k] \in Cmds
    BY DEF I2cTyped
  <2> QED BY <2>1, BusStepType
<1>3. Stepper(T, N, Buses)
  BY <1>2 DEF Stepper
<1>4. \A k \in 1 .. N : \A x \in Buses : T[k][x] = BusStep(x, i2c_cmd[k])
  OBVIOUS
<1> HIDE DEF T
<1>5. PICK g : Orbit(g, N, Buses, e0, T)
  BY <1>1, <1>3, Recursion
<1>6. g \in [0 .. N -> Buses] /\ g[0] = e0
  BY <1>5 DEF Orbit
<1>7. g = [k \in 0 .. N |-> IF k = 0 THEN e0 ELSE BusStep(g[k - 1], i2c_cmd[k])]
  <2> DEFINE h == [k \in 0 .. N |-> IF k = 0 THEN e0 ELSE BusStep(g[k - 1], i2c_cmd[k])]
  <2>1. ASSUME NEW k \in 0 .. N
        PROVE  g[k] = h[k]
    <3>1. CASE k = 0
      BY <1>6, <3>1
    <3>2. CASE k \in 1 .. N
      <4>1. g[k - 1] \in Buses /\ k # 0
        BY <1>1, <1>6, <3>2
      <4> QED BY <1>4, <1>5, <3>2, <4>1 DEF Orbit
    <3> QED BY <1>1, <3>1, <3>2
  <2> QED BY <1>6, <2>1
<1>8. after = [k \in 0 .. N |-> IF k = 0 THEN e0 ELSE BusStep(after[k - 1], i2c_cmd[k])]
  BY <1>7, Zenon
<1>9. BusTo = after
  BY DEF BusTo, BusRound
<1> HIDE DEF after, N, e0
<1>10. after[0] = e0
  BY <1>1, <1>8
<1>11. ASSUME NEW k \in 1 .. N
       PROVE  after[k] = BusStep(after[k - 1], i2c_cmd[k])
  BY <1>1, <1>8
<1>12. Orbit(after, N, Buses, e0, T)
  <2> DEFINE V == {after[k] : k \in 0 .. N}
  <2>1. after \in [0 .. N -> V]
    <3>1. DOMAIN after = 0 .. N /\ after = [k \in DOMAIN after |-> after[k]]
      BY <1>8
    <3> QED BY <3>1
  <2> HIDE DEF V
  <2>2. \A k \in 1 .. N : after[k - 1] \in Buses => after[k] = T[k][after[k - 1]]
    BY <1>4, <1>11
  <2> QED BY <1>1, <1>3, <1>10, <2>1, <2>2, Iterates
<1>13. after \in [0 .. N -> Buses]
  BY <1>12 DEF Orbit
<1> QED BY <1>9, <1>10, <1>11, <1>13 DEF N, e0

----------------------------------------------------------------------------
(* The type invariant.                                                     *)

LEMMA I2cTypedInit == I2cInit => I2cTyped
<1> SUFFICES ASSUME I2cInit PROVE I2cTyped
  OBVIOUS
<1>1. Unprogrammed \in Cmds
  BY DEF Unprogrammed, Cmd, Cmds
<1>2. [i \in 0 .. DevSize - 1 |-> 64 + i] \in Mems
  BY I2cAssumption DEF Mems, Byte
<1>3. i2c_tx \in Seq(Byte) /\ Len(i2c_tx) = 0 /\ i2c_rx \in Seq(Byte) /\ Len(i2c_rx) = 0
  BY DEF I2cInit
<1>4. i2c_dev_ptr \in Byte
  BY DEF I2cInit, Byte
<1> QED BY <1>1, <1>2, <1>3, <1>4, I2cAssumption DEF I2cInit, I2cTyped

(* A poll leaves an RX FIFO that holds what the driver had read of it.     *)
LEMMA I2cPollTyped ==
  ASSUME I2cTyped, I2cPoll
  PROVE  I2cTyped'
<1>1. CASE ~i2c_exec_pending
  BY <1>1 DEF I2cPoll, I2cTyped, i2cVars, i2cBus, i2cInt, i2cDev
<1>2. CASE i2c_exec_pending
  <2>1. Walk \in Execs
    BY WalkIs, I2cAssumption DEF Walk
  <2>2. /\ Walk.rx \in Seq(Byte) /\ Len(i2c_rx) <= Len(Walk.rx)
        /\ Len(Walk.rx) <= FifoSize /\ Walk.ptr \in Byte /\ Walk.mem \in Mems
    BY <2>1 DEF Execs, Rxs
  <2>3. Event(Walk) \in I2cBits
    BY DEF Event, I2cBits
  <2>4. /\ i2c_rx' = Walk.rx /\ i2c_tx' = <<>> /\ i2c_dev_mem' = Walk.mem
        /\ i2c_dev_ptr' = Walk.ptr /\ i2c_raw' = i2c_raw \cup {Event(Walk)}
        /\ i2c_cmd' = i2c_cmd /\ i2c_rx_pos' = i2c_rx_pos
    BY <1>2 DEF I2cPoll
  <2>5. i2c_rx_pos' \in 0 .. Len(i2c_rx')
    <3>1. /\ i2c_rx_pos \in 0 .. Len(i2c_rx) /\ Len(i2c_rx) \in Nat
          /\ Len(Walk.rx) \in Nat
      BY <2>2 DEF I2cTyped
    <3> QED BY <2>2, <2>4, <3>1
  <2>6. i2c_tx' \in Seq(Byte) /\ Len(i2c_tx') <= FifoSize
    BY <2>4, I2cAssumption
  <2>7. i2c_raw' \subseteq I2cBits
    BY <2>3, <2>4 DEF I2cTyped
  <2>8. i2c_cmd' \in [1 .. CmdRegs -> Cmds]
    BY <2>4 DEF I2cTyped
  <2>9. i2c_dev_ptr' \in Byte /\ i2c_dev_mem' \in Mems
    BY <2>2, <2>4
  <2>10. i2c_rx' \in Seq(Byte) /\ Len(i2c_rx') <= FifoSize
    BY <2>2, <2>4
  <2> QED BY <2>5, <2>6, <2>7, <2>8, <2>9, <2>10 DEF I2cTyped, Mems, Byte
<1> QED BY <1>1, <1>2

LEMMA I2cGuestTyped ==
  ASSUME I2cTyped, I2cGuest
  PROVE  I2cTyped'
<1> USE DEF I2cTyped, i2cBus, i2cInt, i2cDev
<1>1. ASSUME NEW a \in CmdArgs, I2cCommand(a[1], a[2])
      PROVE  I2cTyped'
  <2>1. a[1] \in 1 .. CmdRegs /\ a[2] \in Cmds
    BY I2cAssumption DEF Cmds
  <2> QED BY <1>1, <2>1 DEF I2cCommand, Mems, Byte
<1>2. ASSUME NEW b \in DataArgs, I2cPush(b)
      PROVE  I2cTyped'
  <2>1. b \in Byte
    BY I2cAssumption DEF Byte
  <2>2. CASE Len(i2c_tx) < FifoSize
    <3>1. i2c_tx' = Append(i2c_tx, b)
      BY <1>2, <2>2 DEF I2cPush
    <3>2. i2c_tx' \in Seq(Byte) /\ Len(i2c_tx') = Len(i2c_tx) + 1
      BY <2>1, <3>1
    <3>3. Len(i2c_tx') <= FifoSize
      BY <2>2, <3>2, I2cAssumption
    <3> QED BY <1>2, <3>2, <3>3 DEF I2cPush, Mems, Byte
  <2>3. CASE ~(Len(i2c_tx) < FifoSize)
    BY <1>2, <2>3 DEF I2cPush, Mems, Byte
  <2> QED BY <2>2, <2>3
<1>3. CASE I2cStart
  BY <1>3, I2cAssumption DEF I2cStart, Mems, Byte
<1>4. CASE I2cPop
  BY <1>4 DEF I2cPop, Mems, Byte
<1>5. ASSUME NEW tx \in BOOLEAN, NEW rx \in BOOLEAN, I2cFifoReset(tx, rx)
      PROVE  I2cTyped'
  <2>1. i2c_tx' \in Seq(Byte) /\ Len(i2c_tx') <= FifoSize
    BY <1>5, I2cAssumption DEF I2cFifoReset
  <2>2. i2c_rx' \in Seq(Byte) /\ Len(i2c_rx') <= FifoSize
        /\ i2c_rx_pos' \in 0 .. Len(i2c_rx')
    BY <1>5, I2cAssumption DEF I2cFifoReset
  <2> QED BY <1>5, <2>1, <2>2 DEF I2cFifoReset, Mems, Byte
<1>6. CASE I2cIntClr(I2cBits)
  BY <1>6 DEF I2cIntClr, Mems, Byte
<1>7. CASE I2cIntEna(I2cBits)
  BY <1>7 DEF I2cIntEna, Mems, Byte
<1> QED BY <1>1, <1>2, <1>3, <1>4, <1>5, <1>6, <1>7 DEF I2cGuest

LEMMA I2cTypedKept ==
  ASSUME I2cTyped, UNCHANGED i2cVars
  PROVE  I2cTyped'
BY DEF I2cTyped, i2cVars, i2cBus, i2cInt, i2cDev, Mems, Byte

LEMMA I2cTypedType == I2cTyped => I2cTypeOK
BY DEF I2cTyped, I2cTypeOK, Mems, Byte

----------------------------------------------------------------------------
(* The executor and the bus in step, byte by byte within a WRITE: x has    *)
(* executed k bytes of it, y has seen them.  The slave listens to the      *)
(* executor when the bus has it expect a pointer or data; it expects the   *)
(* address, and then the pointer, where the executor counts to them.       *)
InStep(x, y, k, heads, ptr0) ==
  /\ x.mem = y.mem /\ x.ptr = y.ptr /\ x.rx = y.rx /\ x.nack = y.nack
  /\ IF y.nack THEN ~x.active /\ y.want = "nothing" ELSE x.active = y.active
  /\ y.want \in {"pointer", "data"} => Listens(x)
  /\ y.want = "nothing" => ~Listens(x)
  /\ y.want = "address" => k = 0
  /\ y.want = "pointer" => heads /\ k = 1
  /\ y.want = "data" => ~(heads /\ k \in {0, 1}) /\ ~(ptr0 /\ k = 0)
  /\ y.want = "nothing" => ~(heads /\ k = 0)

LEMMA ByteInStep ==
  ASSUME NEW x \in Execs, NEW y \in Buses, NEW byte \in Byte, NEW k \in Nat,
         NEW heads \in BOOLEAN, NEW ptr0 \in BOOLEAN,
         InStep(x, y, k, heads, ptr0), y.want = "address" => heads
  PROVE  InStep(WriteByte(x, k + 1, byte, heads, ptr0), BusByte(y, byte), k + 1,
                heads, ptr0)
<1> DEFINE a == WriteByte(x, k + 1, byte, heads, ptr0)
           c == BusByte(y, byte)
<1> SUFFICES InStep(a, c, k + 1, heads, ptr0)
  OBVIOUS
<1>1. c \in Buses /\ a \in Execs
  BY BusByteIs, WriteByteIs
<1>2. a.rx = x.rx /\ c.rx = y.rx
  BY BusByteIs, WriteByteIs DEF Keeps, BusKeeps
<1>3. y.want \in {"nothing", "address", "pointer", "data"} /\ y.nack \in BOOLEAN
      /\ y.active \in BOOLEAN /\ x.active \in BOOLEAN
  BY DEF Buses, Execs
<1>4. CASE y.want = "address"
  <2>1. k = 0 /\ heads /\ ~y.nack
    BY <1>4 DEF InStep
  <2>2. a = Address(x, byte)
    BY <2>1 DEF WriteByte
  <2>3. /\ a.ptr = x.ptr /\ a.mem = x.mem
        /\ IF IsDevice(byte) THEN a.active /\ a.rw = IsRead(byte) /\ a.nack = x.nack
                             ELSE ~a.active /\ a.nack
    BY <2>2, AddressIs
  <2>4. /\ c.ptr = y.ptr /\ c.mem = y.mem
        /\ IF IsDevice(byte)
           THEN /\ c.active /\ c.nack = y.nack
                /\ c.want = IF IsRead(byte) THEN "nothing" ELSE "pointer"
           ELSE c.nack /\ c.want = "nothing"
    BY <1>4, BusByteIs
  <2>5. a.active \in BOOLEAN /\ a.nack \in BOOLEAN /\ c.active \in BOOLEAN
        /\ c.nack \in BOOLEAN
    BY <1>1 DEF Execs, Buses
  <2> HIDE DEF a, c
  <2> QED BY <1>2, <2>1, <2>3, <2>4, <2>5 DEF InStep, Listens
<1>5. CASE y.want = "pointer"
  <2>1. k = 1 /\ k + 1 = 2 /\ heads /\ Listens(x) /\ ~y.nack
    BY <1>5 DEF InStep
  <2>2. a = SetPointer(x, byte)
    BY <2>1 DEF WriteByte
  <2>3. /\ a.active = x.active /\ a.rw = x.rw /\ a.nack = x.nack
        /\ a.mem = x.mem /\ a.ptr = byte
    <3> HIDE DEF a
    <3> QED BY <2>1, <2>2, SetPointerIs
  <2>4. /\ c.want = "data" /\ c.ptr = byte /\ c.mem = y.mem
        /\ c.active = y.active /\ c.nack = y.nack
    BY <1>5, BusByteIs
  <2>5. k + 1 \notin {0, 1}
    BY <2>1
  <2> HIDE DEF a, c
  <2> QED BY <1>2, <1>5, <2>1, <2>3, <2>4, <2>5 DEF InStep, Listens
<1>6. CASE y.want = "data"
  <2>1. ~(heads /\ k \in {0, 1}) /\ ~(ptr0 /\ k = 0) /\ Listens(x) /\ ~y.nack
    BY <1>6 DEF InStep
  <2>2. a = StoreByte(x, byte)
    BY <2>1 DEF WriteByte
  <2>3. /\ a.active = x.active /\ a.rw = x.rw /\ a.nack = x.nack
        /\ a.mem = Put(x.mem, x.ptr, byte) /\ a.ptr = NextPtr(x.ptr)
    BY <2>1, <2>2, StoreByteIs
  <2>4. /\ c.want = "data" /\ c.ptr = NextPtr(y.ptr) /\ c.mem = Put(y.mem, y.ptr, byte)
        /\ c.active = y.active /\ c.nack = y.nack
    BY <1>6, BusByteIs
  <2>5. ~(heads /\ k + 1 \in {0, 1}) /\ ~(ptr0 /\ k + 1 = 0)
    BY <2>1
  <2> HIDE DEF a, c
  <2> QED BY <1>2, <1>6, <2>1, <2>3, <2>4, <2>5 DEF InStep, Listens
<1>7. CASE y.want = "nothing"
  <2>1. ~(heads /\ k = 0) /\ ~Listens(x)
    BY <1>7 DEF InStep
  <2>2. a = SetPointer(x, byte) \/ a = StoreByte(x, byte)
    BY <2>1 DEF WriteByte
  <2>3. /\ a.active = x.active /\ a.rw = x.rw /\ a.nack = x.nack
        /\ a.mem = x.mem /\ a.ptr = x.ptr
    BY <2>1, <2>2, SetPointerIs, StoreByteIs
  <2>4. c = y
    BY <1>7, BusByteIs
  <2>5. ~(heads /\ k + 1 = 0)
    OBVIOUS
  <2> HIDE DEF a, c
  <2> QED BY <1>2, <1>7, <2>1, <2>3, <2>4, <2>5 DEF InStep, Listens
<1> QED BY <1>3, <1>4, <1>5, <1>6, <1>7

(* Command by command: the same EEPROM, pointer, RX FIFO and NACK; after a *)
(* NACK the slave is not selected, before it the two are in step.          *)
Sim(w, b) ==
  /\ w.mem = b.mem /\ w.ptr = b.ptr /\ w.rx = b.rx /\ w.nack = b.nack
  /\ b.nack => ~w.active
  /\ ~b.nack =>
       /\ w.fifo = b.fifo /\ w.stop = b.stop /\ w.saw_stop = b.saw_stop
       /\ w.active = b.active
       /\ b.saw_stop => b.stop
       /\ w.phase => b.want = "address"
       /\ b.want = "address" /\ ~w.phase => w.fifo = <<>>
       /\ b.want \in {"pointer", "data"} => Listens(w)
       /\ b.want = "nothing" => ~Listens(w)
       /\ w.ptr0 => ~w.active

LEMMA WriteSim ==
  ASSUME NEW w \in Execs, NEW b \in Buses, NEW n \in Nat,
         Sim(w, b), ~b.nack, ~b.stop, b.want # "pointer",
         ~(b.want = "address" /\ n = 0)
  PROVE  Sim(DoWrite(w, n), BusWrite(b, n))
<1>1. /\ w.fifo \in Seq(Byte) /\ w.phase \in BOOLEAN /\ w.ptr0 \in BOOLEAN
      /\ b.fifo = w.fifo
  BY DEF Sim, Execs
<1>2. PICK m \in Nat : m = Burst(w.fifo, n)
  BY <1>1, BurstIs
<1>3. /\ m \in 0 .. Len(w.fifo) /\ \A k \in 1 .. m : w.fifo[k] \in Byte
      /\ m = 0 => n = 0 \/ w.fifo = <<>>
  <2>1. m \in 0 .. Len(w.fifo) /\ \A k \in 1 .. m : w.fifo[k] \in Byte
    BY <1>1, <1>2, BurstIs
  <2>2. m = 0 => n = 0 \/ Len(w.fifo) = 0
    BY <1>2 DEF Burst
  <2>3. Len(w.fifo) = 0 => w.fifo = <<>>
    BY <1>1, EmptySeq
  <2> QED BY <2>1, <2>2, <2>3
<1>4. PICK f : /\ f \in [0 .. m -> Execs]
               /\ f[0] = Rest(w, m)
               /\ \A k \in 1 .. m :
                      f[k] = WriteByte(f[k - 1], k, w.fifo[k], w.phase, w.ptr0)
               /\ DoWrite(w, n) = f[m]
  BY <1>2, WriteIs
<1>5. PICK g : /\ g \in [0 .. m -> Buses]
               /\ g[0] = BusRest(b, m)
               /\ \A k \in 1 .. m : g[k] = BusByte(g[k - 1], w.fifo[k])
               /\ BusWrite(b, n) = g[m]
  BY <1>1, <1>2, BusWriteIs
<1>6. /\ f[0].fifo = SubSeq(w.fifo, m + 1, Len(w.fifo))
      /\ ~f[0].phase /\ f[0].ptr0 = (w.ptr0 /\ m = 0)
      /\ f[0].active = w.active /\ f[0].rw = w.rw /\ f[0].nack = w.nack
      /\ f[0].ptr = w.ptr /\ f[0].mem = w.mem /\ f[0].rx = w.rx /\ f[0].stop = w.stop
      /\ f[0].saw_stop = w.saw_stop
  BY <1>3, <1>4, RestIs
<1>7. /\ g[0].fifo = SubSeq(w.fifo, m + 1, Len(w.fifo))
      /\ g[0].want = b.want /\ g[0].active = b.active /\ g[0].nack = b.nack
      /\ g[0].ptr = b.ptr /\ g[0].mem = b.mem /\ g[0].rx = b.rx /\ g[0].stop = b.stop
      /\ g[0].saw_stop = b.saw_stop
  <2>1. m \in 0 .. Len(b.fifo)
    BY <1>1, <1>3
  <2> QED BY <1>1, <1>5, <2>1, BusRestIs
<1> DEFINE At(k) == /\ InStep(f[k], g[k], k, w.phase, w.ptr0)
                    /\ f[k].fifo = f[0].fifo /\ f[k].ptr0 = f[0].ptr0
                    /\ f[k].phase = f[0].phase /\ f[k].stop = f[0].stop
                    /\ f[k].saw_stop = f[0].saw_stop
                    /\ BusKeeps(g[k], g[0])
           Done == {k \in Nat : k <= m => At(k)}
<1>8. At(0)
  <2>1. InStep(f[0], g[0], 0, w.phase, w.ptr0)
    <3>1. b.want \in {"nothing", "address", "data"} /\ w.active \in BOOLEAN
      BY DEF Buses, Execs
    <3> QED BY <3>1, <1>6, <1>7 DEF Sim, InStep, Listens
  <2> QED BY <2>1 DEF BusKeeps
<1>9. ASSUME NEW k \in Nat, k + 1 <= m, At(k)
      PROVE  At(k + 1)
  <2>1. k \in 0 .. m /\ k + 1 \in 1 .. m /\ (k + 1) - 1 = k
    BY <1>9
  <2>2. f[k] \in Execs /\ g[k] \in Buses /\ w.fifo[k + 1] \in Byte
    BY <1>3, <1>4, <1>5, <2>1
  <2>3. /\ f[k + 1] = WriteByte(f[k], k + 1, w.fifo[k + 1], w.phase, w.ptr0)
        /\ g[k + 1] = BusByte(g[k], w.fifo[k + 1])
    BY <1>4, <1>5, <2>1
  <2>4. g[k].want = "address" => w.phase
    <3> SUFFICES ASSUME g[k].want = "address" PROVE w.phase
      OBVIOUS
    <3>1. k = 0 /\ b.want = "address"
      BY <1>7, <1>9 DEF InStep
    <3>2. w.fifo # <<>>
      BY <1>3, <2>1
    <3> QED BY <3>1, <3>2 DEF Sim
  <2>5. InStep(f[k + 1], g[k + 1], k + 1, w.phase, w.ptr0)
    BY <1>1, <1>9, <2>2, <2>3, <2>4, ByteInStep
  <2>6. Keeps(f[k + 1], f[k]) /\ BusKeeps(g[k + 1], g[k])
    BY <2>2, <2>3, WriteByteIs, BusByteIs
  <2> QED BY <1>9, <2>5, <2>6 DEF Keeps, BusKeeps
<1>10. At(m)
  <2>1. 0 \in Done
    BY <1>8
  <2>2. \A k \in Nat : k \in Done => k + 1 \in Done
    <3> SUFFICES ASSUME NEW k \in Nat, k \in Done, k + 1 <= m PROVE At(k + 1)
      OBVIOUS
    <3>1. At(k)
      BY <1>2
    <3> HIDE DEF At
    <3> QED BY <1>9, <3>1
  <2> HIDE DEF Done
  <2>3. m \in Done
    BY <1>2, <2>1, <2>2, NatClosure
  <2> QED BY <1>2, <2>3 DEF Done
<1>11. Sim(f[m], g[m])
  <2>1. f[m] \in Execs /\ g[m] \in Buses
    BY <1>2, <1>4, <1>5
  <2>2. ~f[m].phase /\ f[m].fifo = g[m].fifo
        /\ f[m].stop = g[m].stop /\ f[m].saw_stop = g[m].saw_stop /\ ~g[m].saw_stop
    BY <1>6, <1>7, <1>10 DEF BusKeeps, Sim
  <2>3. g[m].want = "address" => f[m].fifo = <<>>
    <3> SUFFICES ASSUME g[m].want = "address" PROVE f[m].fifo = <<>>
      OBVIOUS
    <3>1. m = 0 /\ b.want = "address"
      BY <1>7, <1>10 DEF InStep
    <3>2. w.fifo = <<>>
      BY <1>3, <3>1
    <3>3. SubSeq(w.fifo, 1, Len(w.fifo)) = <<>>
      BY <3>2
    <3> QED BY <1>6, <3>1, <3>3
  <2>4. f[m].ptr0 => ~f[m].active
    <3> SUFFICES ASSUME f[m].ptr0 PROVE ~f[m].active
      OBVIOUS
    <3>1. m = 0 /\ w.ptr0
      BY <1>6, <1>10
    <3> QED BY <1>6, <3>1 DEF Sim
  <2> QED BY <1>10, <2>2, <2>3, <2>4 DEF InStep, Sim
<1> QED BY <1>4, <1>5, <1>11

(* A WRITE after a NACK that leaves the slave unselected changes nothing   *)
(* of it: the first byte is no address of the slave, the others are not    *)
(* listened to.                                                            *)
LEMMA NackedWrite ==
  ASSUME NEW w \in Execs, NEW n \in Nat, w.nack, ~w.active
  PROVE  LET a == DoWrite(w, n)
         IN  /\ a.rx = w.rx /\ a.nack = w.nack
             /\ ~a.active => a.mem = w.mem /\ a.ptr = w.ptr
<1>1. w.fifo \in Seq(Byte)
  BY DEF Execs
<1>2. PICK m \in Nat : m = Burst(w.fifo, n)
  BY <1>1, BurstIs
<1>3. m \in 0 .. Len(w.fifo) /\ \A k \in 1 .. m : w.fifo[k] \in Byte
  BY <1>1, <1>2, BurstIs
<1>4. PICK f : /\ f \in [0 .. m -> Execs]
               /\ f[0] = Rest(w, m)
               /\ \A k \in 1 .. m :
                      f[k] = WriteByte(f[k - 1], k, w.fifo[k], w.phase, w.ptr0)
               /\ DoWrite(w, n) = f[m]
  BY <1>2, WriteIs
<1>5. /\ f[0].active = w.active /\ f[0].nack = w.nack
      /\ f[0].ptr = w.ptr /\ f[0].mem = w.mem /\ f[0].rx = w.rx
  <2> DEFINE a == Rest(w, m)
  <2>1. a.active = w.active /\ a.nack = w.nack /\ a.ptr = w.ptr /\ a.mem = w.mem
        /\ a.rx = w.rx
    BY <1>3, RestIs, Zenon
  <2> HIDE DEF a
  <2>2. f[0] = a
    BY <1>4 DEF a
  <2> QED BY <2>1, <2>2
<1> DEFINE Selected(k) == w.phase /\ k >= 1 /\ IsDevice(w.fifo[1])
           At(k) == /\ f[k].rx = w.rx /\ f[k].nack = w.nack
                    /\ IF Selected(k) THEN f[k].active
                       ELSE ~f[k].active /\ f[k].mem = w.mem /\ f[k].ptr = w.ptr
           Done == {k \in Nat : k <= m => At(k)}
<1>6. At(0)
  BY <1>5
<1>7. ASSUME NEW k \in Nat, k + 1 <= m, At(k)
      PROVE  At(k + 1)
  <2> DEFINE a == f[k + 1]
             byte == w.fifo[k + 1]
  <2>1. k \in 0 .. m /\ k + 1 \in 1 .. m /\ (k + 1) - 1 = k
    BY <1>7
  <2>2. f[k] \in Execs /\ byte \in Byte /\ a \in Execs
    BY <1>3, <1>4, <2>1
  <2>3. a = WriteByte(f[k], k + 1, byte, w.phase, w.ptr0)
    BY <1>4, <2>1
  <2>4. a.rx = f[k].rx
    BY <2>2, <2>3, WriteByteIs DEF Keeps
  <2>5. CASE k = 0 /\ w.phase
    <3>1. a = Address(f[k], byte) /\ byte = w.fifo[1] /\ ~Selected(k)
          /\ (Selected(k + 1) <=> IsDevice(byte))
      BY <2>3, <2>5 DEF WriteByte
    <3> HIDE DEF a, byte
    <3>2. /\ a.ptr = f[k].ptr /\ a.mem = f[k].mem
          /\ IF IsDevice(byte) THEN a.active /\ a.nack = f[k].nack
                               ELSE ~a.active /\ a.nack
      BY <2>2, <3>1, AddressIs
    <3>3. w.nack = TRUE /\ a.nack \in BOOLEAN
      BY <2>2 DEF Execs
    <3> QED BY <1>7, <2>4, <3>1, <3>2, <3>3 DEF a
  <2>6. CASE ~(k = 0 /\ w.phase)
    <3>1. (Selected(k + 1) <=> Selected(k)) /\ ~(k + 1 = 1 /\ w.phase)
      BY <2>6
    <3>2. a = SetPointer(f[k], byte) \/ a = StoreByte(f[k], byte)
      BY <2>3, <3>1 DEF WriteByte
    <3> HIDE DEF a, byte, Selected
    <3>3. /\ a.active = f[k].active /\ a.nack = f[k].nack
          /\ ~f[k].active => a.mem = f[k].mem /\ a.ptr = f[k].ptr
      BY <2>2, <3>2, SetPointerIs, StoreByteIs DEF Listens
    <3> QED BY <1>7, <2>4, <3>1, <3>3 DEF a
  <2> QED BY <2>5, <2>6
<1> HIDE DEF At
<1>8. At(m)
  <2>1. 0 \in Done
    BY <1>6
  <2>2. \A k \in Nat : k \in Done => k + 1 \in Done
    <3> SUFFICES ASSUME NEW k \in Nat, k \in Done, k + 1 <= m PROVE At(k + 1)
      OBVIOUS
    <3>1. At(k)
      BY <1>2
    <3> QED BY <1>7, <3>1
  <2> HIDE DEF Done
  <2>3. m \in Done
    BY <1>2, <2>1, <2>2, NatClosure
  <2> QED BY <1>2, <2>3 DEF Done
<1> QED BY <1>4, <1>8 DEF At

(* One command keeps the two together.                                     *)
LEMMA StepSim ==
  ASSUME NEW w \in Execs, NEW b \in Buses, NEW cmd \in Cmds, Sim(w, b),
         ~(~b.stop /\ cmd.op = "write" /\ b.want = "pointer"),
         ~(~b.stop /\ cmd.op = "write" /\ b.want = "address" /\ cmd.n = 0),
         ~(Step(w, cmd).nack /\ Step(w, cmd).active)
  PROVE  Sim(Step(w, cmd), BusStep(b, cmd))
<1>1. cmd.op \in {"rstart", "write", "read", "stop", "end", "none"}
  BY DEF Cmds, Ops
<1>2. PICK n \in Nat : n = cmd.n
  BY DEF Cmds
<1>3. CASE b.nack
  <2>1. BusStep(b, cmd) = b /\ w.nack /\ ~w.active
    BY <1>3 DEF BusStep, Sim
  <2> SUFFICES /\ Step(w, cmd).mem = w.mem /\ Step(w, cmd).ptr = w.ptr
               /\ Step(w, cmd).rx = w.rx /\ Step(w, cmd).nack = w.nack
               /\ ~Step(w, cmd).active
    BY <1>3, <2>1 DEF Sim
  <2>2. CASE w.stop
    BY <2>1, <2>2 DEF Step
  <2>3. CASE ~w.stop /\ cmd.op = "write"
    <3>1. Step(w, cmd) = DoWrite(w, n)
      BY <1>2, <2>3 DEF Step
    <3> QED BY <2>1, <3>1, NackedWrite
  <2>4. CASE ~w.stop /\ cmd.op = "read"
    <3>1. Step(w, cmd) = DoRead(w, n)
      BY <1>2, <2>4 DEF Step
    <3>2. w.nack = TRUE
      BY <2>1 DEF Execs
    <3> DEFINE a == DoRead(w, n)
    <3>3. a.active = w.active /\ a.mem = w.mem
      BY ReadIs
    <3>4. a.nack = (w.nack \/ ~w.active)
      BY ReadIs
    <3>5. a.rx = w.rx /\ a.ptr = w.ptr
      BY <3>2, ReadIs
    <3> HIDE DEF a
    <3> QED BY <2>1, <3>1, <3>2, <3>3, <3>4, <3>5 DEF a
  <2>5. CASE ~w.stop /\ cmd.op = "rstart"
    <3> DEFINE a == [w EXCEPT !.phase = TRUE]
    <3>1. Step(w, cmd) = a
      BY <2>5 DEF Step
    <3>2. a.mem = w.mem /\ a.ptr = w.ptr /\ a.rx = w.rx /\ a.nack = w.nack
          /\ a.active = w.active
      BY DEF Execs
    <3> QED BY <2>1, <3>1, <3>2
  <2>6. CASE ~w.stop /\ cmd.op = "stop"
    <3> DEFINE a == [w EXCEPT !.stop = TRUE, !.saw_stop = TRUE]
    <3>1. Step(w, cmd) = a
      BY <2>6 DEF Step
    <3>2. a.mem = w.mem /\ a.ptr = w.ptr /\ a.rx = w.rx /\ a.nack = w.nack
          /\ a.active = w.active
      BY DEF Execs
    <3> QED BY <2>1, <3>1, <3>2
  <2>7. CASE ~w.stop /\ cmd.op \in {"none", "end"}
    <3> DEFINE a == [w EXCEPT !.stop = TRUE]
    <3>1. Step(w, cmd) = a
      BY <2>7 DEF Step
    <3>2. a.mem = w.mem /\ a.ptr = w.ptr /\ a.rx = w.rx /\ a.nack = w.nack
          /\ a.active = w.active
      BY DEF Execs
    <3> QED BY <2>1, <3>1, <3>2
  <2> QED BY <1>1, <2>2, <2>3, <2>4, <2>5, <2>6, <2>7
<1>4. CASE ~b.nack /\ b.stop
  <2>1. w.stop
    BY <1>4 DEF Sim
  <2> QED BY <1>4, <2>1 DEF Step, BusStep
<1>5. CASE ~b.nack /\ ~b.stop
  <2>1. ~w.stop /\ ~w.nack
    BY <1>5 DEF Sim
  <2>2. CASE cmd.op = "write"
    <3>1. Step(w, cmd) = DoWrite(w, n) /\ BusStep(b, cmd) = BusWrite(b, n)
      BY <1>2, <1>5, <2>1, <2>2 DEF Step, BusStep
    <3>2. b.want # "pointer" /\ ~(b.want = "address" /\ n = 0)
      BY <1>2, <1>5, <2>2
    <3> QED BY <1>5, <3>1, <3>2, WriteSim
  <2>3. CASE cmd.op = "read"
    <3>1. Step(w, cmd) = DoRead(w, n) /\ BusStep(b, cmd) = BusRead(b, n)
      BY <1>2, <1>5, <2>1, <2>3 DEF Step, BusStep
    <3> DEFINE a == DoRead(w, n)
               c == BusRead(b, n)
    <3>2. /\ a.fifo = w.fifo /\ a.ptr0 = w.ptr0 /\ a.phase = w.phase
          /\ a.active = w.active /\ a.rw = w.rw /\ a.saw_stop = w.saw_stop
          /\ a.mem = w.mem /\ a.stop = w.stop
          /\ a.nack = ~w.active
          /\ IF ~w.active THEN a.rx = w.rx /\ a.ptr = w.ptr
             ELSE /\ a.rx = Received(w.rx, w.mem, w.ptr, n)
                  /\ a.ptr = PtrAfter(w.rx, w.ptr, n)
      <4>1. w.nack = FALSE /\ w.stop \in BOOLEAN /\ w.active \in BOOLEAN
        BY <2>1 DEF Execs
      <4> QED BY <4>1, ReadIs
    <3>3. /\ c.fifo = b.fifo /\ c.want = b.want /\ c.active = b.active
          /\ c.mem = b.mem /\ c.stop = b.stop /\ c.saw_stop = b.saw_stop
          /\ c.nack = ~b.active
          /\ IF ~b.active THEN c.rx = b.rx /\ c.ptr = b.ptr
             ELSE /\ c.rx = Received(b.rx, b.mem, b.ptr, n)
                  /\ c.ptr = PtrAfter(b.rx, b.ptr, n)
      <4>1. b.nack = FALSE /\ b.active \in BOOLEAN
        BY <1>5 DEF Buses
      <4> QED BY <4>1, BusReadIs
    <3>4. w.active = b.active /\ w.active \in BOOLEAN
      BY <1>5 DEF Sim, Execs
    <3> HIDE DEF a, c
    <3>5. Sim(a, c)
      BY <1>5, <3>2, <3>3, <3>4 DEF Sim, Listens
    <3> QED BY <3>1, <3>5 DEF a, c
  <2>4. CASE cmd.op = "rstart"
    <3> DEFINE a == [w EXCEPT !.phase = TRUE]
               c == [b EXCEPT !.want = "address"]
    <3>1. Step(w, cmd) = a /\ BusStep(b, cmd) = c
      BY <1>5, <2>1, <2>4 DEF Step, BusStep
    <3>2. /\ a.fifo = w.fifo /\ a.ptr0 = w.ptr0 /\ a.phase
          /\ a.active = w.active /\ a.rw = w.rw /\ a.saw_stop = w.saw_stop
          /\ a.mem = w.mem /\ a.stop = w.stop
          /\ a.nack = w.nack /\ a.rx = w.rx /\ a.ptr = w.ptr
      BY DEF Execs
    <3>3. /\ c.fifo = b.fifo /\ c.want = "address" /\ c.active = b.active
          /\ c.mem = b.mem /\ c.stop = b.stop /\ c.saw_stop = b.saw_stop
          /\ c.nack = b.nack /\ c.rx = b.rx /\ c.ptr = b.ptr
      BY DEF Buses
    <3> HIDE DEF a, c
    <3>4. Sim(a, c)
      BY <1>5, <3>2, <3>3 DEF Sim, Listens
    <3> QED BY <3>1, <3>4
  <2>5. CASE cmd.op = "stop"
    <3> DEFINE a == [w EXCEPT !.stop = TRUE, !.saw_stop = TRUE]
               c == [b EXCEPT !.stop = TRUE, !.saw_stop = TRUE]
    <3>1. Step(w, cmd) = a /\ BusStep(b, cmd) = c
      BY <1>5, <2>1, <2>5 DEF Step, BusStep
    <3>2. /\ a.fifo = w.fifo /\ a.ptr0 = w.ptr0 /\ a.phase = w.phase
          /\ a.active = w.active /\ a.rw = w.rw /\ a.saw_stop = TRUE
          /\ a.mem = w.mem /\ a.stop = TRUE
          /\ a.nack = w.nack /\ a.rx = w.rx /\ a.ptr = w.ptr
      BY DEF Execs
    <3>3. /\ c.fifo = b.fifo /\ c.want = b.want /\ c.active = b.active
          /\ c.mem = b.mem /\ c.stop = TRUE /\ c.saw_stop = TRUE
          /\ c.nack = b.nack /\ c.rx = b.rx /\ c.ptr = b.ptr
      BY DEF Buses
    <3> HIDE DEF a, c
    <3>4. Sim(a, c)
      BY <1>5, <3>2, <3>3 DEF Sim, Listens
    <3> QED BY <3>1, <3>4
  <2>6. CASE cmd.op \in {"none", "end"}
    <3> DEFINE a == [w EXCEPT !.stop = TRUE]
               c == [b EXCEPT !.stop = TRUE, !.saw_stop = FALSE]
    <3>1. Step(w, cmd) = a /\ BusStep(b, cmd) = c
      BY <1>5, <2>1, <2>6 DEF Step, BusStep
    <3>2. /\ a.fifo = w.fifo /\ a.ptr0 = w.ptr0 /\ a.phase = w.phase
          /\ a.active = w.active /\ a.rw = w.rw /\ a.saw_stop = w.saw_stop
          /\ a.mem = w.mem /\ a.stop = TRUE
          /\ a.nack = w.nack /\ a.rx = w.rx /\ a.ptr = w.ptr
      BY DEF Execs
    <3>3. /\ c.fifo = b.fifo /\ c.want = b.want /\ c.active = b.active
          /\ c.mem = b.mem /\ c.stop = TRUE /\ c.saw_stop = FALSE
          /\ c.nack = b.nack /\ c.rx = b.rx /\ c.ptr = b.ptr
      BY DEF Buses
    <3>4. w.saw_stop = FALSE
      BY <1>5 DEF Sim, Execs
    <3> HIDE DEF a, c
    <3>5. Sim(a, c)
      BY <1>5, <3>2, <3>3, <3>4 DEF Sim, Listens
    <3> QED BY <3>1, <3>5
  <2> QED BY <1>1, <2>2, <2>3, <2>4, <2>5, <2>6
<1> QED BY <1>3, <1>4, <1>5

----------------------------------------------------------------------------
(* The executor follows the bus.                                           *)

LEMMA FollowsBus == I2cTyped => WalkFollowsBus
<1> SUFFICES ASSUME I2cTyped, ~AddressAlone, ~AddressMissing, ~SelectsAfterNack
             PROVE  RoundIsBus
  BY DEF WalkFollowsBus
<1>1. CmdRegs \in Nat
  BY I2cAssumption
<1>2. /\ WalkTo \in [0 .. CmdRegs -> Execs] /\ WalkTo[0] = Round
      /\ \A c \in 1 .. CmdRegs : WalkTo[c] = Step(WalkTo[c - 1], i2c_cmd[c])
  BY WalkIs
<1>3. /\ BusTo \in [0 .. CmdRegs -> Buses] /\ BusTo[0] = BusRound
      /\ \A c \in 1 .. CmdRegs : BusTo[c] = BusStep(BusTo[c - 1], i2c_cmd[c])
  BY BusIs
<1> DEFINE Done == {c \in Nat : c <= CmdRegs => Sim(WalkTo[c], BusTo[c])}
<1>4. 0 \in Done
  <2>1. Sim(Round, BusRound)
    BY DEF Sim, Round, BusRound, Listens
  <2> QED BY <1>2, <1>3, <2>1
<1>5. ASSUME NEW c \in Nat, c \in Done
      PROVE  c + 1 \in Done
  <2> SUFFICES ASSUME c + 1 <= CmdRegs
               PROVE  Sim(WalkTo[c + 1], BusTo[c + 1])
    OBVIOUS
  <2>1. /\ c + 1 \in 1 .. CmdRegs /\ (c + 1) - 1 = c /\ c \in 0 .. CmdRegs
        /\ c + 1 \in 0 .. CmdRegs
    BY <1>1
  <2>2. Sim(WalkTo[c], BusTo[c])
    BY <1>5, <2>1
  <2>3. WalkTo[c] \in Execs /\ BusTo[c] \in Buses /\ i2c_cmd[c + 1] \in Cmds
    BY <1>2, <1>3, <2>1 DEF I2cTyped
  <2>4. /\ WalkTo[c + 1] = Step(WalkTo[c], i2c_cmd[c + 1])
        /\ BusTo[c + 1] = BusStep(BusTo[c], i2c_cmd[c + 1])
    BY <1>2, <1>3, <2>1
  <2>5. /\ ~(~BusTo[c].stop /\ i2c_cmd[c + 1].op = "write" /\ BusTo[c].want = "pointer")
        /\ ~(~BusTo[c].stop /\ i2c_cmd[c + 1].op = "write" /\ BusTo[c].want = "address"
             /\ i2c_cmd[c + 1].n = 0)
    BY <2>1 DEF AddressAlone, AddressMissing, WritesTo
  <2>6. ~(WalkTo[c + 1].nack /\ WalkTo[c + 1].active)
    BY <2>1 DEF SelectsAfterNack
  <2> QED BY <2>2, <2>3, <2>4, <2>5, <2>6, StepSim
<1> HIDE DEF Done
<1>6. CmdRegs \in Done
  BY <1>1, <1>4, <1>5, NatClosure
<1>7. Sim(Walk, Bus)
  BY <1>1, <1>6 DEF Done, Walk, Bus
<1> QED BY <1>7 DEF Sim, RoundIsBus, Event
=============================================================================
