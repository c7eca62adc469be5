-------------------------- MODULE P4DevicesProofs --------------------------
(***************************************************************************)
(* Proofs about the devices under their one clock.  The invariants of the  *)
(* GDMA, of the pads with the pulse counter, of MCPWM and of TWAI are      *)
(* proved here; those of the UART, the timers and the I2C controller come  *)
(* from their own modules, and are carried over to P4Devices, where every  *)
(* device is polled in every step of esp32p4_periodic.                     *)
(***************************************************************************)
EXTENDS P4Devices, P4UartProofs, P4TimersProofs, P4I2cProofs

----------------------------------------------------------------------------
(* GDMA: types.                                                            *)

LEMMA LoadType ==
  ASSUME NEW w \in Walkers, NEW addr \in Nat
  PROVE  Load(w, addr) \in Walkers
<1>1. addr \in DescAddrs => Descs[addr] \in DescFields
  BY GdmaAssumption
<1> QED BY <1>1 DEF Load, Walkers, DescFields

LEMMA AdvancedType ==
  ASSUME NEW w \in Walkers
  PROVE  Advanced(w) \in Walkers
<1>1. w.next \in Nat
  BY DEF Walkers
<1>2. [w EXCEPT !.run = FALSE] \in Walkers
  BY DEF Walkers
<1> QED BY <1>1, <1>2, LoadType DEF Advanced

LEMMA StartedType ==
  ASSUME NEW w \in Walkers, NEW addr \in Nat
  PROVE  Started(w, addr) \in Walkers
<1>1. Load(w, addr) \in Walkers
  BY LoadType
<1> QED BY <1>1 DEF Started, Walkers

(* What one poll moves for TX.                                             *)
LEMMA TxFilledIs ==
  ASSUME GdmaTypeOK
  PROVE  /\ TxFilled.w \in Walkers /\ TxFilled.fifo \in 0 .. FifoDepth
         /\ TxFilled.k \in Nat /\ TxFilled.w.left = tx.left - TxFilled.k
         /\ TxFilled.w.desc = tx.desc /\ TxFilled.w.next = tx.next
         /\ TxFilled.w.run => tx.run
<1> DEFINE drained == IF tx_fifo > 0 THEN tx_fifo - 1 ELSE 0
           room == FifoDepth - drained
           k == IF tx.buf = NoRam THEN 0 ELSE IF tx.left <= room THEN tx.left ELSE room
           bad == tx.buf = NoRam /\ tx.left > 0 /\ room > 0
           w == [tx EXCEPT !.left = @ - k, !.run = @ /\ ~bad]
<1>1. tx \in Walkers /\ tx_fifo \in 0 .. FifoDepth /\ FifoDepth \in Nat \ {0}
  BY GdmaAssumption DEF GdmaTypeOK
<1>2. tx.left \in Nat /\ tx.run \in BOOLEAN
  BY <1>1 DEF Walkers
<1>3. drained \in 0 .. FifoDepth /\ room \in Nat /\ k \in Nat /\ k <= tx.left /\ k <= room
  BY <1>1, <1>2
<1> HIDE DEF k
<1> DEFINE left == tx.left - k
           run == tx.run /\ ~bad
<1>4. left \in Nat /\ run \in BOOLEAN /\ w = [tx EXCEPT !.left = left, !.run = run]
  BY <1>2, <1>3
<1> HIDE DEF left, run, w
<1>5. /\ w \in Walkers /\ w.left = left /\ (w.run <=> run)
      /\ w.desc = tx.desc /\ w.next = tx.next
  <2>1. tx \in Walkers
    BY <1>1
  <2>2. w \in Walkers
    BY <2>1, <1>4 DEF Walkers
  <2>3. w.left = left /\ (w.run <=> run)
    BY <2>1, <1>4 DEF Walkers
  <2>4. w.desc = tx.desc /\ w.buf = tx.buf /\ w.next = tx.next
    BY <2>1, <1>4 DEF Walkers
  <2> QED BY <2>2, <2>3, <2>4
<1>6. drained + k \in 0 .. FifoDepth
  BY <1>1, <1>3
<1>7. TxFilled = [fifo |-> drained + k, k |-> k, w |-> w]
  BY DEF TxFilled, k, w
<1> QED BY <1>2, <1>3, <1>5, <1>6, <1>7 DEF left, run

(* ... and for RX.                                                         *)
LEMMA RxFilledIs ==
  ASSUME GdmaTypeOK, rx_sample < MaxSample
  PROVE  /\ RxFilled.w \in Walkers
         /\ RxFilled.fifo \in Seq(Nat) /\ Len(RxFilled.fifo) <= FifoDepth
         /\ RxFilled.sample \in 0 .. MaxSample
         /\ RxFilled.stored \in Seq(Nat)
         /\ RxFilled.w.left = rx.left - Len(RxFilled.stored)
         /\ RxFilled.w.left \in Nat
         /\ RxFilled.w.desc = rx.desc /\ RxFilled.w.buf = rx.buf
         /\ RxFilled.w.next = rx.next
         /\ RxFilled.w.run <=> rx.run /\ ~RxFilled.bad
         /\ RxFilled.bad <=> rx.left > 0 /\ rx.buf = NoRam
         /\ ~RxFilled.bad => RxFilled.stored \o RxFilled.fifo
                               = IF RxFilled.sample = rx_sample THEN rx_fifo
                                 ELSE Append(rx_fifo, rx_sample)
         /\ RxFilled.sample \in {rx_sample, rx_sample + 1}
         /\ RxFilled.bad =>
              /\ RxFilled.stored = <<>>
              /\ RxFilled.fifo = Tail(IF RxFilled.sample = rx_sample THEN rx_fifo
                                      ELSE Append(rx_fifo, rx_sample))
              /\ (IF RxFilled.sample = rx_sample THEN rx_fifo
                                      ELSE Append(rx_fifo, rx_sample)) # <<>>
<1> DEFINE fits == Len(rx_fifo) < FifoDepth
           full == IF fits THEN Append(rx_fifo, rx_sample) ELSE rx_fifo
           copy == rx.left > 0
           bad == copy /\ rx.buf = NoRam
           sample == IF fits THEN rx_sample + 1 ELSE rx_sample
           stored == IF copy /\ ~bad THEN <<Head(full)>> ELSE <<>>
           fifo == IF copy THEN Tail(full) ELSE full
           w == [rx EXCEPT !.left = IF copy /\ ~bad THEN @ - 1 ELSE @,
                           !.run = @ /\ ~bad]
<1>1. /\ rx \in Walkers /\ rx_fifo \in Seq(Nat) /\ Len(rx_fifo) <= FifoDepth
      /\ rx_sample \in Nat /\ FifoDepth \in Nat \ {0} /\ MaxSample \in Nat
  BY GdmaAssumption DEF GdmaTypeOK
<1>2. rx.left \in Nat /\ rx.run \in BOOLEAN
  BY <1>1 DEF Walkers
<1>3. full \in Seq(Nat) /\ Len(full) <= FifoDepth /\ Len(full) >= 1 /\ full # <<>>
  <2>1. CASE fits
    BY <1>1, <2>1
  <2>2. CASE ~fits
    <3>1. Len(rx_fifo) = FifoDepth /\ full = rx_fifo
      BY <1>1, <2>2
    <3> QED BY <1>1, <3>1
  <2> QED BY <2>1, <2>2
<1>4. sample \in 0 .. MaxSample /\ sample \in {rx_sample, rx_sample + 1}
      /\ full = IF sample = rx_sample THEN rx_fifo ELSE Append(rx_fifo, rx_sample)
  BY <1>1
<1> HIDE DEF full, sample
<1>5. /\ Head(full) \in Nat /\ Tail(full) \in Seq(Nat) /\ Len(Tail(full)) = Len(full) - 1
      /\ <<Head(full)>> \in Seq(Nat) /\ <<Head(full)>> \o Tail(full) = full
      /\ <<>> \o full = full
  <2>1. /\ Head(full) \in Nat /\ Tail(full) \in Seq(Nat) /\ Len(Tail(full)) = Len(full) - 1
        /\ Head(full) = full[1] /\ \A i \in 1 .. Len(Tail(full)) : Tail(full)[i] = full[i + 1]
    BY <1>3, HeadTailProperties
  <2>2. <<Head(full)>> \in Seq(Nat) /\ Len(<<Head(full)>>) = 1 /\ <<Head(full)>>[1] = Head(full)
    BY <2>1
  <2> DEFINE c == <<Head(full)>> \o Tail(full)
  <2>3. /\ c \in Seq(Nat) /\ Len(c) = 1 + Len(Tail(full))
        /\ \A i \in 1 .. 1 + Len(Tail(full)) :
             c[i] = IF i <= 1 THEN <<Head(full)>>[i] ELSE Tail(full)[i - 1]
    BY <2>1, <2>2, ConcatProperties
  <2> HIDE DEF c
  <2>4. Len(c) = Len(full) /\ \A i \in 1 .. Len(c) : c[i] = full[i]
    BY <2>1, <2>2, <2>3, <1>3
  <2>5. c = full
    BY <2>3, <2>4, <1>3, SeqEqual
  <2> QED BY <2>1, <2>2, <2>5, <1>3, ConcatEmptySeq DEF c
<1>6. /\ fifo \in Seq(Nat) /\ Len(fifo) <= FifoDepth /\ stored \in Seq(Nat)
      /\ Len(stored) = IF copy /\ ~bad THEN 1 ELSE 0
      /\ ~bad => stored \o fifo = full
      /\ bad => stored = <<>> /\ fifo = Tail(full)
  <2>1. CASE copy /\ ~bad
    <3>1. fifo = Tail(full) /\ stored = <<Head(full)>> /\ Len(<<Head(full)>>) = 1
      BY <2>1
    <3> HIDE DEF fifo, stored
    <3> QED BY <1>1, <1>3, <1>5, <2>1, <3>1
  <2>2. CASE bad
    <3>1. fifo = Tail(full) /\ stored = <<>> /\ <<>> \in Seq(Nat) /\ Len(<<>>) = 0
      BY <2>2
    <3> HIDE DEF fifo, stored
    <3>2. fifo \in Seq(Nat) /\ Len(fifo) <= FifoDepth
      BY <1>1, <1>3, <1>5, <3>1
    <3> QED BY <2>2, <3>1, <3>2
  <2>3. CASE ~copy
    <3>1. fifo = full /\ stored = <<>> /\ <<>> \in Seq(Nat) /\ Len(<<>>) = 0
      BY <2>3
    <3> HIDE DEF fifo, stored
    <3>2. ~bad /\ stored \o fifo = full
      BY <1>5, <2>3, <3>1
    <3> QED BY <1>1, <1>3, <2>3, <3>1, <3>2
  <2> QED BY <2>1, <2>2, <2>3
<1> HIDE DEF stored, fifo
<1> DEFINE left == IF copy /\ ~bad THEN rx.left - 1 ELSE rx.left
           run == rx.run /\ ~bad
<1>7. left \in Nat /\ left = rx.left - Len(stored) /\ run \in BOOLEAN
  BY <1>2, <1>6
<1>8. w = [rx EXCEPT !.left = left, !.run = run]
  OBVIOUS
<1> HIDE DEF w, left, run
<1>9. /\ w \in Walkers /\ w.left = left /\ (w.run <=> run)
      /\ w.desc = rx.desc /\ w.buf = rx.buf /\ w.next = rx.next
  <2>1. rx \in Walkers /\ left \in Nat /\ run \in BOOLEAN
    BY <1>1, <1>7
  <2>2. w \in Walkers
    BY <2>1, <1>8 DEF Walkers
  <2>3. w.left = left /\ (w.run <=> run)
    BY <2>1, <1>8 DEF Walkers
  <2>4. w.desc = rx.desc /\ w.buf = rx.buf /\ w.next = rx.next
    BY <2>1, <1>8 DEF Walkers
  <2> QED BY <2>2, <2>3, <2>4
<1>10. w.left \in Nat /\ w.left = rx.left - Len(stored) /\ (w.run <=> rx.run /\ ~bad)
  BY <1>7, <1>9 DEF run
<1>11. RxFilled = [fifo |-> fifo, sample |-> sample, stored |-> stored, bad |-> bad, w |-> w]
  BY DEF RxFilled, fifo, stored, full, sample, w
<1> HIDE DEF bad
<1>12. /\ RxFilled.fifo = fifo /\ RxFilled.sample = sample /\ RxFilled.stored = stored
       /\ RxFilled.bad = bad /\ RxFilled.w = w
  BY <1>11
<1>13. RxFilled.bad => RxFilled.fifo = Tail(full) /\ full # <<>>
  BY <1>3, <1>6, <1>12
<1> QED BY <1>4, <1>6, <1>9, <1>10, <1>12, <1>13 DEF bad

(* GdmaTypeOK with the types of the histories.                             *)
GdmaTyped == GdmaTypeOK /\ moved \in [Sides -> Nat] /\ rerun \in [Sides -> BOOLEAN]

(* The sides that step in a poll, and the ones whose descriptor ends.      *)
TxRuns(due) == "tx" \in due /\ Runs("tx", tx)
RxRuns(due) == "rx" \in due /\ Runs("rx", rx)
TxDone(due) == TxRuns(due) /\ Done(TxFilled.w)
RxDone(due) == RxRuns(due) /\ ~RxFilled.bad /\ Done(RxFilled.w)

(* What a poll does to the TX side.                                        *)
LEMMA PollTx ==
  ASSUME GdmaTyped, NEW due, GdmaPoll(due)
  PROVE  /\ ~TxRuns(due) => /\ tx' = tx /\ tx_fifo' = tx_fifo
                            /\ moved'["tx"] = moved["tx"] /\ eof'["tx"] = eof["tx"]
                            /\ rerun'["tx"] = rerun["tx"]
         /\ TxRuns(due) => tx_fifo' = TxFilled.fifo
         /\ TxRuns(due) /\ ~TxDone(due) =>
              /\ tx' = TxFilled.w
              /\ moved'["tx"] = moved["tx"] + TxFilled.k /\ eof'["tx"] = eof["tx"]
              /\ rerun'["tx"] = rerun["tx"]
         /\ TxDone(due) =>
              /\ tx' = Advanced(TxFilled.w)
              /\ moved'["tx"] = 0 /\ rerun'["tx"] = FALSE
              /\ eof'["tx"] = [desc |-> tx.desc, words |-> moved["tx"] + TxFilled.k,
                               rerun |-> rerun["tx"]]
<1> DEFINE t == TxFilled
           r == RxFilled
           txs == "tx" \in due /\ Runs("tx", tx)
           rxs == "rx" \in due /\ Runs("rx", rx)
           txDone == txs /\ Done(t.w)
           rxDone == rxs /\ ~r.bad /\ Done(r.w)
           words == [s \in Sides |-> moved[s] + IF s = "tx" THEN t.k ELSE Len(r.stored)]
           desc == [s \in Sides |-> IF s = "tx" THEN tx.desc ELSE rx.desc]
           steps == {s \in Sides : IF s = "tx" THEN txs ELSE rxs}
           done == {s \in Sides : IF s = "tx" THEN txDone ELSE rxDone}
<1>1. /\ tx_fifo' = IF txs THEN t.fifo ELSE tx_fifo
      /\ tx' = IF txDone THEN Advanced(t.w) ELSE IF txs THEN t.w ELSE tx
      /\ eof' = [s \in Sides |->
                   IF s \in done
                   THEN [desc |-> desc[s], words |-> words[s], rerun |-> rerun[s]]
                   ELSE eof[s]]
      /\ rerun' = [s \in Sides |-> rerun[s] /\ s \notin done]
      /\ moved' = [s \in Sides |-> IF s \in done THEN 0
                                   ELSE IF s \in steps THEN words[s] ELSE moved[s]]
  BY DEF GdmaPoll
<1>2. /\ "tx" \in Sides /\ ("tx" \in steps <=> txs) /\ ("tx" \in done <=> txDone)
      /\ words["tx"] = moved["tx"] + t.k /\ desc["tx"] = tx.desc
  BY DEF Sides
<1> HIDE DEF words, desc, steps, done
<1>3. /\ eof'["tx"] = IF "tx" \in done
                     THEN [desc |-> desc["tx"], words |-> words["tx"], rerun |-> rerun["tx"]]
                     ELSE eof["tx"]
      /\ rerun'["tx"] = (rerun["tx"] /\ "tx" \notin done)
      /\ moved'["tx"] = IF "tx" \in done THEN 0
                        ELSE IF "tx" \in steps THEN words["tx"] ELSE moved["tx"]
  BY <1>1, <1>2
<1>4. (txs <=> TxRuns(due)) /\ (txDone <=> TxDone(due))
  BY DEF TxRuns, TxDone
<1> HIDE DEF txs, txDone
<1>5. rerun["tx"] \in BOOLEAN
  BY DEF GdmaTyped, Sides
<1> HIDE DEF t, r
<1> QED BY <1>1, <1>2, <1>3, <1>4, <1>5 DEF TxDone, t, r

(* ... and to the RX side.                                                 *)
LEMMA PollRx ==
  ASSUME GdmaTyped, NEW due, GdmaPoll(due)
  PROVE  /\ ~RxRuns(due) => /\ rx' = rx /\ rx_fifo' = rx_fifo /\ rx_sample' = rx_sample
                            /\ rx_log' = rx_log
                            /\ moved'["rx"] = moved["rx"] /\ eof'["rx"] = eof["rx"]
                            /\ rerun'["rx"] = rerun["rx"] /\ (rx_cut' <=> rx_cut)
         /\ RxRuns(due) => /\ rx_sample < MaxSample
                           /\ rx_fifo' = RxFilled.fifo /\ rx_sample' = RxFilled.sample
                           /\ rx_log' = rx_log \o RxFilled.stored
                           /\ (rx_cut' <=> rx_cut \/ RxFilled.bad)
         /\ RxRuns(due) /\ ~RxDone(due) =>
              /\ rx' = RxFilled.w
              /\ moved'["rx"] = moved["rx"] + Len(RxFilled.stored)
              /\ eof'["rx"] = eof["rx"] /\ rerun'["rx"] = rerun["rx"]
         /\ RxDone(due) =>
              /\ rx' = Advanced(RxFilled.w)
              /\ moved'["rx"] = 0 /\ rerun'["rx"] = FALSE
              /\ eof'["rx"] = [desc |-> rx.desc, words |-> moved["rx"] + Len(RxFilled.stored),
                               rerun |-> rerun["rx"]]
         /\ rx_home' = rx_home /\ rx_clean' = rx_clean
<1> DEFINE t == TxFilled
           r == RxFilled
           txs == "tx" \in due /\ Runs("tx", tx)
           rxs == "rx" \in due /\ Runs("rx", rx)
           txDone == txs /\ Done(t.w)
           rxDone == rxs /\ ~r.bad /\ Done(r.w)
           words == [s \in Sides |-> moved[s] + IF s = "tx" THEN t.k ELSE Len(r.stored)]
           desc == [s \in Sides |-> IF s = "tx" THEN tx.desc ELSE rx.desc]
           steps == {s \in Sides : IF s = "tx" THEN txs ELSE rxs}
           done == {s \in Sides : IF s = "tx" THEN txDone ELSE rxDone}
<1>1. /\ rxs => rx_sample < MaxSample
      /\ rx_fifo' = IF rxs THEN r.fifo ELSE rx_fifo
      /\ rx_sample' = IF rxs THEN r.sample ELSE rx_sample
      /\ rx' = IF rxDone THEN Advanced(r.w) ELSE IF rxs THEN r.w ELSE rx
      /\ eof' = [s \in Sides |->
                   IF s \in done
                   THEN [desc |-> desc[s], words |-> words[s], rerun |-> rerun[s]]
                   ELSE eof[s]]
      /\ rerun' = [s \in Sides |-> rerun[s] /\ s \notin done]
      /\ moved' = [s \in Sides |-> IF s \in done THEN 0
                                   ELSE IF s \in steps THEN words[s] ELSE moved[s]]
      /\ rx_log' = IF rxs THEN rx_log \o r.stored ELSE rx_log
      /\ rx_cut' = (rx_cut \/ (rxs /\ r.bad))
      /\ rx_home' = rx_home /\ rx_clean' = rx_clean
  BY DEF GdmaPoll
<1>2. /\ "rx" \in Sides /\ ("rx" \in steps <=> rxs) /\ ("rx" \in done <=> rxDone)
      /\ words["rx"] = moved["rx"] + Len(r.stored) /\ desc["rx"] = rx.desc
  BY DEF Sides
<1> HIDE DEF words, desc, steps, done
<1>3. /\ eof'["rx"] = IF "rx" \in done
                     THEN [desc |-> desc["rx"], words |-> words["rx"], rerun |-> rerun["rx"]]
                     ELSE eof["rx"]
      /\ rerun'["rx"] = (rerun["rx"] /\ "rx" \notin done)
      /\ moved'["rx"] = IF "rx" \in done THEN 0
                        ELSE IF "rx" \in steps THEN words["rx"] ELSE moved["rx"]
  BY <1>1, <1>2
<1>4. (rxs <=> RxRuns(due)) /\ (rxDone <=> RxDone(due))
  BY DEF RxRuns, RxDone
<1> HIDE DEF rxs, rxDone
<1>5. rerun["rx"] \in BOOLEAN
  BY DEF GdmaTyped, Sides
<1> HIDE DEF t, r
<1> QED BY <1>1, <1>2, <1>3, <1>4, <1>5 DEF RxDone, t, r

(* ... and to the interrupt registers.                                     *)
LEMMA PollInt ==
  ASSUME NEW due, GdmaPoll(due)
  PROVE  /\ i2s' = i2s /\ dma_ena' = dma_ena
         /\ \E raised \in SUBSET Sides :
              /\ dma_raw' = dma_raw \cup raised
              /\ dma_source' = dma_source \cup (raised \cap dma_ena)
<1> DEFINE done == {s \in Sides : IF s = "tx" THEN TxDone(due) ELSE RxDone(due)}
<1>1. RaiseEof(done) /\ i2s' = i2s
  BY DEF GdmaPoll, TxDone, RxDone, TxRuns, RxRuns
<1>2. done \in SUBSET Sides
  OBVIOUS
<1> HIDE DEF done
<1> QED BY <1>1, <1>2 DEF RaiseEof

LEMMA GdmaTypedInit == GdmaInit => GdmaTyped
<1> SUFFICES ASSUME GdmaInit PROVE GdmaTyped
  OBVIOUS
<1>1. tx \in Walkers /\ rx \in Walkers
  BY DEF GdmaInit, Idle, Walkers
<1>2. rx_fifo \in Seq(Nat) /\ rx_log \in Seq(Nat) /\ Len(rx_fifo) = 0
  BY DEF GdmaInit
<1>3. FifoDepth \in Nat /\ MaxSample \in Nat
  BY GdmaAssumption
<1> QED BY <1>1, <1>2, <1>3 DEF GdmaInit, GdmaTyped, GdmaTypeOK

LEMMA GdmaTypedPoll ==
  ASSUME GdmaTyped, NEW due \in SUBSET Sides, GdmaPoll(due)
  PROVE  GdmaTyped'
<1>1. tx' \in Walkers /\ tx_fifo' \in 0 .. FifoDepth /\ moved'["tx"] \in Nat
  <2>1. /\ TxFilled.w \in Walkers /\ TxFilled.fifo \in 0 .. FifoDepth /\ TxFilled.k \in Nat
        /\ moved["tx"] \in Nat /\ tx \in Walkers /\ tx_fifo \in 0 .. FifoDepth
    BY TxFilledIs DEF GdmaTyped, GdmaTypeOK, Sides
  <2>2. Advanced(TxFilled.w) \in Walkers
    BY <2>1, AdvancedType
  <2>3. CASE TxDone(due)
    <3>1. tx' = Advanced(TxFilled.w) /\ tx_fifo' = TxFilled.fifo /\ moved'["tx"] = 0
      BY <2>3, PollTx DEF TxDone
    <3> QED BY <2>1, <2>2, <3>1
  <2>4. CASE TxRuns(due) /\ ~TxDone(due)
    <3>1. /\ tx' = TxFilled.w /\ tx_fifo' = TxFilled.fifo
          /\ moved'["tx"] = moved["tx"] + TxFilled.k
      BY <2>4, PollTx
    <3> QED BY <2>1, <3>1
  <2>5. CASE ~TxRuns(due)
    BY <2>1, <2>5, PollTx
  <2> QED BY <2>3, <2>4, <2>5
<1>2. /\ rx' \in Walkers /\ rx_fifo' \in Seq(Nat) /\ Len(rx_fifo') <= FifoDepth
      /\ rx_sample' \in 0 .. MaxSample /\ rx_log' \in Seq(Nat) /\ moved'["rx"] \in Nat
  <2>1. CASE RxRuns(due)
    <3>1. rx_sample < MaxSample
      BY <2>1, PollRx
    <3>2. /\ RxFilled.w \in Walkers /\ RxFilled.fifo \in Seq(Nat)
          /\ Len(RxFilled.fifo) <= FifoDepth /\ RxFilled.sample \in 0 .. MaxSample
          /\ RxFilled.stored \in Seq(Nat)
      BY <3>1, RxFilledIs DEF GdmaTyped
    <3>3. Advanced(RxFilled.w) \in Walkers
      BY <3>2, AdvancedType
    <3>4. rx_log \o RxFilled.stored \in Seq(Nat)
      BY <3>2, ConcatProperties DEF GdmaTyped, GdmaTypeOK
    <3>5. rx' \in Walkers
      BY <2>1, <3>2, <3>3, PollRx
    <3>6. moved["rx"] \in Nat /\ Len(RxFilled.stored) \in Nat
      BY <3>2 DEF GdmaTyped, Sides
    <3>7. moved'["rx"] \in Nat
      <4>1. moved'["rx"] \in {0, moved["rx"] + Len(RxFilled.stored)}
        BY <2>1, PollRx
      <4> QED BY <3>6, <4>1
    <3> QED BY <2>1, <3>2, <3>4, <3>5, <3>7, PollRx
  <2>2. CASE ~RxRuns(due)
    BY <2>2, PollRx DEF GdmaTyped, GdmaTypeOK, Sides
  <2> QED BY <2>1, <2>2
<1>3. /\ i2s' \subseteq Sides /\ dma_raw' \subseteq Sides /\ dma_ena' \subseteq Sides
      /\ dma_source' \subseteq dma_raw' \cap dma_ena'
  BY PollInt DEF GdmaTyped, GdmaTypeOK
<1>4. moved' \in [Sides -> Nat]
  <2>1. DOMAIN moved' = Sides /\ moved' = [s \in Sides |-> moved'[s]]
    BY DEF GdmaPoll
  <2>2. \A s \in Sides : moved'[s] \in Nat
    BY <1>1, <1>2 DEF Sides
  <2> QED BY <2>1, <2>2
<1>5. rerun' \in [Sides -> BOOLEAN]
  BY DEF GdmaPoll
<1> QED BY <1>1, <1>2, <1>3, <1>4, <1>5 DEF GdmaTyped, GdmaTypeOK

LEMMA GdmaTypedCommon ==
  ASSUME GdmaTyped, NEW side \in Sides, DmaCommon(side)
  PROVE  GdmaTyped'
<1> USE DEF GdmaTyped, GdmaTypeOK, walkVars, dmaHist, rxHist
<1>1. ASSUME NEW on \in BOOLEAN, I2sConf(side, on)
      PROVE  GdmaTyped'
  BY <1>1 DEF I2sConf, dmaInt
<1>2. ASSUME NEW on \in BOOLEAN, DmaIntEna(side, on)
      PROVE  GdmaTyped'
  BY <1>2 DEF DmaIntEna
<1>3. CASE DmaIntClr(side)
  BY <1>3 DEF DmaIntClr
<1> QED BY <1>1, <1>2, <1>3 DEF DmaCommon

LEMMA GdmaTypedTx ==
  ASSUME GdmaTyped, TxGuest
  PROVE  GdmaTyped'
<1> USE DEF GdmaTyped, GdmaTypeOK, dmaInt, dmaHist, rxHist
<1>1. ASSUME NEW a \in Heads, TxStart(a)
      PROVE  GdmaTyped'
  <2>1. Started(tx, a) \in Walkers
    BY StartedType, GdmaAssumption
  <2>2. /\ [moved EXCEPT !["tx"] = 0] \in [Sides -> Nat]
        /\ [rerun EXCEPT !["tx"] = a \notin DescAddrs] \in [Sides -> BOOLEAN]
    OBVIOUS
  <2> QED BY <1>1, <2>1, <2>2 DEF TxStart
<1>2. ASSUME NEW run \in BOOLEAN, TxLink(run)
      PROVE  GdmaTyped'
  <2>1. [tx EXCEPT !.run = run] \in Walkers
    BY DEF Walkers
  <2>2. [rerun EXCEPT !["tx"] = @ \/ (run /\ Parked(tx))] \in [Sides -> BOOLEAN]
    BY DEF Parked
  <2> QED BY <1>2, <2>1, <2>2 DEF TxLink
<1>3. CASE TxReset
  <2>1. [tx EXCEPT !.run = FALSE, !.left = 0] \in Walkers
    BY DEF Walkers
  <2>2. 0 \in 0 .. FifoDepth
    BY GdmaAssumption
  <2> QED BY <1>3, <2>1, <2>2 DEF TxReset
<1>4. CASE DmaCommon("tx")
  BY <1>4, GdmaTypedCommon DEF Sides
<1> QED BY <1>1, <1>2, <1>3, <1>4 DEF TxGuest

LEMMA GdmaTypedRx ==
  ASSUME GdmaTyped, RxGuest
  PROVE  GdmaTyped'
<1> USE DEF GdmaTyped, GdmaTypeOK, dmaInt, dmaHist, rxHist
<1>1. ASSUME NEW a \in Heads, RxStart(a)
      PROVE  GdmaTyped'
  <2>1. Started(rx, a) \in Walkers
    BY StartedType, GdmaAssumption
  <2>2. /\ [moved EXCEPT !["rx"] = 0] \in [Sides -> Nat]
        /\ [rerun EXCEPT !["rx"] = a \notin DescAddrs] \in [Sides -> BOOLEAN]
    OBVIOUS
  <2>3. 0 \in 0 .. MaxSample /\ <<>> \in Seq(Nat)
    BY GdmaAssumption
  <2> QED BY <1>1, <2>1, <2>2, <2>3 DEF RxStart
<1>2. ASSUME NEW run \in BOOLEAN, RxLink(run)
      PROVE  GdmaTyped'
  <2>1. [rx EXCEPT !.run = run] \in Walkers
    BY DEF Walkers
  <2>2. [rerun EXCEPT !["rx"] = @ \/ (run /\ Parked(rx))] \in [Sides -> BOOLEAN]
    BY DEF Parked
  <2> QED BY <1>2, <2>1, <2>2 DEF RxLink
<1>3. CASE RxReset
  <2>1. [rx EXCEPT !.run = FALSE, !.left = 0] \in Walkers
    BY DEF Walkers
  <2>2. <<>> \in Seq(Nat) /\ Len(<<>>) <= FifoDepth
    BY GdmaAssumption
  <2> QED BY <1>3, <2>1, <2>2 DEF RxReset
<1>4. CASE DmaCommon("rx")
  BY <1>4, GdmaTypedCommon DEF Sides
<1> QED BY <1>1, <1>2, <1>3, <1>4 DEF RxGuest

LEMMA GdmaTypedStep ==
  ASSUME GdmaTyped, [GdmaNext]_gdmaVars
  PROVE  GdmaTyped'
<1>1. CASE UNCHANGED gdmaVars
  BY <1>1 DEF gdmaVars, walkVars, dmaInt, dmaHist, rxHist, GdmaTyped, GdmaTypeOK
<1> QED BY <1>1, GdmaTypedPoll, GdmaTypedTx, GdmaTypedRx DEF GdmaNext

(* Every step of the devices is a step of the GDMA, or leaves it alone.    *)
LEMMA GdmaSteps == [DevicesNext]_<<deviceVars, driver>> => [GdmaNext]_gdmaVars
<1> SUFFICES ASSUME [DevicesNext]_<<deviceVars, driver>>
             PROVE  GdmaNext \/ UNCHANGED gdmaVars
  OBVIOUS
<1>1. CASE PeriodicPoll
  <2>1. PICK due \in Dues : GdmaPoll(due)
    BY <1>1 DEF PeriodicPoll
  <2>2. due \in SUBSET Sides
    BY <2>1 DEF Dues
  <2> QED BY <2>1, <2>2 DEF GdmaNext
<1>2. CASE GdmaAccess
  BY <1>2 DEF GdmaAccess, GdmaNext
<1>3. CASE UartAccess \/ Host \/ I2cAccess \/ TimerAccess \/ TwaiAccess \/ GpioAccess
           \/ PwmAccess
  BY <1>3 DEF UartAccess, Host, I2cAccess, TimerAccess, TwaiAccess, GpioAccess, PwmAccess
<1>4. CASE UNCHANGED <<deviceVars, driver>>
  BY <1>4 DEF deviceVars
<1> QED BY <1>1, <1>2, <1>3, <1>4 DEF DevicesNext

(* The types of the GDMA: the FIFOs stay within their depth and a pending  *)
(* source is backed by an enabled EOF, whatever drivers write and however  *)
(* the polls fall between the writes.                                      *)
THEOREM DevicesGdmaType == DevicesSpec => []GdmaTypeOK
<1>1. DevicesInit => GdmaTyped
  BY GdmaTypedInit DEF DevicesInit
<1>2. GdmaTyped /\ [DevicesNext]_<<deviceVars, driver>> => GdmaTyped'
  BY GdmaTypedStep, GdmaSteps
<1>3. GdmaTyped => GdmaTypeOK
  BY DEF GdmaTyped
<1> QED BY <1>1, <1>2, <1>3, PTL DEF DevicesSpec

----------------------------------------------------------------------------
(* GDMA: an EOF comes after the words of its descriptor.                   *)

(* A walker that has not parked is in a descriptor, and the words moved    *)
(* for it and the words left are all of them: unless it was set running    *)
(* without a load, until its next EOF.                                     *)
WalkAccounts(w, n, again) ==
  ~again /\ ~Parked(w) => /\ w.desc \in DescAddrs
                          /\ n + w.left = Descs[w.desc].words

EofInv ==
  /\ WalkAccounts(tx, moved["tx"], rerun["tx"])
  /\ WalkAccounts(rx, moved["rx"], rerun["rx"])
  /\ EofAfterData

LEMMA LoadIs ==
  ASSUME NEW w \in Walkers, NEW addr \in DescAddrs
  PROVE  /\ Load(w, addr).desc = addr
         /\ Load(w, addr).left = Descs[addr].words
         /\ Load(w, addr).buf = Descs[addr].buf
         /\ Load(w, addr).next = Descs[addr].next
         /\ Load(w, addr).run = w.run
<1>1. Load(w, addr) = [w EXCEPT !.desc = addr, !.left = Descs[addr].words,
                                !.buf = Descs[addr].buf, !.next = Descs[addr].next]
  BY DEF Load
<1> QED BY <1>1 DEF Walkers

LEMMA LoadParks ==
  ASSUME NEW w \in Walkers, NEW addr, addr \notin DescAddrs
  PROVE  /\ Load(w, addr).left = w.left /\ Load(w, addr).buf = w.buf
         /\ Load(w, addr).next = w.next /\ ~Load(w, addr).run
<1>1. Load(w, addr) = [w EXCEPT !.desc = addr, !.run = FALSE]
  BY DEF Load
<1> QED BY <1>1 DEF Walkers

(* A walker that is done loads a descriptor or parks.                      *)
LEMMA AdvancedIs ==
  ASSUME NEW w \in Walkers, w.left = 0
  PROVE  \/ Parked(Advanced(w)) /\ Advanced(w).buf = w.buf /\ Advanced(w).next = w.next
         \/ /\ w.next \in DescAddrs
            /\ Advanced(w).desc = w.next
            /\ Advanced(w).left = Descs[w.next].words
            /\ Advanced(w).buf = Descs[w.next].buf
            /\ Advanced(w).next = Descs[w.next].next
            /\ Advanced(w).run = w.run
<1>1. CASE w.next = 0
  <2>1. Advanced(w) = [w EXCEPT !.run = FALSE]
    BY <1>1 DEF Advanced
  <2>2. Advanced(w).left = 0 /\ ~Advanced(w).run /\ Advanced(w).buf = w.buf
        /\ Advanced(w).next = w.next
    BY <2>1 DEF Walkers
  <2> QED BY <2>2 DEF Parked
<1>2. CASE w.next # 0 /\ w.next \in DescAddrs
  BY <1>2, LoadIs DEF Advanced
<1>3. CASE w.next # 0 /\ w.next \notin DescAddrs
  <2>1. Advanced(w) = Load(w, w.next)
    BY <1>3 DEF Advanced
  <2>2. /\ Load(w, w.next).left = w.left /\ Load(w, w.next).buf = w.buf
        /\ Load(w, w.next).next = w.next /\ ~Load(w, w.next).run
    BY <1>3, LoadParks
  <2> QED BY <2>1, <2>2 DEF Parked
<1> QED BY <1>1, <1>2, <1>3

LEMMA StartedIs ==
  ASSUME NEW w \in Walkers, NEW addr \in DescAddrs
  PROVE  /\ Started(w, addr).run
         /\ Started(w, addr).desc = addr
         /\ Started(w, addr).left = Descs[addr].words
         /\ Started(w, addr).buf = Descs[addr].buf
         /\ Started(w, addr).next = Descs[addr].next
<1>1. Load(w, addr) \in Walkers
  BY LoadType, GdmaAssumption
<1>2. Started(w, addr) = [Load(w, addr) EXCEPT !.run = TRUE]
  BY DEF Started
<1>3. /\ Started(w, addr).run /\ Started(w, addr).desc = Load(w, addr).desc
      /\ Started(w, addr).left = Load(w, addr).left
      /\ Started(w, addr).buf = Load(w, addr).buf
      /\ Started(w, addr).next = Load(w, addr).next
  BY <1>1, <1>2 DEF Walkers
<1> QED BY <1>3, LoadIs

LEMMA AccountsAdvanced ==
  ASSUME NEW w \in Walkers, w.left = 0
  PROVE  WalkAccounts(Advanced(w), 0, FALSE)
<1>1. w.next \in DescAddrs => Descs[w.next].words \in Nat
  BY GdmaAssumption DEF DescFields
<1> QED BY <1>1, AdvancedIs DEF WalkAccounts

LEMMA AccountsStarted ==
  ASSUME NEW w \in Walkers, NEW addr \in Heads
  PROVE  WalkAccounts(Started(w, addr), 0, addr \notin DescAddrs)
<1>1. addr \in DescAddrs => Descs[addr].words \in Nat
  BY GdmaAssumption DEF DescFields
<1> QED BY <1>1, StartedIs DEF WalkAccounts

LEMMA AccountsLink ==
  ASSUME NEW w \in Walkers, NEW n, NEW again \in BOOLEAN, WalkAccounts(w, n, again),
         NEW run \in BOOLEAN
  PROVE  WalkAccounts([w EXCEPT !.run = run], n, again \/ (run /\ Parked(w)))
<1> DEFINE v == [w EXCEPT !.run = run]
<1>1. v.left = w.left /\ v.desc = w.desc /\ (v.run <=> run)
  BY DEF Walkers
<1> HIDE DEF v
<1>2. ~Parked(v) /\ ~(run /\ Parked(w)) => ~Parked(w)
  BY <1>1 DEF Parked
<1>3. WalkAccounts(v, n, again \/ (run /\ Parked(w)))
  BY <1>1, <1>2 DEF WalkAccounts
<1> QED BY <1>3 DEF v

LEMMA EofInvPoll ==
  ASSUME GdmaTyped, EofInv, NEW due \in SUBSET Sides, GdmaPoll(due)
  PROVE  EofInv'
<1>1. moved["tx"] \in Nat /\ moved["rx"] \in Nat
  BY DEF GdmaTyped, Sides
<1>2. /\ WalkAccounts(tx', moved'["tx"], rerun'["tx"])
      /\ ~eof'["tx"].rerun => /\ eof'["tx"].desc \in DescAddrs
                              /\ eof'["tx"].words = Descs[eof'["tx"].desc].words
  <2>1. /\ TxFilled.w \in Walkers /\ TxFilled.k \in Nat /\ TxFilled.w.desc = tx.desc
        /\ TxFilled.w.left = tx.left - TxFilled.k /\ tx.left \in Nat
    BY TxFilledIs DEF GdmaTyped, GdmaTypeOK, Walkers
  <2>2. ~eof["tx"].rerun => /\ eof["tx"].desc \in DescAddrs
                            /\ eof["tx"].words = Descs[eof["tx"].desc].words
    BY DEF EofInv, EofAfterData, Sides
  <2>3. TxRuns(due) /\ ~rerun["tx"] =>
           tx.desc \in DescAddrs /\ moved["tx"] + tx.left = Descs[tx.desc].words
    BY DEF TxRuns, Runs, EofInv, WalkAccounts, Parked
  <2>4. CASE TxDone(due)
    <3>1. TxFilled.w.left = 0 /\ TxRuns(due)
      BY <2>4 DEF TxDone, Done
    <3>2. WalkAccounts(Advanced(TxFilled.w), 0, FALSE)
      BY <2>1, <3>1, AccountsAdvanced
    <3>3. /\ tx' = Advanced(TxFilled.w) /\ moved'["tx"] = 0 /\ rerun'["tx"] = FALSE
          /\ eof'["tx"] = [desc |-> tx.desc, words |-> moved["tx"] + TxFilled.k,
                           rerun |-> rerun["tx"]]
      BY <2>4, PollTx
    <3>4. ~rerun["tx"] => moved["tx"] + TxFilled.k = Descs[tx.desc].words
      BY <1>1, <2>1, <2>3, <3>1
    <3>5. /\ eof'["tx"].desc = tx.desc /\ eof'["tx"].words = moved["tx"] + TxFilled.k
          /\ eof'["tx"].rerun = rerun["tx"]
      BY <3>3
    <3>6. WalkAccounts(tx', moved'["tx"], rerun'["tx"])
      BY <3>2, <3>3
    <3> QED BY <2>3, <3>1, <3>4, <3>5, <3>6
  <2>5. CASE TxRuns(due) /\ ~TxDone(due)
    <3>1. /\ tx' = TxFilled.w /\ moved'["tx"] = moved["tx"] + TxFilled.k
          /\ eof'["tx"] = eof["tx"] /\ rerun'["tx"] = rerun["tx"]
      BY <2>5, PollTx
    <3>2. WalkAccounts(tx', moved'["tx"], rerun'["tx"])
      BY <1>1, <2>1, <2>3, <2>5, <3>1 DEF WalkAccounts
    <3> QED BY <2>2, <3>1, <3>2
  <2>6. CASE ~TxRuns(due)
    BY <2>2, <2>6, PollTx DEF EofInv
  <2> QED BY <2>4, <2>5, <2>6
<1>3. /\ WalkAccounts(rx', moved'["rx"], rerun'["rx"])
      /\ ~eof'["rx"].rerun => /\ eof'["rx"].desc \in DescAddrs
                              /\ eof'["rx"].words = Descs[eof'["rx"].desc].words
  <2>1. ~eof["rx"].rerun => /\ eof["rx"].desc \in DescAddrs
                            /\ eof["rx"].words = Descs[eof["rx"].desc].words
    BY DEF EofInv, EofAfterData, Sides
  <2>2. CASE RxRuns(due)
    <3>1. rx_sample < MaxSample
      BY <2>2, PollRx
    <3>2. /\ RxFilled.w \in Walkers /\ Len(RxFilled.stored) \in Nat
          /\ RxFilled.w.desc = rx.desc /\ rx.left \in Nat
          /\ RxFilled.w.left = rx.left - Len(RxFilled.stored)
      <4>1. rx.left \in Nat
        BY DEF GdmaTyped, GdmaTypeOK, Walkers
      <4>2. /\ RxFilled.w \in Walkers /\ RxFilled.stored \in Seq(Nat)
            /\ RxFilled.w.desc = rx.desc
            /\ RxFilled.w.left = rx.left - Len(RxFilled.stored)
        BY <3>1, RxFilledIs DEF GdmaTyped
      <4> QED BY <4>1, <4>2
    <3>3. ~rerun["rx"] => rx.desc \in DescAddrs /\ moved["rx"] + rx.left = Descs[rx.desc].words
      BY <2>2 DEF RxRuns, Runs, EofInv, WalkAccounts, Parked
    <3>4. CASE RxDone(due)
      <4>1. RxFilled.w.left = 0
        BY <3>4 DEF RxDone, Done
      <4>2. WalkAccounts(Advanced(RxFilled.w), 0, FALSE)
        BY <3>2, <4>1, AccountsAdvanced
      <4>3. /\ rx' = Advanced(RxFilled.w) /\ moved'["rx"] = 0 /\ rerun'["rx"] = FALSE
            /\ eof'["rx"] = [desc |-> rx.desc, words |-> moved["rx"] + Len(RxFilled.stored),
                             rerun |-> rerun["rx"]]
        BY <3>4, PollRx
      <4>4. ~rerun["rx"] => moved["rx"] + Len(RxFilled.stored) = Descs[rx.desc].words
        BY <1>1, <3>2, <3>3, <4>1
      <4>5. /\ eof'["rx"].desc = rx.desc
            /\ eof'["rx"].words = moved["rx"] + Len(RxFilled.stored)
            /\ eof'["rx"].rerun = rerun["rx"]
        BY <4>3
      <4>6. WalkAccounts(rx', moved'["rx"], rerun'["rx"])
        BY <4>2, <4>3
      <4> QED BY <3>3, <4>4, <4>5, <4>6
    <3>5. CASE ~RxDone(due)
      <4>1. /\ rx' = RxFilled.w /\ moved'["rx"] = moved["rx"] + Len(RxFilled.stored)
            /\ eof'["rx"] = eof["rx"] /\ rerun'["rx"] = rerun["rx"]
        BY <2>2, <3>5, PollRx
      <4>2. WalkAccounts(rx', moved'["rx"], rerun'["rx"])
        BY <1>1, <3>2, <3>3, <4>1 DEF WalkAccounts
      <4> QED BY <2>1, <4>1, <4>2
    <3> QED BY <3>4, <3>5
  <2>3. CASE ~RxRuns(due)
    BY <2>1, <2>3, PollRx DEF EofInv
  <2> QED BY <2>2, <2>3
<1>4. EofAfterData'
  BY <1>2, <1>3 DEF EofAfterData, Sides
<1> QED BY <1>2, <1>3, <1>4 DEF EofInv, WalkAccounts, Parked

LEMMA EofInvStep ==
  ASSUME GdmaTyped, EofInv, [GdmaNext]_gdmaVars
  PROVE  EofInv'
<1>0. /\ tx \in Walkers /\ rx \in Walkers
      /\ rerun["tx"] \in BOOLEAN /\ rerun["rx"] \in BOOLEAN
  BY DEF GdmaTyped, GdmaTypeOK, Sides
<1>1. ASSUME NEW a \in Heads, TxStart(a)
      PROVE  EofInv'
  <2>1. /\ moved'["tx"] = 0 /\ moved'["rx"] = moved["rx"]
        /\ rerun'["tx"] = (a \notin DescAddrs) /\ rerun'["rx"] = rerun["rx"]
    BY <1>1 DEF TxStart, GdmaTyped, Sides
  <2>2. WalkAccounts(Started(tx, a), 0, a \notin DescAddrs)
    BY <1>0, AccountsStarted
  <2> QED BY <1>1, <2>1, <2>2 DEF TxStart, EofInv, EofAfterData, WalkAccounts, Parked
<1>2. ASSUME NEW a \in Heads, RxStart(a)
      PROVE  EofInv'
  <2>1. /\ moved'["rx"] = 0 /\ moved'["tx"] = moved["tx"]
        /\ rerun'["rx"] = (a \notin DescAddrs) /\ rerun'["tx"] = rerun["tx"]
    BY <1>2 DEF RxStart, GdmaTyped, Sides
  <2>2. WalkAccounts(Started(rx, a), 0, a \notin DescAddrs)
    BY <1>0, AccountsStarted
  <2> QED BY <1>2, <2>1, <2>2 DEF RxStart, EofInv, EofAfterData, WalkAccounts, Parked
<1>3. ASSUME NEW run \in BOOLEAN, TxLink(run) \/ RxLink(run)
      PROVE  EofInv'
  <2>1. CASE TxLink(run)
    <3>1. WalkAccounts([tx EXCEPT !.run = run], moved["tx"],
                       rerun["tx"] \/ (run /\ Parked(tx)))
      BY <1>0, AccountsLink DEF EofInv
    <3>2. /\ rerun'["tx"] = (rerun["tx"] \/ (run /\ Parked(tx))) /\ rerun'["rx"] = rerun["rx"]
          /\ tx' = [tx EXCEPT !.run = run] /\ UNCHANGED <<rx, moved, eof>>
      BY <2>1 DEF TxLink, GdmaTyped, Sides
    <3> QED BY <3>1, <3>2 DEF EofInv, EofAfterData, WalkAccounts, Parked
  <2>2. CASE RxLink(run)
    <3>1. WalkAccounts([rx EXCEPT !.run = run], moved["rx"],
                       rerun["rx"] \/ (run /\ Parked(rx)))
      BY <1>0, AccountsLink DEF EofInv
    <3>2. /\ rerun'["rx"] = (rerun["rx"] \/ (run /\ Parked(rx))) /\ rerun'["tx"] = rerun["tx"]
          /\ rx' = [rx EXCEPT !.run = run] /\ UNCHANGED <<tx, moved, eof>>
      BY <2>2 DEF RxLink, GdmaTyped, Sides
    <3> QED BY <3>1, <3>2 DEF EofInv, EofAfterData, WalkAccounts, Parked
  <2> QED BY <1>3, <2>1, <2>2
<1>4. CASE TxReset \/ RxReset
  <2>1. Parked([tx EXCEPT !.run = FALSE, !.left = 0])
        /\ Parked([rx EXCEPT !.run = FALSE, !.left = 0])
    BY <1>0 DEF Parked, Walkers
  <2>2. CASE TxReset
    <3>1. Parked(tx') /\ UNCHANGED <<rx, moved, rerun, eof>>
      BY <2>1, <2>2 DEF TxReset, dmaHist
    <3> QED BY <3>1 DEF EofInv, EofAfterData, WalkAccounts, Parked
  <2>3. CASE RxReset
    <3>1. Parked(rx') /\ UNCHANGED <<tx, moved, rerun, eof>>
      BY <2>1, <2>3 DEF RxReset
    <3> QED BY <3>1 DEF EofInv, EofAfterData, WalkAccounts, Parked
  <2> QED BY <1>4, <2>2, <2>3
<1>5. ASSUME NEW side \in Sides, DmaCommon(side)
      PROVE  EofInv'
  <2>1. UNCHANGED <<tx, rx, moved, rerun, eof>>
    BY <1>5 DEF DmaCommon, I2sConf, DmaIntEna, DmaIntClr, walkVars, dmaHist
  <2> QED BY <2>1 DEF EofInv, EofAfterData, WalkAccounts, Parked
<1>6. CASE UNCHANGED gdmaVars
  BY <1>6 DEF gdmaVars, walkVars, dmaHist, EofInv, EofAfterData, WalkAccounts, Parked
<1>7. CASE GdmaNext
  <2>1. CASE TxGuest
    BY <2>1, <1>1, <1>3, <1>4, <1>5 DEF TxGuest, Sides
  <2>2. CASE RxGuest
    BY <2>2, <1>2, <1>3, <1>4, <1>5 DEF RxGuest, Sides
  <2> QED BY <1>7, <2>1, <2>2, EofInvPoll DEF GdmaNext
<1> QED BY <1>6, <1>7

(* OUT_EOF and IN_SUC_EOF come after all the words of the descriptor they  *)
(* report, for every chain of descriptors, FIFO depth and order of polls   *)
(* and writes; only the first EOF of a channel that is set running without *)
(* a load, by a restart after it parked or a start outside RAM, is not     *)
(* bound to this.                                                          *)
THEOREM DevicesEofAfterData == DevicesSpec => []EofAfterData
<1> DEFINE Inv == GdmaTyped /\ EofInv
<1>1. DevicesInit => Inv
  <2> SUFFICES ASSUME DevicesInit PROVE EofInv
    BY GdmaTypedInit DEF DevicesInit
  <2>1. Parked(tx) /\ Parked(rx) /\ \A s \in Sides : eof[s].rerun
    BY DEF DevicesInit, GdmaInit, Idle, Parked, Sides
  <2> QED BY <2>1 DEF EofInv, EofAfterData, WalkAccounts
<1>2. Inv /\ [DevicesNext]_<<deviceVars, driver>> => Inv'
  BY GdmaTypedStep, GdmaSteps, EofInvStep
<1>3. Inv => EofAfterData
  BY DEF EofInv
<1> QED BY <1>1, <1>2, <1>3, PTL DEF DevicesSpec

----------------------------------------------------------------------------
(* GDMA: the stored stream goes up, and has no gaps.                       *)

(* The k stored samples a and the m samples b of the FIFO behind them go   *)
(* up, below the engine's counter n.                                       *)
Climbs(a, k, b, m, n) ==
  /\ \A i, j \in 1 .. k : i < j => a[i] < a[j]
  /\ \A i, j \in 1 .. m : i < j => b[i] < b[j]
  /\ \A i \in 1 .. k, j \in 1 .. m : a[i] < b[j]
  /\ \A i \in 1 .. k : a[i] < n
  /\ \A i \in 1 .. m : b[i] < n
Rising(log, fifo, n) == Climbs(log, Len(log), fifo, Len(fifo), n)

(* As long as nothing was dropped, the stored samples count from 0 and the *)
(* FIFO goes on where they end, up to the engine's counter: that is what   *)
(* makes the next stored sample the right one.                             *)
LogCounts == \A i \in 1 .. Len(rx_log) : rx_log[i] = i - 1
FifoCounts ==
  /\ Len(rx_log) + Len(rx_fifo) = rx_sample
  /\ \A i \in 1 .. Len(rx_fifo) : rx_fifo[i] = Len(rx_log) + i - 1
StreamInv ==
  rx_clean => /\ Rising(rx_log, rx_fifo, rx_sample)
              /\ ~rx_cut => LogCounts /\ FifoCounts

(* The engine adds n at the end, the walker moves the first p, or drops    *)
(* the first one.                                                          *)
LEMMA ClimbsMade ==
  ASSUME NEW a, NEW k \in Nat, NEW b, NEW m \in Nat, NEW n \in Nat, NEW c,
         Climbs(a, k, b, m, n), \A i \in 1 .. k : a[i] \in Nat, \A i \in 1 .. m : b[i] \in Nat,
         c[m + 1] = n, \A i \in 1 .. m : c[i] = b[i]
  PROVE  Climbs(a, k, c, m + 1, n + 1)
BY DEF Climbs

TakesFirst(a, k, b, p, m, c, d) ==
  /\ \A i \in 1 .. k : c[i] = a[i]
  /\ \A i \in 1 .. p : c[k + i] = b[i]
  /\ \A i \in 1 .. m : d[i] = b[p + i]

LEMMA ClimbsMoved ==
  ASSUME NEW a, NEW k \in Nat, NEW b, NEW p \in Nat, NEW m \in Nat, NEW n \in Nat,
         NEW c, NEW d, NEW q, NEW r, q = p + m, r = k + p, Climbs(a, k, b, q, n),
         TakesFirst(a, k, b, p, m, c, d)
  PROVE  Climbs(c, r, d, m, n)
<1>1. ASSUME NEW i \in 1 .. k + p
      PROVE  \/ i \in 1 .. k /\ c[i] = a[i]
             \/ i - k \in 1 .. p + m /\ i - k <= p /\ c[i] = b[i - k] /\ i > k
  <2>1. CASE i <= k
    BY <2>1 DEF TakesFirst
  <2>2. CASE i > k
    <3>1. i - k \in 1 .. p /\ k + (i - k) = i
      BY <2>2
    <3> QED BY <2>2, <3>1 DEF TakesFirst
  <2> QED BY <2>1, <2>2
<1>2. \A i \in 1 .. m : p + i \in 1 .. p + m /\ d[i] = b[p + i]
  BY DEF TakesFirst
<1>3. ASSUME NEW i \in 1 .. k + p, NEW j \in 1 .. k + p, i < j
      PROVE  c[i] < c[j]
  BY <1>1, <1>3 DEF Climbs
<1>4. ASSUME NEW i \in 1 .. m, NEW j \in 1 .. m, i < j
      PROVE  d[i] < d[j]
  BY <1>2, <1>4 DEF Climbs
<1>5. ASSUME NEW i \in 1 .. k + p, NEW j \in 1 .. m
      PROVE  c[i] < d[j]
  BY <1>1, <1>2 DEF Climbs
<1>6. /\ \A i \in 1 .. k + p : c[i] < n
      /\ \A i \in 1 .. m : d[i] < n
  BY <1>1, <1>2 DEF Climbs
<1> QED BY <1>3, <1>4, <1>5, <1>6 DEF Climbs

LEMMA RisingMade ==
  ASSUME NEW log \in Seq(Nat), NEW fifo \in Seq(Nat), NEW n \in Nat, Rising(log, fifo, n)
  PROVE  Rising(log, Append(fifo, n), n + 1)
<1> DEFINE full == Append(fifo, n)
<1>1. /\ Len(full) = Len(fifo) + 1 /\ full[Len(fifo) + 1] = n
      /\ \A i \in 1 .. Len(fifo) : full[i] = fifo[i]
      /\ \A i \in 1 .. Len(fifo) : fifo[i] \in Nat
      /\ \A i \in 1 .. Len(log) : log[i] \in Nat
      /\ Len(fifo) \in Nat /\ Len(log) \in Nat
  OBVIOUS
<1> HIDE DEF full
<1>2. Climbs(log, Len(log), full, Len(fifo) + 1, n + 1)
  BY <1>1, ClimbsMade DEF Rising
<1> QED BY <1>1, <1>2 DEF Rising, full

LEMMA RisingMoved ==
  ASSUME NEW log \in Seq(Nat), NEW s \in Seq(Nat), NEW f \in Seq(Nat), NEW n \in Nat,
         Rising(log, s \o f, n)
  PROVE  Rising(log \o s, f, n)
<1> DEFINE full == s \o f
           new == log \o s
<1>1. /\ Len(full) = Len(s) + Len(f)
      /\ \A i \in 1 .. Len(s) + Len(f) :
           full[i] = IF i <= Len(s) THEN s[i] ELSE f[i - Len(s)]
  BY ConcatProperties
<1>2. /\ Len(new) = Len(log) + Len(s)
      /\ \A i \in 1 .. Len(log) + Len(s) :
           new[i] = IF i <= Len(log) THEN log[i] ELSE s[i - Len(log)]
  BY ConcatProperties
<1> DEFINE k == Len(log)
           p == Len(s)
           m == Len(f)
<1>3. p \in Nat /\ m \in Nat /\ k \in Nat
  OBVIOUS
<1>4. Climbs(log, k, full, p + m, n)
  BY <1>1 DEF Rising
<1>5. \A i \in 1 .. p + m : full[i] = IF i <= p THEN s[i] ELSE f[i - p]
  BY <1>1
<1>6. \A i \in 1 .. k + p : new[i] = IF i <= k THEN log[i] ELSE s[i - k]
  BY <1>2
<1> HIDE DEF full, new, k, p, m
<1>7. ASSUME NEW i \in 1 .. k
      PROVE  new[i] = log[i]
  <2>1. i \in 1 .. k + p /\ i <= k
    BY <1>3
  <2> QED BY <1>6, <2>1
<1>8. ASSUME NEW i \in 1 .. p
      PROVE  new[k + i] = full[i]
  <2>1. k + i \in 1 .. k + p /\ ~(k + i <= k) /\ (k + i) - k = i /\ i \in 1 .. p + m /\ i <= p
    BY <1>3
  <2> QED BY <1>5, <1>6, <2>1
<1>9. ASSUME NEW i \in 1 .. m
      PROVE  f[i] = full[p + i]
  <2>1. p + i \in 1 .. p + m /\ ~(p + i <= p) /\ (p + i) - p = i
    BY <1>3
  <2> QED BY <1>5, <2>1
<1>10. Climbs(new, k + p, f, m, n)
  <2>1. TakesFirst(log, k, full, p, m, new, f)
    BY <1>7, <1>8, <1>9, Zenon DEF TakesFirst
  <2> DEFINE q == p + m
             r == k + p
  <2>2. q = p + m /\ r = k + p /\ Climbs(log, k, full, q, n)
    BY <1>4
  <2> HIDE DEF q, r
  <2>3. Climbs(new, r, f, m, n)
    BY ONLY <1>3, <2>1, <2>2, n \in Nat, ClimbsMoved
  <2> QED BY <2>2, <2>3
<1>11. Len(new) = k + p
  BY <1>2 DEF k, p
<1> QED BY <1>10, <1>11 DEF Rising, new, m

LEMMA RisingDropped ==
  ASSUME NEW log \in Seq(Nat), NEW fifo \in Seq(Nat), fifo # <<>>, NEW n \in Nat,
         Rising(log, fifo, n)
  PROVE  Rising(log, Tail(fifo), n)
<1> DEFINE f == Tail(fifo)
<1>0. /\ Tail(fifo) \in Seq(Nat) /\ Len(Tail(fifo)) = Len(fifo) - 1
      /\ \A i \in 1 .. Len(Tail(fifo)) : Tail(fifo)[i] = fifo[i + 1]
  BY HeadTailProperties
<1>1. /\ Len(fifo) \in Nat /\ Len(log) \in Nat /\ Len(f) = Len(fifo) - 1 /\ Len(f) \in Nat
      /\ \A i \in 1 .. Len(f) : f[i] = fifo[i + 1]
  <2> HIDE DEF f
  <2>1. f \in Seq(Nat)
    BY <1>0 DEF f
  <2> QED BY <1>0, <2>1 DEF f
<1> DEFINE k == Len(log)
           m == Len(f)
<1>2. Climbs(log, k, fifo, m + 1, n) /\ k \in Nat /\ m \in Nat
  BY <1>1 DEF Rising
<1>3. \A i \in 1 .. m : f[i] = fifo[i + 1]
  BY <1>1
<1> HIDE DEF f, k, m
<1>4. \A i \in 1 .. m : f[i] = fifo[i + 1] /\ i + 1 \in 1 .. m + 1
  BY <1>2, <1>3
<1>5. ASSUME NEW i \in 1 .. m, NEW j \in 1 .. m, i < j
      PROVE  f[i] < f[j]
  BY <1>2, <1>4, <1>5 DEF Climbs
<1>6. Climbs(log, k, f, m, n)
  BY <1>2, <1>4, <1>5 DEF Climbs
<1> QED BY <1>6 DEF Rising, f, k, m

LEMMA StreamPoll ==
  ASSUME GdmaTyped, StreamInv, NEW due \in SUBSET Sides, GdmaPoll(due)
  PROVE  StreamInv'
<1> SUFFICES ASSUME rx_clean'
             PROVE  /\ Rising(rx_log', rx_fifo', rx_sample')
                    /\ ~rx_cut' => LogCounts' /\ FifoCounts'
  BY DEF StreamInv, Rising, Climbs
<1>1. rx_clean /\ Rising(rx_log, rx_fifo, rx_sample) /\ (rx_cut => rx_cut')
  BY PollRx DEF StreamInv
<1>2. CASE ~RxRuns(due)
  <2>1. UNCHANGED <<rx_log, rx_fifo, rx_sample>> /\ (rx_cut' <=> rx_cut)
    BY <1>2, PollRx
  <2> QED BY <1>1, <2>1 DEF StreamInv, LogCounts, FifoCounts
<1>3. CASE RxRuns(due)
  <2>1. /\ rx_sample < MaxSample
        /\ rx_fifo' = RxFilled.fifo /\ rx_sample' = RxFilled.sample
        /\ rx_log' = rx_log \o RxFilled.stored
        /\ (rx_cut' <=> rx_cut \/ RxFilled.bad)
    BY <1>3, PollRx
  <2>2. GdmaTypeOK
    BY DEF GdmaTyped
  <2>3. rx_log \in Seq(Nat) /\ rx_fifo \in Seq(Nat) /\ rx_sample \in Nat
    BY <2>2 DEF GdmaTypeOK
  <2> DEFINE n == RxFilled.sample
             full == IF n = rx_sample THEN rx_fifo ELSE Append(rx_fifo, rx_sample)
  <2>4. n \in {rx_sample, rx_sample + 1}
    BY <2>1, <2>2, RxFilledIs
  <2>5. full \in Seq(Nat) /\ n \in Nat
    BY <2>3, <2>4
  <2>6. Rising(rx_log, full, n)
    <3>1. CASE n = rx_sample
      BY <3>1, <1>1
    <3>2. CASE n # rx_sample
      <4>1. n = rx_sample + 1 /\ full = Append(rx_fifo, rx_sample)
        BY <2>4, <3>2
      <4> HIDE DEF n, full
      <4> QED BY <1>1, <2>3, <4>1, RisingMade
    <3> QED BY <3>1, <3>2
  <2>7. CASE RxFilled.bad
    <3>1. RxFilled.stored = <<>> /\ RxFilled.fifo = Tail(full) /\ full # <<>>
      BY <2>1, <2>2, <2>7, RxFilledIs
    <3> HIDE DEF n, full
    <3>2. rx_log' = rx_log /\ rx_fifo' = Tail(full) /\ rx_sample' = n /\ rx_cut'
      BY <2>1, <2>3, <2>7, <3>1, ConcatEmptySeq DEF n
    <3> QED BY <2>3, <2>5, <2>6, <3>1, <3>2, RisingDropped
  <2>8. CASE ~RxFilled.bad
    <3> DEFINE s == RxFilled.stored
               f == RxFilled.fifo
    <3>1. s \in Seq(Nat) /\ f \in Seq(Nat) /\ s \o f = full
      BY <2>1, <2>2, <2>8, RxFilledIs
    <3> HIDE DEF s, f, n
    <3>2. Rising(rx_log', rx_fifo', rx_sample')
      <4>1. Rising(rx_log \o s, f, n)
        <5> HIDE DEF full
        <5> QED BY <2>3, <2>5, <2>6, <3>1, RisingMoved
      <4> QED BY <2>1, <4>1 DEF s, f, n
    <3> SUFFICES ASSUME ~rx_cut'
                 PROVE  LogCounts' /\ FifoCounts'
      BY <3>2
    <3>3. LogCounts /\ FifoCounts
      BY <1>1 DEF StreamInv
    <3>4. /\ Len(rx_log) \in Nat /\ Len(rx_fifo) \in Nat /\ Len(s) \in Nat /\ Len(f) \in Nat
      BY <2>3, <3>1
    <3>5. /\ full \in Seq(Nat) /\ Len(rx_log) + Len(full) = n
          /\ \A i \in 1 .. Len(full) : full[i] = Len(rx_log) + i - 1
      <4>1. CASE n = rx_sample
        BY <4>1, <2>3, <3>3 DEF FifoCounts
      <4>2. CASE n # rx_sample
        <5>1. full = Append(rx_fifo, rx_sample) /\ n = rx_sample + 1
          BY <2>4, <4>2
        <5>2. /\ full \in Seq(Nat) /\ Len(full) = Len(rx_fifo) + 1
              /\ full[Len(rx_fifo) + 1] = rx_sample
              /\ \A i \in 1 .. Len(rx_fifo) : full[i] = rx_fifo[i]
          BY <2>3, <5>1
        <5> HIDE DEF full
        <5>3. Len(rx_log) + Len(full) = n
          <6>1. n = rx_sample + 1 /\ Len(full) = Len(rx_fifo) + 1
            BY <5>1, <5>2
          <6>2. Len(rx_log) + Len(rx_fifo) = rx_sample
            BY <3>3 DEF FifoCounts
          <6> QED BY <3>4, <6>1, <6>2
        <5>4. ASSUME NEW i \in 1 .. Len(full)
              PROVE  full[i] = Len(rx_log) + i - 1
          <6>1. CASE i \in 1 .. Len(rx_fifo)
            BY <6>1, <3>3, <5>2 DEF FifoCounts
          <6>2. CASE i = Len(rx_fifo) + 1
            BY <6>2, <3>3, <3>4, <5>2 DEF FifoCounts
          <6> QED BY <6>1, <6>2, <3>4, <5>2
        <5> QED BY <5>2, <5>3, <5>4
      <4> QED BY <4>1, <4>2
    <3>6. /\ Len(full) = Len(s) + Len(f)
          /\ \A i \in 1 .. Len(s) + Len(f) :
               full[i] = IF i <= Len(s) THEN s[i] ELSE f[i - Len(s)]
      <4>1. /\ Len(s \o f) = Len(s) + Len(f)
            /\ \A i \in 1 .. Len(s) + Len(f) :
                 (s \o f)[i] = IF i <= Len(s) THEN s[i] ELSE f[i - Len(s)]
        BY <3>1, ConcatProperties
      <4> HIDE DEF full
      <4> QED BY <3>1, <4>1
    <3> DEFINE log == rx_log \o s
    <3>7. /\ Len(log) = Len(rx_log) + Len(s)
          /\ \A i \in 1 .. Len(rx_log) + Len(s) :
               log[i] = IF i <= Len(rx_log) THEN rx_log[i] ELSE s[i - Len(rx_log)]
      BY <2>3, <3>1, ConcatProperties
    <3> HIDE DEF full, log
    <3>8. ASSUME NEW i \in 1 .. Len(log)
          PROVE  log[i] = i - 1
      <4>1. CASE i <= Len(rx_log)
        BY <4>1, <3>3, <3>4, <3>7 DEF LogCounts
      <4>2. CASE i > Len(rx_log)
        <5> DEFINE j == i - Len(rx_log)
        <5>1. /\ j \in 1 .. Len(s) /\ j \in 1 .. Len(full) /\ i = Len(rx_log) + j
              /\ j \in 1 .. Len(s) + Len(f) /\ j <= Len(s)
          BY <4>2, <3>4, <3>6, <3>7
        <5>2. log[i] = s[j]
          BY <4>2, <3>4, <3>7
        <5> HIDE DEF j
        <5>3. full[j] = s[j]
          BY <5>1, <3>6
        <5> QED BY <5>1, <5>2, <5>3, <3>4, <3>5
      <4> QED BY <4>1, <4>2, <3>4
    <3>9. ASSUME NEW i \in 1 .. Len(f)
          PROVE  f[i] = Len(log) + i - 1
      <4> DEFINE j == i + Len(s)
      <4>1. j \in 1 .. Len(full) /\ j \in 1 .. Len(s) + Len(f) /\ ~(j <= Len(s))
            /\ j - Len(s) = i
        BY <3>4, <3>6
      <4> HIDE DEF j
      <4>2. full[j] = f[i] /\ full[j] = Len(rx_log) + j - 1
        BY <4>1, <3>5, <3>6
      <4> QED BY <4>1, <4>2, <3>4, <3>7
    <3>10. Len(log) + Len(f) = n
      BY <3>4, <3>5, <3>6, <3>7
    <3>11. rx_log' = log /\ rx_fifo' = f /\ rx_sample' = n
      BY <2>1 DEF log, s, f, n
    <3> QED BY <3>8, <3>9, <3>10, <3>11 DEF LogCounts, FifoCounts
  <2> QED BY <2>7, <2>8
<1> QED BY <1>2, <1>3

LEMMA StreamStep ==
  ASSUME GdmaTyped, StreamInv, [GdmaNext]_gdmaVars
  PROVE  StreamInv'
<1>1. ASSUME UNCHANGED <<rx_fifo, rx_sample, rx_log, rx_clean, rx_cut>>
      PROVE  StreamInv'
  BY <1>1 DEF StreamInv, Rising, Climbs, LogCounts, FifoCounts
<1>2. CASE TxGuest
  BY <1>1, <1>2 DEF TxGuest, TxStart, TxLink, TxReset, DmaCommon, I2sConf, DmaIntEna,
                    DmaIntClr, walkVars, dmaHist, rxHist
<1>3. CASE DmaCommon("rx")
  BY <1>1, <1>3 DEF DmaCommon, I2sConf, DmaIntEna, DmaIntClr, walkVars, dmaHist, rxHist
<1>4. ASSUME NEW a \in Heads, RxStart(a)
      PROVE  StreamInv'
  <2>1. rx_log' = <<>> /\ rx_sample' = 0 /\ (rx_clean' <=> rx_fifo = <<>>) /\ rx_fifo' = rx_fifo
    BY <1>4 DEF RxStart
  <2>2. rx_clean' => Len(rx_fifo') = 0
    BY <2>1
  <2>3. Len(rx_log') = 0
    BY <2>1
  <2> QED BY <2>1, <2>2, <2>3 DEF StreamInv, Rising, Climbs, LogCounts, FifoCounts
<1>5. ASSUME NEW run \in BOOLEAN, RxLink(run)
      PROVE  StreamInv'
  BY <1>1, <1>5 DEF RxLink, rxHist
<1>6. CASE RxReset
  <2>1. UNCHANGED <<rx_log, rx_sample, rx_clean>> /\ rx_cut' /\ rx_fifo' = <<>>
    BY <1>6 DEF RxReset
  <2>2. Len(rx_fifo') = 0
    BY <2>1
  <2> QED BY <2>1, <2>2 DEF StreamInv, Rising, Climbs
<1>7. CASE UNCHANGED gdmaVars
  BY <1>1, <1>7 DEF gdmaVars, walkVars, dmaHist, rxHist
<1>8. CASE RxGuest
  BY <1>3, <1>4, <1>5, <1>6, <1>8 DEF RxGuest
<1> QED BY <1>2, <1>7, <1>8, StreamPoll DEF GdmaNext

(* The samples stored in guest memory since a start go up, and are 0, 1,   *)
(* 2, ... without a gap until a reset or a buffer outside RAM drops some,  *)
(* for every FIFO depth, chain of descriptors and order of starts, stops,  *)
(* restarts, resets and polls, if the FIFO was empty at the start.         *)
THEOREM DevicesRxStream == DevicesSpec => []RxStream
<1> DEFINE Inv == GdmaTyped /\ StreamInv
<1>1. DevicesInit => Inv
  <2> SUFFICES ASSUME DevicesInit PROVE StreamInv
    BY GdmaTypedInit DEF DevicesInit
  <2>1. rx_log = <<>> /\ rx_fifo = <<>> /\ rx_sample = 0
    BY DEF DevicesInit, GdmaInit
  <2>2. Len(rx_log) = 0 /\ Len(rx_fifo) = 0
    BY <2>1
  <2> QED BY <2>1, <2>2 DEF StreamInv, Rising, Climbs, LogCounts, FifoCounts
<1>2. Inv /\ [DevicesNext]_<<deviceVars, driver>> => Inv'
  BY GdmaTypedStep, GdmaSteps, StreamStep
<1>3. Inv => RxStream
  <2> SUFFICES ASSUME Inv, rx_clean
               PROVE  /\ \A i, j \in 1 .. Len(rx_log) : i < j => rx_log[i] < rx_log[j]
                      /\ ~rx_cut => rx_log = [i \in 1 .. Len(rx_log) |-> i - 1]
    BY DEF RxStream
  <2>1. rx_log \in [1 .. Len(rx_log) -> Nat]
    BY LenProperties DEF GdmaTyped, GdmaTypeOK
  <2>2. /\ \A i, j \in 1 .. Len(rx_log) : i < j => rx_log[i] < rx_log[j]
        /\ ~rx_cut => \A i \in 1 .. Len(rx_log) : rx_log[i] = i - 1
    BY DEF StreamInv, LogCounts, Rising, Climbs
  <2> QED BY <2>1, <2>2
<1> QED BY <1>1, <1>2, <1>3, PTL DEF DevicesSpec

----------------------------------------------------------------------------
(* GDMA: the walker stays in the chain it was started on.                  *)

LEMMA ChainHead ==
  ASSUME NEW a \in DescAddrs
  PROVE  a \in Chain(a)
BY DEF Chain

LEMMA ChainClosed ==
  ASSUME NEW a, NEW d \in Chain(a), Descs[d].next \in DescAddrs
  PROVE  Descs[d].next \in Chain(a)
<1> SUFFICES ASSUME NEW S \in SUBSET DescAddrs, a \in S,
                    \A e \in S : Descs[e].next \in DescAddrs => Descs[e].next \in S
             PROVE  Descs[d].next \in S
  BY DEF Chain
<1>1. d \in S
  BY DEF Chain
<1> QED BY <1>1

(* The cached next descriptor, if it is one, belongs to the chain.         *)
HomeChain(a) == rx_home = {Descs[d].buf : d \in Chain(a)}
HomeInv ==
  /\ RxInHome
  /\ rx.next \in DescAddrs => \E a \in Heads : HomeChain(a) /\ rx.next \in Chain(a)

(* A walker that keeps its buffer and next address and has no more left    *)
(* than before keeps the invariant.                                        *)
LEMMA HomeKept ==
  ASSUME HomeInv, UNCHANGED rx_home, rx'.buf = rx.buf, rx'.next = rx.next,
         rx'.left > 0 => rx.left > 0
  PROVE  HomeInv'
BY DEF HomeInv, RxInHome, HomeChain

LEMMA HomePoll ==
  ASSUME GdmaTyped, HomeInv, NEW due \in SUBSET Sides, GdmaPoll(due)
  PROVE  HomeInv'
<1>1. UNCHANGED rx_home
  BY PollRx
<1>2. CASE ~RxRuns(due)
  <2>1. rx' = rx
    BY <1>2, PollRx
  <2> QED BY <1>1, <2>1, HomeKept
<1>3. CASE RxRuns(due)
  <2>1. GdmaTypeOK /\ rx_sample < MaxSample
    BY <1>3, PollRx DEF GdmaTyped
  <2> DEFINE w == RxFilled.w
  <2>2. /\ w \in Walkers /\ w.left \in Nat /\ RxFilled.stored \in Seq(Nat)
        /\ w.left = rx.left - Len(RxFilled.stored)
        /\ w.buf = rx.buf /\ w.next = rx.next
    BY <2>1, RxFilledIs
  <2>3. rx.left \in Nat
    BY <2>1 DEF GdmaTypeOK, Walkers
  <2>4. w.left > 0 => rx.left > 0
    <3>1. Len(RxFilled.stored) \in Nat
      BY <2>2
    <3> HIDE DEF w
    <3> QED BY <2>2, <2>3, <3>1
  <2> HIDE DEF w
  <2>5. CASE ~RxDone(due)
    <3>1. rx' = w
      BY <1>3, <2>5, PollRx DEF w
    <3> QED BY <1>1, <2>2, <2>4, <3>1, HomeKept
  <2>6. CASE RxDone(due)
    <3>1. rx' = Advanced(w) /\ w.left = 0
      BY <2>6, PollRx DEF w, RxDone, Done
    <3>2. CASE Parked(rx') /\ rx'.buf = rx.buf /\ rx'.next = rx.next
      <4>1. ~(rx'.left > 0)
        BY <3>2 DEF Parked
      <4> QED BY <1>1, <3>2, <4>1, HomeKept
    <3>3. CASE /\ w.next \in DescAddrs
               /\ rx'.buf = Descs[w.next].buf /\ rx'.next = Descs[w.next].next
      <4>1. PICK a \in Heads : HomeChain(a) /\ w.next \in Chain(a)
        BY <2>2, <3>3 DEF HomeInv
      <4>2. rx'.buf \in rx_home
        BY <3>3, <4>1 DEF HomeChain
      <4>3. rx'.next \in DescAddrs => rx'.next \in Chain(a)
        BY <3>3, <4>1, ChainClosed
      <4> QED BY <1>1, <4>1, <4>2, <4>3 DEF HomeInv, RxInHome, HomeChain
    <3>4. \/ Parked(Advanced(w)) /\ Advanced(w).buf = w.buf /\ Advanced(w).next = w.next
          \/ /\ w.next \in DescAddrs
             /\ Advanced(w).buf = Descs[w.next].buf
             /\ Advanced(w).next = Descs[w.next].next
      BY <2>2, <3>1, AdvancedIs
    <3> QED BY <2>2, <3>1, <3>2, <3>3, <3>4
  <2> QED BY <2>5, <2>6
<1> QED BY <1>2, <1>3

LEMMA HomeStep ==
  ASSUME GdmaTyped, HomeInv, [GdmaNext]_gdmaVars
  PROVE  HomeInv'
<1>0. rx \in Walkers
  BY DEF GdmaTyped, GdmaTypeOK
<1>1. CASE TxGuest
  <2>1. UNCHANGED <<rx, rx_home>>
    BY <1>1 DEF TxGuest, TxStart, TxLink, TxReset, DmaCommon, I2sConf, DmaIntEna,
                DmaIntClr, walkVars, dmaHist, rxHist
  <2> QED BY <2>1, HomeKept
<1>2. CASE DmaCommon("rx")
  <2>1. UNCHANGED <<rx, rx_home>>
    BY <1>2 DEF DmaCommon, I2sConf, DmaIntEna, DmaIntClr, walkVars, dmaHist, rxHist
  <2> QED BY <2>1, HomeKept
<1>3. ASSUME NEW a \in Heads, RxStart(a)
      PROVE  HomeInv'
  <2>1. CASE a \in DescAddrs
    <3>1. a \in Chain(a)
      BY <2>1, ChainHead
    <3>2. rx'.buf = Descs[a].buf /\ rx'.next = Descs[a].next
      BY <1>0, <1>3, <2>1, StartedIs DEF RxStart
    <3>3. rx_home' = {Descs[d].buf : d \in Chain(a)}
      BY <1>3, <2>1 DEF RxStart
    <3>4. rx'.buf \in rx_home'
      BY <3>1, <3>2, <3>3
    <3>5. rx'.next \in DescAddrs => rx'.next \in Chain(a)
      BY <3>1, <3>2, ChainClosed
    <3> QED BY <3>3, <3>4, <3>5 DEF HomeInv, RxInHome, HomeChain
  <2>2. CASE a \notin DescAddrs
    <3>1. /\ Load(rx, a).left = rx.left /\ Load(rx, a).buf = rx.buf
          /\ Load(rx, a).next = rx.next
      BY <1>0, <2>2, LoadParks
    <3>2. Load(rx, a) \in Walkers
      BY <1>0, LoadType, GdmaAssumption
    <3>3. rx' = [Load(rx, a) EXCEPT !.run = TRUE] /\ UNCHANGED rx_home
      BY <1>3, <2>2 DEF RxStart, Started
    <3>4. rx'.left = rx.left /\ rx'.buf = rx.buf /\ rx'.next = rx.next
      BY <3>1, <3>2, <3>3 DEF Walkers
    <3> QED BY <3>3, <3>4, HomeKept
  <2> QED BY <2>1, <2>2
<1>4. ASSUME NEW run \in BOOLEAN, RxLink(run)
      PROVE  HomeInv'
  <2>1. rx'.left = rx.left /\ rx'.buf = rx.buf /\ rx'.next = rx.next /\ UNCHANGED rx_home
    BY <1>0, <1>4 DEF RxLink, dmaHist, rxHist, Walkers
  <2> QED BY <2>1, HomeKept
<1>5. CASE RxReset
  <2>1. rx'.left = 0 /\ rx'.buf = rx.buf /\ rx'.next = rx.next /\ UNCHANGED rx_home
    BY <1>0, <1>5 DEF RxReset, Walkers
  <2> QED BY <2>1, HomeKept
<1>6. CASE UNCHANGED gdmaVars
  <2>1. UNCHANGED <<rx, rx_home>>
    BY <1>6 DEF gdmaVars, walkVars, dmaHist, rxHist
  <2> QED BY <2>1, HomeKept
<1>7. CASE RxGuest
  BY <1>2, <1>3, <1>4, <1>5, <1>7 DEF RxGuest
<1> QED BY <1>1, <1>6, <1>7, HomePoll DEF GdmaNext

(* Words are only stored in a buffer of the chain that the last start      *)
(* found in RAM, for every set of chains, shared tails included: such a    *)
(* start replaces what the walker had cached, also in the middle of a      *)
(* descriptor and after a reset.  A start outside RAM replaces nothing.    *)
THEOREM DevicesRxInHome == DevicesSpec => []RxInHome
<1> DEFINE Inv == GdmaTyped /\ HomeInv
<1>1. DevicesInit => Inv
  <2> SUFFICES ASSUME DevicesInit PROVE HomeInv
    BY GdmaTypedInit DEF DevicesInit
  <2>1. rx.next = 0 /\ rx.left = 0
    BY DEF DevicesInit, GdmaInit, Idle
  <2> QED BY <2>1, GdmaAssumption DEF HomeInv, RxInHome
<1>2. Inv /\ [DevicesNext]_<<deviceVars, driver>> => Inv'
  BY GdmaTypedStep, GdmaSteps, HomeStep
<1>3. Inv => RxInHome
  BY DEF HomeInv
<1> QED BY <1>1, <1>2, <1>3, PTL DEF DevicesSpec

----------------------------------------------------------------------------
(* Pads: the steps, and what the last check saw.                           *)

GpioAny ==
  \/ \E flip, pulse \in BOOLEAN, drive \in SUBSET Routed : GpioPoll(flip, pulse, drive)
  \/ PadGuest \/ GpioIntGuest \/ PcntGuest

LEMMA GpioSteps == [DevicesNext]_<<deviceVars, driver>> => [GpioAny]_gpioVars
<1> SUFFICES ASSUME [DevicesNext]_<<deviceVars, driver>>
             PROVE  GpioAny \/ UNCHANGED gpioVars
  OBVIOUS
<1>1. CASE PeriodicPoll
  <2>1. PICK flip \in Moves, pulse \in Pulses, drive \in Drives :
          GpioPoll(flip, pulse, drive)
    BY <1>1 DEF PeriodicPoll
  <2>2. flip \in BOOLEAN /\ pulse \in BOOLEAN /\ drive \in SUBSET Routed
    BY <2>1 DEF Moves, Pulses, Drives
  <2> QED BY <2>1, <2>2 DEF GpioAny
<1>2. CASE GpioAccess
  BY <1>2 DEF GpioAccess, GpioAny
<1>3. CASE UartAccess \/ Host \/ I2cAccess \/ GdmaAccess \/ TimerAccess \/ TwaiAccess
           \/ PwmAccess
  BY <1>3 DEF UartAccess, Host, I2cAccess, GdmaAccess, TimerAccess, TwaiAccess, PwmAccess
<1>4. CASE UNCHANGED <<deviceVars, driver>>
  BY <1>4 DEF deviceVars
<1> QED BY <1>1, <1>2, <1>3, <1>4 DEF DevicesNext

(* Two sets of pads agree on the pads S.                                   *)
Agree(S, a, b) == \A p \in S : p \in a <=> p \in b

(* The pads that change without a check; those that firmware and the       *)
(* button drive; the ones that the unit counts.                            *)
Quiet == Routed \cup {Pulse}
Loud == OutPads \ Quiet
Counters == {Channels[i].pin : i \in DOMAIN Channels}

(* The last check saw the pads as they are: the ones firmware and the      *)
(* button drive always, the ones that the unit counts until it has missed  *)
(* a change.                                                               *)
LoudSeen == Agree(Loud, gpio_in_prev, Live)
CountSeen == ~missed => Agree(Counters, gpio_in_prev, Live)
PrevSeen == LoudSeen /\ CountSeen

LEMMA CountsNot ==
  ASSUME NEW a, NEW b, ~CountedPadIn(a, b)
  PROVE  Agree(Counters, a, b)
BY DEF CountedPadIn, Agree, Counters

(* A step checks the edges of the pads and counts them, or the pads and    *)
(* what was seen of them stay.  Outside OutPads no firmware output shows.  *)
Checks ==
  /\ \E more : EdgeCheck(gpio_in_prev', more)
  /\ Agree(Loud, gpio_in_prev', Live')
  /\ ~missed' => ~missed /\ Agree(Counters, gpio_in_prev', Live')
  /\ \A p : p \notin OutPads \cup Quiet => (p \in Live' <=> p \in Live)
  /\ Tally(Live, Live')
  /\ UNCHANGED <<pin_type, pcnt_ena>>
LeavesPads == UNCHANGED <<gpio_in, gpio_out, gpio_enable, gpio_in_prev>>

(* A poll: the pads that the button's check computes are the new ones, but *)
(* for the quiet ones.                                                     *)
LEMMA PollPads ==
  ASSUME PrevSeen, NEW flip \in BOOLEAN, NEW pulse \in BOOLEAN,
         NEW drive \in SUBSET Routed, GpioPoll(flip, pulse, drive)
  PROVE  Checks
<1> DEFINE in == IF ~flip THEN gpio_in
                 ELSE IF Button \in gpio_in THEN gpio_in \ {Button}
                 ELSE gpio_in \cup {Button}
           held == {p \in Pins : LevelMatches(p, p \in in)}
           pulsed == IF pulse THEN in \cup {Pulse} ELSE in \ {Pulse}
           seen == IF flip THEN ButtonPads(in) ELSE gpio_in_prev
           checked == Pads(in, gpio_out, gpio_enable)
           new == Pads(gpio_in', gpio_out, gpio_enable)
<1>1. /\ EdgeCheck(seen, held)
      /\ gpio_in' = (pulsed \ Routed) \cup drive
      /\ Tally(Live, new)
      /\ missed' = (missed \/ CountedPadIn(checked, new) \/ (flip /\ CountedPadIn(ButtonPads(in), checked)))
      /\ UNCHANGED <<gpio_out, gpio_enable, pin_type, pcnt_paused, pcnt_ena>>
  BY DEF GpioPoll
<1>2. gpio_in_prev' = seen
  BY <1>1 DEF EdgeCheck
<1>3. Live' = new
  BY <1>1 DEF Live, Pads, EffOut
<1>4. ASSUME NEW p, p \notin Quiet
      PROVE  p \in gpio_in' <=> p \in in
  BY <1>1, <1>4 DEF Quiet
<1>5. ~flip => in = gpio_in /\ checked = Live /\ seen = gpio_in_prev
  BY DEF Live
<1>6. ASSUME NEW p \in Loud
      PROVE  p \in seen <=> p \in new
  <2>1. p \notin Quiet /\ p \notin Routed /\ p \in OutPads
    BY <1>6 DEF Loud, Quiet
  <2>2. p \in new <=> p \in in \/ (p \in gpio_enable /\ p \in gpio_out)
    BY <1>4, <2>1 DEF Pads, EffOut
  <2>3. CASE flip
    <3>1. p \in seen <=> p \in in \/ (p \in gpio_enable /\ p \in gpio_out)
      BY <2>3 DEF ButtonPads
    <3> QED BY <2>2, <3>1
  <2>4. CASE ~flip
    <3>1. p \in seen <=> p \in Live
      BY <1>5, <1>6, <2>4 DEF PrevSeen, LoudSeen, Agree
    <3>2. p \in Live <=> p \in gpio_in \/ (p \in gpio_enable /\ p \in gpio_out)
      BY <2>1 DEF Live, Pads, EffOut
    <3>3. in = gpio_in
      BY <2>4
    <3> HIDE DEF in, new, seen
    <3> QED BY <2>2, <3>1, <3>2, <3>3
  <2> QED BY <2>3, <2>4
<1>7. ASSUME NEW p, p \notin OutPads \cup Quiet
      PROVE  p \in new <=> p \in Live
  <2>1. p # Button /\ p \notin Quiet /\ p \notin OutPads
    BY <1>7, GpioAssumption
  <2>2. p \in in <=> p \in gpio_in
    BY <2>1
  <2>3. (p \in new <=> p \in gpio_in') /\ (p \in Live <=> p \in gpio_in)
    BY <2>1 DEF Live, Pads, EffOut
  <2> HIDE DEF in, new
  <2> QED BY <1>4, <2>1, <2>2, <2>3
<1> HIDE DEF in, held, pulsed, seen, checked, new
<1>8. ~missed' => ~missed /\ Agree(Counters, seen, new)
  <2> SUFFICES ASSUME ~missed'
               PROVE  ~missed /\ Agree(Counters, seen, new)
    OBVIOUS
  <2>1. ~missed /\ Agree(Counters, checked, new)
    BY <1>1, CountsNot
  <2>2. CASE flip
    <3>1. Agree(Counters, ButtonPads(in), checked) /\ seen = ButtonPads(in)
      BY <1>1, <2>2, CountsNot DEF seen
    <3> QED BY <2>1, <3>1 DEF Agree
  <2>3. CASE ~flip
    <3>1. Agree(Counters, gpio_in_prev, Live)
      BY <2>1 DEF PrevSeen, CountSeen
    <3> QED BY <1>5, <2>1, <2>3, <3>1 DEF Agree
  <2> QED BY <2>2, <2>3
<1>9. Agree(Loud, seen, new)
  BY <1>6 DEF Agree
<1> QED BY <1>1, <1>2, <1>3, <1>7, <1>8, <1>9 DEF Checks

(* A write of outputs or enables: they are the new pads themselves.        *)
LEMMA DrivePads ==
  ASSUME NEW out, NEW enable, GpioDrive(out, enable)
  PROVE  Checks
<1> DEFINE new == Pads(gpio_in, out, enable)
<1>1. Live' = new
  BY DEF GpioDrive, Live, Pads, EffOut
<1>2. gpio_in_prev' = new
  BY DEF GpioDrive, EdgeCheck
<1>3. /\ EdgeCheck(new, {})
      /\ Tally(Live, new)
      /\ UNCHANGED <<pin_type, pcnt_ena, missed>>
  BY DEF GpioDrive
<1>4. \A p : p \notin OutPads \cup Quiet => (p \in new <=> p \in Live)
  BY DEF Live, Pads, EffOut
<1>5. \A S : Agree(S, new, new)
  BY DEF Agree
<1> HIDE DEF new
<1> QED BY <1>1, <1>2, <1>3, <1>4, <1>5 DEF Checks

LEMMA GpioStepIs ==
  ASSUME PrevSeen, [GpioAny]_gpioVars
  PROVE  \/ Checks
         \/ LeavesPads /\ UNCHANGED gpioVars
         \/ LeavesPads /\ GpioIntGuest
         \/ LeavesPads /\ PcntGuest
<1>1. ASSUME NEW flip \in BOOLEAN, NEW pulse \in BOOLEAN, NEW drive \in SUBSET Routed,
             GpioPoll(flip, pulse, drive)
      PROVE  Checks
  BY <1>1, PollPads
<1>2. PadGuest => Checks
  BY DrivePads DEF PadGuest
<1>3. ASSUME \/ UNCHANGED gpioVars \/ GpioIntGuest \/ PcntGuest
      PROVE  LeavesPads
  BY <1>3 DEF gpioVars, padVars, GpioIntGuest, GpioPin, GpioStatusSet, GpioStatusClear,
         PcntGuest, PcntIntEna, PcntIntClr, PcntCtrl, LeavesPads
<1> QED BY <1>1, <1>2, <1>3 DEF GpioAny

LEMMA PrevSeenInit == GpioInit => PrevSeen
BY DEF GpioInit, PrevSeen, LoudSeen, CountSeen, Agree, Live, Pads, EffOut

LEMMA PrevSeenStep ==
  ASSUME PrevSeen, [GpioAny]_gpioVars
  PROVE  PrevSeen'
<1>1. CASE Checks
  BY <1>1 DEF Checks, PrevSeen, LoudSeen, CountSeen, Agree, Live, Pads, EffOut
<1>2. CASE LeavesPads
  <2>1. Live' = Live /\ gpio_in_prev' = gpio_in_prev
    BY <1>2 DEF LeavesPads, Live, Pads, EffOut
  <2>2. LoudSeen'
    BY <2>1 DEF PrevSeen, LoudSeen, Agree
  <2>3. CASE missed' = missed
    BY <2>1, <2>2, <2>3 DEF PrevSeen, CountSeen, Agree
  <2>4. ASSUME NEW reset \in BOOLEAN, NEW pause \in BOOLEAN, PcntCtrl(reset, pause)
        PROVE  CountSeen'
    <3>1. CASE reset
      <4>1. missed' = CountedPadIn(gpio_in_prev, Live)
        BY <2>4, <3>1 DEF PcntCtrl
      <4>2. ~missed' => Agree(Counters, gpio_in_prev, Live)
        BY <4>1, CountsNot
      <4> QED BY <2>1, <4>2 DEF CountSeen, Agree
    <3>2. CASE ~reset
      <4>1. missed' = missed
        BY <2>4, <3>2 DEF PcntCtrl
      <4> QED BY <2>1, <4>1 DEF PrevSeen, CountSeen, Agree
    <3> QED BY <3>1, <3>2
  <2>5. CASE GpioIntGuest \/ UNCHANGED gpioVars
    <3>1. missed' = missed
      BY <2>5 DEF gpioVars, padVars, GpioIntGuest, GpioPin, GpioStatusSet, GpioStatusClear
    <3> QED BY <2>3, <3>1
  <2>6. CASE PcntGuest
    <3>1. ASSUME PcntIntClr \/ \E on \in BOOLEAN : PcntIntEna(on)
          PROVE  PrevSeen'
      BY <2>3, <3>1 DEF PcntIntEna, PcntIntClr, padVars
    <3> QED BY <2>2, <2>4, <2>6, <3>1 DEF PcntGuest, PrevSeen
  <2>7. CASE Checks
    BY <1>1, <2>7
  <2> QED BY <2>5, <2>6, <2>7, GpioStepIs
<1> QED BY <1>1, <1>2, GpioStepIs

(* A check raises the interrupts of all the changes since the last one.    *)
LEMMA CheckAnnounces ==
  ASSUME PrevSeen, Checks
  PROVE  ChangeAnnounced(Live, Live')
<1> SUFFICES ASSUME NEW p, p \in (Live' \ Live) \cup (Live \ Live'), p \notin Quiet,
                    Triggers(p, p \in Live')
             PROVE  p \in gpio_status'
  BY DEF ChangeAnnounced, Quiet
<1>0. p \in Loud
  BY DEF Checks, Loud
<1>1. PICK more : EdgeCheck(gpio_in_prev', more)
  BY DEF Checks
<1> DEFINE new == gpio_in_prev'
           changed == (new \ gpio_in_prev) \cup (gpio_in_prev \ new)
<1>2. (p \in new <=> p \in Live') /\ (p \in gpio_in_prev <=> p \in Live)
  BY <1>0 DEF Checks, PrevSeen, LoudSeen, Agree
<1>3. p \in changed
  BY <1>2
<1>4. Triggers(p, p \in new)
  BY <1>2 DEF Triggers, LevelMatches
<1>5. gpio_status' = gpio_status \cup (more \cup {x \in changed : Triggers(x, x \in new)})
  BY <1>1 DEF EdgeCheck
<1> HIDE DEF changed, new
<1> QED BY <1>3, <1>4, <1>5

(* A change of a pad that firmware or the button drives is announced in    *)
(* the step that makes it, for every set of pads, routing and interrupt    *)
(* types, and however the polls fall between writes: the edges are found   *)
(* against the pads of the last check, which PrevSeen says are the pads    *)
(* before the step.                                                        *)
THEOREM DevicesEdgesAnnounced == DevicesSpec => EdgesAnnounced
<1>1. DevicesInit => PrevSeen
  BY PrevSeenInit DEF DevicesInit
<1>2. PrevSeen /\ [DevicesNext]_<<deviceVars, driver>> => PrevSeen'
  BY PrevSeenStep, GpioSteps
<1>3. PrevSeen /\ [DevicesNext]_<<deviceVars, driver>>
        => [ChangeAnnounced(Live, Live')]_gpioVars
  <2> SUFFICES ASSUME PrevSeen, [GpioAny]_gpioVars
               PROVE  ChangeAnnounced(Live, Live')
    BY GpioSteps
  <2>1. CASE LeavesPads
    <3>1. Live' = Live
      BY <2>1 DEF LeavesPads, Live, Pads, EffOut
    <3> QED BY <3>1 DEF ChangeAnnounced
  <2> QED BY <2>1, CheckAnnounces, GpioStepIs
<1> QED BY <1>1, <1>2, <1>3, PTL DEF DevicesSpec, EdgesAnnounced

(* The GPIO source is pending exactly while a status bit is set or after   *)
(* STATUS_W1TS of 0, and the counter's only while its event is, for every  *)
(* set of pads.                                                            *)
THEOREM DevicesSourcesBacked == DevicesSpec => []SourcesBacked
<1> DEFINE Inv == PrevSeen /\ SourcesBacked
<1>1. DevicesInit => Inv
  BY PrevSeenInit DEF DevicesInit, GpioInit, SourcesBacked
<1>2. Inv /\ [DevicesNext]_<<deviceVars, driver>> => Inv'
  <2> SUFFICES ASSUME PrevSeen, SourcesBacked, [GpioAny]_gpioVars
               PROVE  SourcesBacked'
    BY GpioSteps, PrevSeenStep
  <2>1. CASE Checks
    <3>1. PICK more : EdgeCheck(gpio_in_prev', more)
      BY <2>1 DEF Checks
    <3>2. PICK fired, hit :
            /\ gpio_status' = gpio_status \cup fired
            /\ gpio_source' = (gpio_source \/ fired # {})
            /\ pcnt_raw' = (pcnt_raw \/ hit)
            /\ pcnt_source' = (pcnt_source \/ (hit /\ pcnt_ena))
            /\ bare' = bare
      BY <3>1 DEF EdgeCheck
    <3> QED BY <3>2 DEF SourcesBacked
  <2>2. CASE UNCHANGED gpioVars
    BY <2>2 DEF gpioVars, gpioInt, pcntInt, SourcesBacked
  <2>3. CASE GpioIntGuest
    <3>1. ASSUME NEW a \in PinArgs, GpioPin(a[1], a[2])
          PROVE  SourcesBacked'
      BY <3>1 DEF GpioPin, gpioInt, pcntInt, SourcesBacked
    <3>2. ASSUME NEW pins \in StatusArgs, GpioStatusSet(pins)
          PROVE  SourcesBacked'
      BY <3>2 DEF GpioStatusSet, pcntInt, SourcesBacked
    <3>3. ASSUME NEW pins \in StatusArgs, GpioStatusClear(pins)
          PROVE  SourcesBacked'
      BY <3>3 DEF GpioStatusClear, pcntInt, SourcesBacked
    <3> QED BY <2>3, <3>1, <3>2, <3>3 DEF GpioIntGuest
  <2>4. CASE PcntGuest
    BY <2>4 DEF PcntGuest, PcntCtrl, PcntIntEna, PcntIntClr, gpioInt, pcntInt, SourcesBacked
  <2> QED BY <2>1, <2>2, <2>3, <2>4, GpioStepIs
<1>3. Inv => SourcesBacked
  OBVIOUS
<1> QED BY <1>1, <1>2, <1>3, PTL DEF DevicesSpec

----------------------------------------------------------------------------
(* The pulse counter.                                                      *)

LEMMA SignedInt ==
  ASSUME NEW n \in Int
  PROVE  Signed(n) \in Int
<1>1. 2 * CntHalf \in Nat \ {0} /\ n + CntHalf \in Int /\ CntHalf \in Nat
  BY GpioAssumption
<1>2. (n + CntHalf) % (2 * CntHalf) \in Int
  BY <1>1, DivRem
<1> QED BY <1>1, <1>2 DEF Signed

LEMMA SignedZero == Signed(0) = 0
<1> DEFINE M == 2 * CntHalf
           x == 0 + CntHalf
<1>1. /\ M \in Nat \ {0} /\ CntHalf \in 0 .. M - 1 /\ x \in Int
      /\ x = M * 0 + CntHalf /\ 0 \in Int
  BY GpioAssumption
<1> HIDE DEF M, x
<1>2. x % M = CntHalf
  BY <1>1, ModUnique
<1>3. CntHalf \in Int
  BY GpioAssumption
<1> QED BY <1>2, <1>3 DEF Signed, M, x

(* Wrapping at every edge is wrapping once.                                *)
LEMMA SignedAdd ==
  ASSUME NEW n \in Int, NEW d \in Int
  PROVE  Signed(Signed(n) + d) = Signed(n + d)
<1> DEFINE M == 2 * CntHalf
           a == n + CntHalf
           r == a % M
<1>1. M \in Nat \ {0} /\ a \in Int /\ CntHalf \in Int
  BY GpioAssumption
<1>2. r \in Int
  BY <1>1, DivRem
<1>3. (r + d) % M = (a + d) % M
  BY <1>1, ModAdd
<1>4. Signed(n) = r - CntHalf
  BY DEF Signed
<1> HIDE DEF r
<1>5. Signed(n) + d + CntHalf = r + d /\ n + d + CntHalf = a + d
  BY <1>1, <1>2, <1>4
<1>6. /\ Signed(Signed(n) + d) = ((Signed(n) + d + CntHalf) % M) - CntHalf
      /\ Signed(n + d) = ((n + d + CntHalf) % M) - CntHalf
  BY DEF Signed
<1> QED BY <1>3, <1>5, <1>6

LEMMA DeltaInt ==
  ASSUME NEW act
  PROVE  Delta(act) \in Int
BY DEF Delta

Units == [cnt : Int, hit : BOOLEAN]

LEMMA EdgeType ==
  ASSUME NEW u \in Units, NEW ch, NEW changed, NEW new
  PROVE  Edge(u, ch, changed, new) \in Units
<1> DEFINE n == Signed(u.cnt + Delta(IF ch.pin \in new THEN ch.rise ELSE ch.fall))
<1>1. u.cnt \in Int
  BY DEF Units
<1>2. n \in Int
  BY <1>1, SignedInt, DeltaInt
<1> HIDE DEF n
<1>3. [cnt |-> n, hit |-> u.hit \/ n \in Watch] \in Units
  BY <1>2 DEF Units
<1> QED BY <1>3 DEF Edge, n

(* The unit's states edge by edge ...                                      *)
LEMMA CountedIs ==
  ASSUME pcnt_cnt \in Int, NEW changed, NEW new
  PROVE  \E f :
           /\ f \in [0 .. Len(Channels) -> Units]
           /\ f[0].cnt = pcnt_cnt
           /\ \A i \in 1 .. Len(Channels) :
                f[i] = Edge(f[i - 1], Channels[i], changed, new)
           /\ Counted(changed, new)
                = f[IF pcnt_paused \/ changed = {} THEN 0 ELSE Len(Channels)]
<1> DEFINE N == Len(Channels)
           e == [cnt |-> pcnt_cnt, hit |-> FALSE]
           T == [i \in 1 .. N |-> [u \in Units |-> Edge(u, Channels[i], changed, new)]]
           unit[i \in 0 .. N] == IF i = 0 THEN e
                                 ELSE Edge(unit[i - 1], Channels[i], changed, new)
<1>1. N \in Nat /\ e \in Units
  BY GpioAssumption DEF Units
<1>2. Stepper(T, N, Units)
  BY EdgeType DEF Stepper
<1>3. \A i \in 1 .. N : \A u \in Units : T[i][u] = Edge(u, Channels[i], changed, new)
  OBVIOUS
<1> HIDE DEF T, e
<1>4. PICK g : Orbit(g, N, Units, e, T)
  BY <1>1, <1>2, Recursion
<1>5. g \in [0 .. N -> Units] /\ g[0] = e
  BY <1>4 DEF Orbit
<1>6. ASSUME NEW i \in 1 .. N
      PROVE  g[i] = Edge(g[i - 1], Channels[i], changed, new)
  <2>1. g[i - 1] \in Units
    BY <1>1, <1>5
  <2> QED BY <1>3, <1>4, <2>1 DEF Orbit
<1>7. g = [i \in 0 .. N |-> IF i = 0 THEN e
                            ELSE Edge(g[i - 1], Channels[i], changed, new)]
  <2> DEFINE h == [i \in 0 .. N |-> IF i = 0 THEN e
                                    ELSE Edge(g[i - 1], Channels[i], changed, new)]
  <2>1. ASSUME NEW i \in 0 .. N
        PROVE  g[i] = h[i]
    <3>1. i = 0 \/ i \in 1 .. N
      BY <1>1
    <3> QED BY <1>5, <1>6, <3>1
  <2> QED BY <1>5, <2>1
<1>8. unit = [i \in 0 .. N |-> IF i = 0 THEN e
                               ELSE Edge(unit[i - 1], Channels[i], changed, new)]
  BY <1>7, Zenon
<1>9. Counted(changed, new) = unit[IF pcnt_paused \/ changed = {} THEN 0 ELSE N]
  BY DEF Counted, e
<1> HIDE DEF unit
<1>10. unit[0] = e
  BY <1>1, <1>8
<1>11. ASSUME NEW i \in 1 .. N
       PROVE  unit[i] = Edge(unit[i - 1], Channels[i], changed, new)
  BY <1>1, <1>8
<1> DEFINE Typed == {i \in Nat : i <= N => unit[i] \in Units}
<1>12. Nat \subseteq Typed
  <2>1. 0 \in Typed
    BY <1>1, <1>10
  <2>2. ASSUME NEW i \in Nat, i \in Typed
        PROVE  i + 1 \in Typed
    <3> SUFFICES ASSUME i + 1 <= N
                 PROVE  unit[i + 1] \in Units
      OBVIOUS
    <3>1. i + 1 \in 1 .. N /\ (i + 1) - 1 = i /\ unit[i] \in Units
      BY <1>1, <2>2
    <3>2. unit[i + 1] = Edge(unit[i], Channels[i + 1], changed, new)
      BY <1>11, <3>1
    <3> QED BY <3>1, <3>2, EdgeType
  <2> HIDE DEF Typed
  <2> QED BY <2>1, <2>2, NatClosure
<1>13. unit \in [0 .. N -> Units]
  <2>1. \A i \in 0 .. N : unit[i] \in Units
    BY <1>1, <1>12
  <2> QED BY <1>8, <2>1
<1>14. unit[0].cnt = pcnt_cnt
  BY <1>10 DEF e
<1> QED BY <1>9, <1>11, <1>13, <1>14

(* ... and what it has to count, edge by edge.                             *)
LEMMA TallyIs ==
  ASSUME counted \in Int, NEW old, NEW new, Tally(old, new)
  PROVE  \E g :
           /\ g \in [0 .. Len(Channels) -> Int]
           /\ g[0] = counted
           /\ \A i \in 1 .. Len(Channels) : g[i] = g[i - 1] + Worth(Channels[i], old, new)
           /\ counted' = g[IF pcnt_paused \/ old = new THEN 0 ELSE Len(Channels)]
<1> DEFINE N == Len(Channels)
           T == [i \in 1 .. N |-> [n \in Int |-> n + Worth(Channels[i], old, new)]]
           sum[i \in 0 .. N] == IF i = 0 THEN counted
                                ELSE sum[i - 1] + Worth(Channels[i], old, new)
<1>1. N \in Nat
  BY GpioAssumption
<1>2. \A i \in 1 .. N : Worth(Channels[i], old, new) \in Int
  BY DeltaInt DEF Worth
<1>3. Stepper(T, N, Int)
  BY <1>2 DEF Stepper
<1>4. \A i \in 1 .. N : \A n \in Int : T[i][n] = n + Worth(Channels[i], old, new)
  OBVIOUS
<1> HIDE DEF T
<1>5. PICK g : Orbit(g, N, Int, counted, T)
  BY <1>1, <1>3, Recursion
<1>6. g \in [0 .. N -> Int] /\ g[0] = counted
  BY <1>5 DEF Orbit
<1>7. ASSUME NEW i \in 1 .. N
      PROVE  g[i] = g[i - 1] + Worth(Channels[i], old, new)
  <2>1. g[i - 1] \in Int
    BY <1>1, <1>6
  <2> QED BY <1>4, <1>5, <2>1 DEF Orbit
<1>8. g = [i \in 0 .. N |-> IF i = 0 THEN counted
                            ELSE g[i - 1] + Worth(Channels[i], old, new)]
  <2> DEFINE h == [i \in 0 .. N |-> IF i = 0 THEN counted
                                    ELSE g[i - 1] + Worth(Channels[i], old, new)]
  <2>1. ASSUME NEW i \in 0 .. N
        PROVE  g[i] = h[i]
    <3>1. i = 0 \/ i \in 1 .. N
      BY <1>1
    <3> QED BY <1>6, <1>7, <3>1
  <2> QED BY <1>6, <2>1
<1>9. sum = [i \in 0 .. N |-> IF i = 0 THEN counted
                              ELSE sum[i - 1] + Worth(Channels[i], old, new)]
  BY <1>8, Zenon
<1>10. counted' = sum[IF pcnt_paused \/ old = new THEN 0 ELSE N]
  BY DEF Tally
<1> HIDE DEF sum
<1>11. sum[0] = counted
  BY <1>1, <1>9
<1>12. ASSUME NEW i \in 1 .. N
       PROVE  sum[i] = sum[i - 1] + Worth(Channels[i], old, new)
  BY <1>1, <1>9
<1> DEFINE Typed == {i \in Nat : i <= N => sum[i] \in Int}
<1>13. Nat \subseteq Typed
  <2>1. 0 \in Typed
    BY <1>1, <1>11
  <2>2. ASSUME NEW i \in Nat, i \in Typed
        PROVE  i + 1 \in Typed
    <3> SUFFICES ASSUME i + 1 <= N
                 PROVE  sum[i + 1] \in Int
      OBVIOUS
    <3>1. i + 1 \in 1 .. N /\ (i + 1) - 1 = i /\ sum[i] \in Int
      BY <1>1, <2>2
    <3>2. sum[i + 1] = sum[i] + Worth(Channels[i + 1], old, new)
      BY <1>12, <3>1
    <3> QED BY <1>2, <3>1, <3>2
  <2> HIDE DEF Typed
  <2> QED BY <2>1, <2>2, NatClosure
<1>14. sum \in [0 .. N -> Int]
  <2>1. \A i \in 0 .. N : sum[i] \in Int
    BY <1>1, <1>13
  <2> QED BY <1>9, <2>1
<1> QED BY <1>10, <1>11, <1>12, <1>14

(* The pads that differ.                                                   *)
Changes(prev, now) == (now \ prev) \cup (prev \ now)

(* One edge: the unit counts what the channel is worth.                    *)
LEMMA EdgeCounts ==
  ASSUME NEW u \in Units, NEW n \in Int, u.cnt = Signed(n),
         NEW ch, ch.pin \in Counters, NEW prev, NEW now, NEW old, NEW new,
         Agree(Counters, prev, old), Agree(Counters, now, new),
         NEW changed, changed = Changes(prev, now)
  PROVE  /\ Edge(u, ch, changed, now).cnt = Signed(n + Worth(ch, old, new))
         /\ Worth(ch, old, new) \in Int
         /\ old = new => Worth(ch, old, new) = 0
         /\ changed = {} => Edge(u, ch, changed, now) = u
<1> DEFINE d == Delta(IF ch.pin \in now THEN ch.rise ELSE ch.fall)
<1> USE DEF Changes
<1>1. (ch.pin \in prev <=> ch.pin \in old) /\ (ch.pin \in now <=> ch.pin \in new)
  BY DEF Agree
<1>2. d \in Int /\ Worth(ch, old, new) \in Int
  BY DeltaInt DEF Worth
<1>3. CASE ch.pin \notin changed
  <2>1. Edge(u, ch, changed, now) = u
    BY <1>3 DEF Edge
  <2>2. ch.pin \notin new \ old /\ ch.pin \notin old \ new
    BY <1>1, <1>3
  <2>3. Worth(ch, old, new) = 0
    BY <2>2 DEF Worth
  <2> QED BY <2>1, <2>3
<1>4. CASE ch.pin \in changed
  <2>1. Edge(u, ch, changed, now).cnt = Signed(u.cnt + d)
    BY <1>4 DEF Edge
  <2>2. Worth(ch, old, new) = d
    <3>1. CASE ch.pin \in now
      BY <1>1, <1>4, <3>1 DEF Worth
    <3>2. CASE ch.pin \notin now
      BY <1>1, <1>4, <3>2 DEF Worth
    <3> QED BY <3>1, <3>2
  <2>3. Signed(u.cnt + d) = Signed(n + d)
    BY <1>2, SignedAdd
  <2>4. old # new /\ changed # {}
    BY <1>1, <1>4
  <2> HIDE DEF d
  <2> QED BY <1>2, <2>1, <2>2, <2>3, <2>4
<1> QED BY <1>3, <1>4

(* All of them: whatever the check saw of the other pads, the unit counts  *)
(* what it has to.                                                         *)
LEMMA CountsTally ==
  ASSUME pcnt_cnt = Signed(counted), counted \in Int,
         NEW prev, NEW now, NEW old, NEW new,
         Agree(Counters, prev, old), Agree(Counters, now, new), Tally(old, new)
  PROVE  /\ Counted((now \ prev) \cup (prev \ now), now).cnt = Signed(counted')
         /\ counted' \in Int
<1> DEFINE N == Len(Channels)
           changed == (now \ prev) \cup (prev \ now)
<1>1. N \in Nat /\ pcnt_cnt \in Int
  BY GpioAssumption, SignedInt
<1>2. PICK f : /\ f \in [0 .. N -> Units] /\ f[0].cnt = pcnt_cnt
               /\ \A i \in 1 .. N : f[i] = Edge(f[i - 1], Channels[i], changed, now)
               /\ Counted(changed, now)
                    = f[IF pcnt_paused \/ changed = {} THEN 0 ELSE N]
  <2> HIDE DEF changed
  <2> QED BY <1>1, CountedIs
<1>3. PICK g : /\ g \in [0 .. N -> Int] /\ g[0] = counted
               /\ \A i \in 1 .. N : g[i] = g[i - 1] + Worth(Channels[i], old, new)
               /\ counted' = g[IF pcnt_paused \/ old = new THEN 0 ELSE N]
  BY TallyIs
<1> DEFINE Right == {i \in Nat : i <= N => /\ f[i].cnt = Signed(g[i])
                                           /\ changed = {} => f[i] = f[0]
                                           /\ old = new => g[i] = g[0]}
<1>4. Nat \subseteq Right
  <2>1. 0 \in Right
    BY <1>2, <1>3
  <2>2. ASSUME NEW i \in Nat, i \in Right
        PROVE  i + 1 \in Right
    <3> SUFFICES ASSUME i + 1 <= N
                 PROVE  /\ f[i + 1].cnt = Signed(g[i + 1])
                        /\ changed = {} => f[i + 1] = f[0]
                        /\ old = new => g[i + 1] = g[0]
      OBVIOUS
    <3>1. /\ i + 1 \in 1 .. N /\ (i + 1) - 1 = i /\ i \in 0 .. N
          /\ f[i].cnt = Signed(g[i])
          /\ changed = {} => f[i] = f[0]
          /\ old = new => g[i] = g[0]
      BY <1>1, <2>2
    <3>2. f[i] \in Units /\ g[i] \in Int
      BY <1>2, <1>3, <3>1
    <3> DEFINE ch == Channels[i + 1]
    <3>3. ch.pin \in Counters
      BY <3>1, GpioAssumption DEF Counters
    <3>4. f[i + 1] = Edge(f[i], ch, changed, now) /\ g[i + 1] = g[i] + Worth(ch, old, new)
      BY <1>2, <1>3, <3>1
    <3>0. changed = Changes(prev, now)
      BY DEF Changes
    <3> HIDE DEF ch, changed
    <3>5. /\ Edge(f[i], ch, changed, now).cnt = Signed(g[i] + Worth(ch, old, new))
          /\ old = new => Worth(ch, old, new) = 0
          /\ changed = {} => Edge(f[i], ch, changed, now) = f[i]
      <4> DEFINE u == f[i]
                 n == g[i]
      <4>1. u \in Units /\ n \in Int /\ u.cnt = Signed(n)
        BY <3>1, <3>2
      <4> HIDE DEF u, n
      <4>2. /\ Edge(u, ch, changed, now).cnt = Signed(n + Worth(ch, old, new))
            /\ old = new => Worth(ch, old, new) = 0
            /\ changed = {} => Edge(u, ch, changed, now) = u
        <5>1. Agree(Counters, prev, old) /\ Agree(Counters, now, new)
          OBVIOUS
        <5> QED BY <5>1, <3>0, <3>3, <4>1, EdgeCounts, SMT
      <4> QED BY <4>2 DEF u, n
    <3> QED BY <3>1, <3>2, <3>4, <3>5
  <2> HIDE DEF Right
  <2> QED BY <2>1, <2>2, NatClosure
<1>5. /\ f[N].cnt = Signed(g[N]) /\ f[0].cnt = Signed(g[0])
      /\ changed = {} => f[N] = f[0]
      /\ old = new => g[N] = g[0]
  <2>1. N \in Right /\ 0 \in Right /\ N <= N /\ 0 <= N
    BY <1>1, <1>4
  <2> HIDE DEF N, changed
  <2> QED BY <2>1
<1> HIDE DEF changed
<1>6. Counted(changed, now).cnt = Signed(counted')
  <2>1. CASE pcnt_paused
    BY <1>2, <1>3, <1>5, <2>1
  <2>2. CASE ~pcnt_paused
    <3>1. Counted(changed, now).cnt = f[N].cnt
      BY <1>2, <1>5, <2>2
    <3>2. counted' = g[N]
      BY <1>3, <1>5, <2>2
    <3> QED BY <1>5, <3>1, <3>2
  <2> QED BY <2>1, <2>2
<1>7. counted' \in Int
  BY <1>1, <1>3
<1> QED BY <1>6, <1>7 DEF changed

(* The unit has counted every edge of its pads once, modulo its width, for *)
(* every set of pads, list of channels, width of the counter and order of  *)
(* writes, button presses and polls, until the pulse source or a           *)
(* peripheral changes a pad that it counts.  Inductive with PrevSeen: an   *)
(* edge is missed or counted twice exactly when the pads seen last are not *)
(* the pads before the step.                                               *)
THEOREM DevicesPcntCounts == DevicesSpec => []PcntCounts
<1> DEFINE Inv == PrevSeen /\ PcntCounts /\ counted \in Int
<1>1. DevicesInit => Inv
  BY PrevSeenInit, SignedZero DEF DevicesInit, GpioInit, PcntCounts
<1>2. Inv /\ [DevicesNext]_<<deviceVars, driver>> => Inv'
  <2> SUFFICES ASSUME PrevSeen, PcntCounts, counted \in Int, [GpioAny]_gpioVars
               PROVE  PcntCounts' /\ counted' \in Int
    BY GpioSteps, PrevSeenStep
  <2>1. CASE Checks
    <3> DEFINE now == gpio_in_prev'
               prev == gpio_in_prev
    <3>1. PICK more : EdgeCheck(now, more)
      BY <2>1 DEF Checks
    <3>2. pcnt_cnt' = Counted((now \ prev) \cup (prev \ now), now).cnt
      BY <3>1 DEF EdgeCheck
    <3>3. Tally(Live, Live')
      BY <2>1 DEF Checks
    <3>4. counted' \in Int
      BY <3>3, GpioAssumption DEF Tally
    <3>5. ASSUME ~missed'
          PROVE  pcnt_cnt' = Signed(counted')
      <4>1. Agree(Counters, prev, Live) /\ Agree(Counters, now, Live')
        BY <2>1, <3>5 DEF Checks, PrevSeen, CountSeen
      <4>2. pcnt_cnt = Signed(counted)
        BY <2>1, <3>5 DEF Checks, PcntCounts
      <4> HIDE DEF now, prev
      <4> QED BY <3>2, <3>3, <4>1, <4>2, CountsTally
    <3> QED BY <3>4, <3>5 DEF PcntCounts, Signed
  <2>2. ASSUME UNCHANGED <<pcnt_cnt, counted, missed>>
        PROVE  PcntCounts' /\ counted' \in Int
    BY <2>2 DEF PcntCounts, Signed
  <2>3. CASE UNCHANGED gpioVars \/ GpioIntGuest
    BY <2>2, <2>3 DEF gpioVars, padVars, GpioIntGuest, GpioPin, GpioStatusSet,
                      GpioStatusClear
  <2>4. ASSUME NEW reset \in BOOLEAN, NEW pause \in BOOLEAN, PcntCtrl(reset, pause)
        PROVE  PcntCounts' /\ counted' \in Int
    <3>1. CASE reset
      <4>1. pcnt_cnt' = 0 /\ counted' = 0
        BY <2>4, <3>1 DEF PcntCtrl
      <4> QED BY <4>1, SignedZero DEF PcntCounts, Signed
    <3>2. CASE ~reset
      BY <2>2, <2>4, <3>2 DEF PcntCtrl
    <3> QED BY <3>1, <3>2
  <2>5. CASE PcntGuest
    BY <2>2, <2>4, <2>5 DEF PcntGuest, PcntIntEna, PcntIntClr, padVars
  <2> QED BY <2>1, <2>3, <2>5, GpioStepIs
<1>3. Inv => PcntCounts
  OBVIOUS
<1> QED BY <1>1, <1>2, <1>3, PTL DEF DevicesSpec

----------------------------------------------------------------------------
(* MCPWM: the ticks of a poll.                                             *)

LEMMA StepsNat == Steps \subseteq Nat
BY PwmAssumption, TimersAssumption, TwaiAssumption DEF Steps

LEMMA PwmSteps ==
  [DevicesNext]_<<deviceVars, driver>>
    => \/ \E d \in Nat : PwmPoll(d)
       \/ PwmGuest
       \/ UNCHANGED pwmVars
<1> SUFFICES ASSUME [DevicesNext]_<<deviceVars, driver>>
             PROVE  (\E d \in Nat : PwmPoll(d)) \/ PwmGuest \/ UNCHANGED pwmVars
  OBVIOUS
<1>1. CASE PeriodicPoll
  <2>1. PICK d \in Steps : PwmPoll(Given({"pwm"}, d))
    BY <1>1 DEF PeriodicPoll
  <2>2. Steps \subseteq Nat
    BY StepsNat
  <2>3. Given({"pwm"}, d) \in Nat
    BY <2>1, <2>2 DEF Given
  <2> QED BY <2>1, <2>3
<1>2. CASE PwmAccess
  BY <1>2 DEF PwmAccess
<1>3. CASE UartAccess \/ Host \/ I2cAccess \/ GdmaAccess \/ TimerAccess \/ TwaiAccess
           \/ GpioAccess
  BY <1>3 DEF UartAccess, Host, I2cAccess, GdmaAccess, TimerAccess, TwaiAccess, GpioAccess
<1>4. CASE UNCHANGED <<deviceVars, driver>>
  BY <1>4 DEF deviceVars
<1> QED BY <1>1, <1>2, <1>3, <1>4 DEF DevicesNext

Mods == {"paused", "up", "down", "updown"}
Stops == {"never", "zero", "peak"}

(* What a tick works on; only a count that a new period has cut off is not *)
(* bounded by the period.                                                  *)
Phases == IF mcpwm_since = "cut" THEN Nat ELSE 0 .. mcpwm_period
TickStates ==
  [running : BOOLEAN, stopat : Stops, phase : Phases,
   dir : {Up, Down}, level : {0, 1}]

LEMMA ActedLevel ==
  ASSUME NEW level \in {0, 1}, NEW act
  PROVE  Acted(level, act) \in {0, 1}
BY DEF Acted

LEMMA AdvancedPhase ==
  ASSUME NEW s \in TickStates, mcpwm_period \in Nat \ {0}
  PROVE  /\ PwmAdvanced(s).phase \in Phases
         /\ PwmAdvanced(s).dir \in {Up, Down}
<1>1. s.phase \in Phases /\ s.dir \in {Up, Down}
  BY DEF TickStates
<1>2. CASE mcpwm_mod = "up"
  BY <1>1, <1>2 DEF PwmAdvanced, Phases
<1>3. CASE mcpwm_mod = "down"
  BY <1>1, <1>3 DEF PwmAdvanced, Phases
<1>4. CASE mcpwm_mod \notin {"up", "down"} /\ s.dir = Up
  BY <1>1, <1>4 DEF PwmAdvanced, Phases
<1>5. CASE mcpwm_mod \notin {"up", "down"} /\ s.dir # Up
  BY <1>1, <1>5 DEF PwmAdvanced, Phases
<1> QED BY <1>2, <1>3, <1>4, <1>5

(* A tick: the timer is stopped, stops, or advances.                       *)
LEMMA TickIs ==
  ASSUME NEW s \in TickStates, mcpwm_period \in Nat \ {0}
  PROVE  /\ Tick(s) \in TickStates
         /\ Tick(s).running => s.running
         /\ Tick(s).running => /\ Tick(s).phase = PwmAdvanced(s).phase
                               /\ Tick(s).dir = PwmAdvanced(s).dir
                               /\ Tick(s).level = Fire(s)
<1>1. CASE ~s.running
  BY <1>1 DEF Tick
<1>2. CASE s.running /\ StopReached(s)
  <2>1. Tick(s) = [s EXCEPT !.running = FALSE, !.stopat = "never"]
    BY <1>2 DEF Tick
  <2>2. Tick(s) \in TickStates
    BY <2>1 DEF TickStates, Stops
  <2>3. ~Tick(s).running
    BY <2>1 DEF TickStates
  <2> QED BY <2>2, <2>3
<1>3. CASE s.running /\ ~StopReached(s)
  <2> DEFINE a == PwmAdvanced(s)
             l == Fire(s)
             ph == a.phase
             dr == a.dir
  <2>1. Tick(s) = [s EXCEPT !.phase = ph, !.dir = dr, !.level = l]
    BY <1>3 DEF Tick
  <2>2. ph \in Phases /\ dr \in {Up, Down}
    BY AdvancedPhase
  <2>3. s.level \in {0, 1}
    BY DEF TickStates
  <2>4. l \in {0, 1}
    BY <2>3, ActedLevel DEF Fire
  <2> HIDE DEF ph, dr, l
  <2>5. Tick(s) \in TickStates
    BY <2>1, <2>2, <2>4 DEF TickStates
  <2>6. Tick(s).phase = ph /\ Tick(s).dir = dr /\ Tick(s).level = l
    BY <2>1 DEF TickStates
  <2> QED BY <1>3, <2>5, <2>6 DEF ph, dr, l
<1> QED BY <1>1, <1>2, <1>3

Counts == mcpwm_running /\ mcpwm_mod # "paused" /\ mcpwm_period # 0

PwmTyped ==
  /\ PwmTypeOK
  /\ mcpwm_period \in Nat /\ mcpwm_mod \in Mods
  /\ mcpwm_running \in BOOLEAN /\ mcpwm_stopat \in Stops
  /\ mcpwm_age \in Nat /\ mcpwm_since \in {"kept", "moved", "cut"}

TicksOf(d) == (mcpwm_frac + PwmElapsed(d)) \div PwmStep
StartState ==
  [running |-> TRUE, stopat |-> mcpwm_stopat, phase |-> mcpwm_phase,
   dir |-> mcpwm_dir, level |-> mcpwm_level]

LEMMA ElapsedNat ==
  ASSUME PwmTyped, NEW d \in Nat
  PROVE  /\ PwmElapsed(d) \in Nat
         /\ mcpwm_frac + PwmElapsed(d) \in Nat
         /\ TicksOf(d) \in Nat
<1>1. mcpwm_skew \in Int /\ mcpwm_frac \in Nat /\ PwmStep \in Nat \ {0}
  BY PwmAssumption DEF PwmTyped, PwmTypeOK
<1>2. PwmElapsed(d) \in Nat
  BY <1>1 DEF PwmElapsed
<1>3. mcpwm_frac + PwmElapsed(d) \in Nat
  BY <1>1, <1>2
<1> QED BY <1>1, <1>2, <1>3, DivInNat DEF TicksOf

(* A poll of a timer that counts: its state tick by tick.                  *)
LEMMA PollTicks ==
  ASSUME PwmTyped, Counts, NEW d \in Nat, PwmPoll(d)
  PROVE  \E f :
           /\ f \in [0 .. TicksOf(d) -> TickStates]
           /\ f[0] = StartState
           /\ \A i \in 1 .. TicksOf(d) : f[i] = Tick(f[i - 1])
           /\ mcpwm_running' = f[TicksOf(d)].running
           /\ mcpwm_stopat' = f[TicksOf(d)].stopat
           /\ mcpwm_phase' = f[TicksOf(d)].phase
           /\ mcpwm_dir' = f[TicksOf(d)].dir
           /\ mcpwm_level' = f[TicksOf(d)].level
<1> DEFINE N == TicksOf(d)
           e == StartState
           T == [i \in 1 .. N |-> [s \in TickStates |-> Tick(s)]]
           after[n \in 0 .. N] == IF n = 0 THEN e ELSE Tick(after[n - 1])
<1>0. mcpwm_period \in Nat \ {0}
  BY DEF Counts, PwmTyped
<1>1. N \in Nat
  BY ElapsedNat
<1>2. e \in TickStates
  BY DEF StartState, TickStates, Phases, PwmTyped, PwmTypeOK, Counts
<1>3. Stepper(T, N, TickStates)
  BY <1>0, TickIs DEF Stepper
<1>4. \A i \in 1 .. N : \A s \in TickStates : T[i][s] = Tick(s)
  OBVIOUS
<1>5. /\ mcpwm_running' = after[N].running /\ mcpwm_stopat' = after[N].stopat
      /\ mcpwm_phase' = after[N].phase /\ mcpwm_dir' = after[N].dir
      /\ mcpwm_level' = after[N].level
  BY DEF PwmPoll, Counts, TicksOf, StartState
<1> HIDE DEF T, e, N
<1>6. PICK g : Orbit(g, N, TickStates, e, T)
  BY <1>1, <1>2, <1>3, Recursion
<1>7. g \in [0 .. N -> TickStates] /\ g[0] = e
  BY <1>6 DEF Orbit
<1>8. ASSUME NEW i \in 1 .. N
      PROVE  g[i] = Tick(g[i - 1])
  <2>1. g[i - 1] \in TickStates
    BY <1>1, <1>7
  <2> QED BY <1>4, <1>6, <2>1 DEF Orbit
<1>9. g = [n \in 0 .. N |-> IF n = 0 THEN e ELSE Tick(g[n - 1])]
  <2> DEFINE h == [n \in 0 .. N |-> IF n = 0 THEN e ELSE Tick(g[n - 1])]
  <2>1. ASSUME NEW i \in 0 .. N
        PROVE  g[i] = h[i]
    <3>1. i = 0 \/ i \in 1 .. N
      BY <1>1
    <3> QED BY <1>7, <1>8, <3>1
  <2> QED BY <1>7, <2>1
<1>10. after = [n \in 0 .. N |-> IF n = 0 THEN e ELSE Tick(after[n - 1])]
  BY <1>9, Zenon
<1> HIDE DEF after
<1>11. after[0] = e
  BY <1>1, <1>10
<1>12. ASSUME NEW i \in 1 .. N
       PROVE  after[i] = Tick(after[i - 1])
  BY <1>1, <1>10
<1> DEFINE Typed == {i \in Nat : i <= N => after[i] \in TickStates}
<1>13. Nat \subseteq Typed
  <2>1. 0 \in Typed
    BY <1>2, <1>11
  <2>2. ASSUME NEW i \in Nat, i \in Typed
        PROVE  i + 1 \in Typed
    <3> SUFFICES ASSUME i + 1 <= N
                 PROVE  after[i + 1] \in TickStates
      OBVIOUS
    <3>1. i + 1 \in 1 .. N /\ (i + 1) - 1 = i /\ after[i] \in TickStates
      BY <1>1, <2>2
    <3>2. after[i + 1] = Tick(after[i])
      BY <1>12, <3>1
    <3> QED BY <1>0, <3>1, <3>2, TickIs
  <2> HIDE DEF Typed
  <2> QED BY <2>1, <2>2, NatClosure
<1>14. after \in [0 .. N -> TickStates]
  <2>1. \A i \in 0 .. N : after[i] \in TickStates
    BY <1>1, <1>13
  <2> QED BY <1>10, <2>1
<1> QED BY <1>5, <1>11, <1>12, <1>14 DEF e, N

LEMMA PwmTypedInit == PwmInit => PwmTyped
<1> SUFFICES ASSUME PwmInit PROVE PwmTyped
  OBVIOUS
<1>1. PwmStep \in Nat \ {0} /\ PwmAhead \in Nat /\ PwmBehind \in Nat
  BY PwmAssumption
<1>2. 0 \in 0 .. PwmStep - 1 /\ 0 \in -PwmBehind - 0 .. PwmAhead
  BY <1>1
<1>3. PwmTypeOK
  BY <1>2 DEF PwmInit, PwmTypeOK, Up, Down
<1> QED BY <1>3 DEF PwmInit, PwmTyped, Mods, Stops

LEMMA PwmTypedPoll ==
  ASSUME PwmTyped, NEW d \in Nat, PwmPoll(d)
  PROVE  PwmTyped'
<1>1. CASE Counts
  <2>0. PwmStep \in Nat \ {0} /\ PwmAhead \in Nat /\ PwmBehind \in Nat
    BY PwmAssumption
  <2> DEFINE N == TicksOf(d)
             total == mcpwm_frac + PwmElapsed(d)
  <2>1. PICK f :
          /\ f \in [0 .. N -> TickStates]
          /\ mcpwm_running' = f[N].running /\ mcpwm_stopat' = f[N].stopat
          /\ mcpwm_phase' = f[N].phase /\ mcpwm_dir' = f[N].dir /\ mcpwm_level' = f[N].level
    <3> HIDE DEF N
    <3> QED BY <1>1, PollTicks DEF N
  <2>2. N \in Nat /\ total \in Nat
    BY ElapsedNat
  <2>3. /\ mcpwm_frac' = total % PwmStep /\ mcpwm_skew' = 0 /\ mcpwm_age' = mcpwm_age + d
        /\ UNCHANGED <<mcpwm_period, mcpwm_mod, mcpwm_since>>
    BY <1>1 DEF PwmPoll, Counts
  <2> HIDE DEF N, total
  <2>4. f[N] \in TickStates
    BY <2>1, <2>2
  <2>5. /\ mcpwm_running' \in BOOLEAN /\ mcpwm_stopat' \in Stops
        /\ mcpwm_phase' \in Phases /\ mcpwm_dir' \in {Up, Down}
        /\ mcpwm_level' \in {0, 1}
    BY <2>1, <2>4 DEF TickStates
  <2>6. mcpwm_frac' \in 0 .. PwmStep - 1
    BY <2>0, <2>2, <2>3, ModInRange
  <2>7. /\ mcpwm_period' \in Nat /\ mcpwm_mod' \in Mods /\ mcpwm_age' \in Nat
        /\ mcpwm_since' \in {"kept", "moved", "cut"}
    BY <2>3 DEF PwmTyped
  <2>8. mcpwm_phase' \in Nat /\ (mcpwm_since' # "cut" => mcpwm_phase' \in 0 .. mcpwm_period')
    BY <2>3, <2>5, <2>7 DEF Phases
  <2>9. mcpwm_skew' \in -PwmBehind - mcpwm_age' .. PwmAhead
    BY <2>0, <2>3, <2>7
  <2> QED BY <2>5, <2>6, <2>7, <2>8, <2>9 DEF PwmTyped, PwmTypeOK
<1>2. CASE ~mcpwm_running
  <2>1. UNCHANGED pwmVars
    BY <1>2 DEF PwmPoll
  <2> QED BY <2>1 DEF pwmVars, countVars, PwmTyped, PwmTypeOK
<1>3. CASE mcpwm_running /\ ~Counts
  <2>1. /\ mcpwm_skew' = mcpwm_skew - d /\ mcpwm_age' = mcpwm_age + d
        /\ UNCHANGED <<mcpwm_period, mcpwm_mod, mcpwm_running, mcpwm_stopat, mcpwm_frac,
                       mcpwm_phase, mcpwm_dir, mcpwm_level, mcpwm_since>>
    BY <1>3 DEF PwmPoll, Counts
  <2>2. mcpwm_age' \in Nat /\ mcpwm_skew' \in -PwmBehind - mcpwm_age' .. PwmAhead
    BY <2>1, PwmAssumption DEF PwmTyped, PwmTypeOK
  <2> QED BY <2>1, <2>2 DEF PwmTyped, PwmTypeOK
<1> QED BY <1>1, <1>2, <1>3

LEMMA PwmTypedGuest ==
  ASSUME PwmTyped, PwmGuest
  PROVE  PwmTyped'
<1> USE DEF PwmTyped, PwmTypeOK
<1>1. ASSUME NEW period \in PeriodArgs, PwmPeriod(period)
      PROVE  PwmTyped'
  BY <1>1, PwmAssumption DEF PwmPeriod, countVars
<1>2. ASSUME NEW mod \in Mods, PwmStop(mod)
      PROVE  PwmTyped'
  BY <1>2 DEF PwmStop, countVars, Stops
<1>3. ASSUME NEW mod \in Mods, NEW stopat \in Stops, NEW skew \in -PwmBehind .. PwmAhead,
             PwmStart(mod, stopat, skew)
      PROVE  PwmTyped'
  <2>1. PwmStep \in Nat \ {0}
    BY PwmAssumption
  <2> QED BY <1>3, <2>1, PwmAssumption DEF PwmStart
<1>4. ASSUME NEW mod \in Mods, PwmMode(mod)
      PROVE  PwmTyped'
  BY <1>4 DEF PwmMode, countVars
<1> QED BY <1>1, <1>2, <1>3, <1>4 DEF PwmGuest, Mods, Stops

LEMMA PwmTypedStep ==
  ASSUME PwmTyped, [DevicesNext]_<<deviceVars, driver>>
  PROVE  PwmTyped'
<1>1. CASE UNCHANGED pwmVars
  BY <1>1 DEF pwmVars, countVars, PwmTyped, PwmTypeOK
<1> QED BY <1>1, PwmSteps, PwmTypedPoll, PwmTypedGuest

(* A timer that counts is inside its period after any number of ticks,     *)
(* unless a period below its count was written, and the fraction is below  *)
(* a tick, for every period, prescaler and generator.                      *)
THEOREM DevicesPwmType == DevicesSpec => []PwmTypeOK
<1>1. DevicesInit => PwmTyped
  BY PwmTypedInit DEF DevicesInit
<1>2. PwmTyped /\ [DevicesNext]_<<deviceVars, driver>> => PwmTyped'
  BY PwmTypedStep
<1>3. PwmTyped => PwmTypeOK
  BY DEF PwmTyped
<1> QED BY <1>1, <1>2, <1>3, PTL DEF DevicesSpec

----------------------------------------------------------------------------
(* MCPWM: the wave.                                                        *)

LEMMA ModSucc ==
  ASSUME NEW M \in Nat \ {0}, NEW n \in Int
  PROVE  (n + 1) % M = IF n % M = M - 1 THEN 0 ELSE (n % M) + 1
<1> DEFINE q == n \div M
           r == n % M
           x == n + 1
<1>1. q \in Int /\ r \in 0 .. M - 1 /\ n = M * q + r
  BY DivRem
<1> HIDE DEF q, r
<1>2. CASE r = M - 1
  <2>1. x \in Int /\ q + 1 \in Int /\ 0 \in 0 .. M - 1
    BY <1>1
  <2>2. x = M * (q + 1) + 0
    <3>1. M * (q + 1) = M * q + M
      BY <1>1
    <3> QED BY <1>1, <1>2, <3>1
  <2> HIDE DEF x
  <2> DEFINE u == q + 1
             v == 0
  <2>3. u \in Int /\ v \in 0 .. M - 1 /\ x = M * u + v
    BY <2>1, <2>2
  <2> HIDE DEF u, v
  <2>4. x % M = v
    BY <2>1, <2>3, ModUnique
  <2> QED BY <1>2, <2>4 DEF x, r, v
<1>3. CASE r # M - 1
  <2>1. x \in Int /\ r + 1 \in 0 .. M - 1 /\ x = M * q + (r + 1)
    BY <1>1, <1>3
  <2> HIDE DEF x
  <2>2. x % M = r + 1
    BY <1>1, <2>1, ModUnique
  <2> QED BY <1>3, <2>2 DEF x, r
<1> QED BY <1>2, <1>3

LEMMA ModPred ==
  ASSUME NEW M \in Nat \ {0}, NEW n \in Int
  PROVE  (n - 1) % M = IF n % M = 0 THEN M - 1 ELSE (n % M) - 1
<1> DEFINE q == n \div M
           r == n % M
           x == n - 1
<1>1. q \in Int /\ r \in 0 .. M - 1 /\ n = M * q + r
  BY DivRem
<1> HIDE DEF q, r
<1>2. CASE r = 0
  <2>1. x \in Int /\ q - 1 \in Int /\ M - 1 \in 0 .. M - 1
    BY <1>1
  <2>2. x = M * (q - 1) + (M - 1)
    <3>1. M * (q - 1) = M * q - M
      BY <1>1
    <3> QED BY <1>1, <1>2, <3>1
  <2> HIDE DEF x
  <2> DEFINE u == q - 1
             v == M - 1
  <2>3. u \in Int /\ v \in 0 .. M - 1 /\ x = M * u + v
    BY <2>1, <2>2
  <2> HIDE DEF u, v
  <2>4. x % M = v
    BY <2>1, <2>3, ModUnique
  <2> QED BY <1>2, <2>4 DEF x, r, v
<1>3. CASE r # 0
  <2>1. x \in Int /\ r - 1 \in 0 .. M - 1 /\ x = M * q + (r - 1)
    BY <1>1, <1>3
  <2> HIDE DEF x
  <2>2. x % M = r - 1
    BY <1>1, <2>1, ModUnique
  <2> QED BY <1>3, <2>2 DEF x, r
<1> QED BY <1>2, <1>3

LEMMA ModZero ==
  ASSUME NEW M \in Nat \ {0}
  PROVE  0 % M = 0
<1> DEFINE z == 0
<1>1. z \in Int /\ z \in 0 .. M - 1 /\ z = M * z + z
  OBVIOUS
<1> HIDE DEF z
<1>2. z % M = z
  BY <1>1, ModUnique
<1> QED BY <1>2 DEF z

LEMMA PositionZero ==
  ASSUME mcpwm_period \in Nat \ {0}
  PROVE  Position(0) = 0
<1>1. mcpwm_period + 1 \in Nat \ {0} /\ 2 * mcpwm_period \in Nat \ {0}
  OBVIOUS
<1>2. 0 % (mcpwm_period + 1) = 0 /\ 0 % (2 * mcpwm_period) = 0
  BY <1>1, ModZero
<1> QED BY <1>1, <1>2 DEF Position, Fold

(* One tick moves the timer from a position to the next, in the direction  *)
(* of the next; the direction before a start does not matter.              *)
LEMMA TickMoves ==
  ASSUME mcpwm_period \in Nat \ {0}, mcpwm_mod \in Mods \ {"paused"},
         NEW n \in Nat, NEW s \in TickStates,
         s.phase = Position(n), n >= 1 => s.dir = Direction(n)
  PROVE  /\ PwmAdvanced(s).phase = Position(n + 1)
         /\ PwmAdvanced(s).dir = Direction(n + 1)
<1> DEFINE p == mcpwm_period
<1>0. s.dir \in {Up, Down} /\ p \in Nat \ {0} /\ p + 1 \in Nat \ {0} /\ 2 * p \in Nat \ {0}
      /\ n \in Int /\ -n \in Int
  BY DEF TickStates
<1>1. CASE mcpwm_mod = "up"
  <2>1. Position(n) = n % (p + 1) /\ Position(n + 1) = (n + 1) % (p + 1)
    BY <1>1 DEF Position
  <2>2. (n + 1) % (p + 1) = IF n % (p + 1) = (p + 1) - 1 THEN 0 ELSE (n % (p + 1)) + 1
    BY <1>0, ModSucc
  <2>3. PwmAdvanced(s).phase = IF s.phase = p THEN 0 ELSE s.phase + 1
    BY <1>1 DEF PwmAdvanced
  <2>4. (p + 1) - 1 = p
    BY <1>0
  <2>5. PwmAdvanced(s).phase = Position(n + 1)
    BY <2>1, <2>2, <2>3, <2>4
  <2>6. PwmAdvanced(s).dir = Up /\ Direction(n + 1) = Up
    BY <1>1 DEF PwmAdvanced, Direction
  <2> QED BY <2>5, <2>6
<1>2. CASE mcpwm_mod = "down"
  <2>1. Position(n) = (-n) % (p + 1) /\ Position(n + 1) = (-(n + 1)) % (p + 1)
    BY <1>2 DEF Position
  <2>2. -(n + 1) = (-n) - 1
    OBVIOUS
  <2>3. ((-n) - 1) % (p + 1) = IF (-n) % (p + 1) = 0 THEN (p + 1) - 1
                               ELSE ((-n) % (p + 1)) - 1
    BY <1>0, ModPred
  <2>4. PwmAdvanced(s).phase = IF s.phase = 0 THEN p ELSE s.phase - 1
    BY <1>2 DEF PwmAdvanced
  <2>5. (p + 1) - 1 = p
    BY <1>0
  <2>6. PwmAdvanced(s).phase = Position(n + 1)
    BY <2>1, <2>2, <2>3, <2>4, <2>5
  <2>7. PwmAdvanced(s).dir = Down /\ Direction(n + 1) = Down
    BY <1>2 DEF PwmAdvanced, Direction
  <2> QED BY <2>6, <2>7
<1>3. CASE mcpwm_mod = "updown"
  <2> DEFINE m == n % (2 * p)
             k == (n + 1) % (2 * p)
  <2>1. m \in 0 .. (2 * p) - 1
    BY <1>0, DivRem
  <2>2. k = IF m = (2 * p) - 1 THEN 0 ELSE m + 1
    BY <1>0, ModSucc
  <2>3. /\ Position(n) = IF m <= p THEN m ELSE 2 * p - m
        /\ Position(n + 1) = IF k <= p THEN k ELSE 2 * p - k
        /\ Direction(n) = IF m \in 1 .. p THEN Up ELSE Down
        /\ Direction(n + 1) = IF k \in 1 .. p THEN Up ELSE Down
    BY <1>3 DEF Position, Direction, Fold
  <2>4. n = 0 => m = 0
    BY <1>0, ModZero
  <2>5. PwmAdvanced(s) = IF s.dir = Up
         THEN IF s.phase = p THEN [phase |-> s.phase - 1, dir |-> Down]
                             ELSE [phase |-> s.phase + 1, dir |-> Up]
         ELSE IF s.phase = 0 THEN [phase |-> 1, dir |-> Up]
                             ELSE [phase |-> s.phase - 1, dir |-> Down]
    BY <1>3 DEF PwmAdvanced
  <2> HIDE DEF m, k
  <2>6. CASE m = 0
    <3>1. s.phase = 0 /\ PwmAdvanced(s) = [phase |-> 1, dir |-> Up]
      BY <1>0, <2>3, <2>5, <2>6
    <3>2. k = 1
      BY <1>0, <2>2, <2>6
    <3> QED BY <1>0, <2>3, <3>1, <3>2
  <2>7. CASE m \in 1 .. p
    <3>1. s.dir = Up /\ s.phase = m
      BY <2>3, <2>4, <2>7
    <3>2. CASE m = p
      <4>1. PwmAdvanced(s) = [phase |-> p - 1, dir |-> Down]
        BY <2>5, <3>1, <3>2
      <4>2. k = IF p = 1 THEN 0 ELSE p + 1
        BY <1>0, <2>2, <3>2
      <4> QED BY <1>0, <2>3, <4>1, <4>2
    <3>3. CASE m # p
      <4>1. PwmAdvanced(s) = [phase |-> m + 1, dir |-> Up]
        BY <2>5, <3>1, <3>3
      <4>2. k = m + 1
        BY <1>0, <2>2, <2>7, <3>3
      <4> QED BY <1>0, <2>3, <2>7, <3>3, <4>1, <4>2
    <3> QED BY <3>2, <3>3
  <2>8. CASE m > p
    <3>1. s.dir = Down /\ s.phase = 2 * p - m /\ s.phase # 0
      BY <1>0, <2>1, <2>3, <2>4, <2>8
    <3>2. PwmAdvanced(s) = [phase |-> (2 * p - m) - 1, dir |-> Down]
      BY <2>5, <3>1 DEF Up, Down
    <3> QED BY <1>0, <2>1, <2>2, <2>3, <2>8, <3>2
  <2> QED BY <1>0, <2>1, <2>6, <2>7, <2>8
<1> QED BY <1>1, <1>2, <1>3 DEF Mods

(* The level after a tick is the one the last event set.                   *)
LEMMA TickLevel ==
  ASSUME NEW n \in Nat, NEW phase, NEW level \in {0, 1}, NEW after,
         WaveAt(phase, level, n), n >= 1 => after = Acted(level, ActionAt(n)),
         NEW i \in 1 .. n, SetLast(i, n + 1)
  PROVE  after = Acted(after, ActionAt(i))
<1>1. after = Acted(level, ActionAt(n))
  OBVIOUS
<1>2. CASE i = n
  <2>1. ActionAt(n) \in {"low", "high"}
    BY <1>2 DEF SetLast
  <2> QED BY <1>1, <1>2, <2>1 DEF Acted
<1>3. CASE i # n
  <2>1. i \in 1 .. n - 1 /\ i + 1 .. n - 1 \subseteq i + 1 .. (n + 1) - 1
        /\ n \in i + 1 .. (n + 1) - 1
    BY <1>3
  <2>2. SetLast(i, n) /\ ActionAt(n) = "keep"
    BY <2>1 DEF SetLast
  <2>3. level = Acted(level, ActionAt(i))
    BY <2>1, <2>2 DEF WaveAt
  <2>4. after = level
    BY <1>1, <2>2 DEF Acted
  <2> QED BY <2>3, <2>4
<1> QED BY <1>2, <1>3

LEMMA TickWaves ==
  ASSUME mcpwm_period \in Nat \ {0}, mcpwm_mod \in Mods \ {"paused"},
         NEW n \in Nat, NEW s \in TickStates, Tick(s).running,
         WaveAt(s.phase, s.level, n), n >= 1 => s.dir = Direction(n)
  PROVE  /\ WaveAt(Tick(s).phase, Tick(s).level, n + 1)
         /\ Tick(s).dir = Direction(n + 1)
<1> DEFINE after == Fire(s)
<1>1. /\ Tick(s).phase = PwmAdvanced(s).phase /\ Tick(s).dir = PwmAdvanced(s).dir
      /\ Tick(s).level = after
  BY TickIs
<1>2. s.phase = Position(n) /\ s.level \in {0, 1}
  BY DEF WaveAt, TickStates
<1>3. PwmAdvanced(s).phase = Position(n + 1) /\ PwmAdvanced(s).dir = Direction(n + 1)
  BY <1>2, TickMoves
<1>4. n >= 1 => after = Acted(s.level, ActionAt(n))
  BY <1>2 DEF Fire, ActionAt
<1> HIDE DEF after
<1>5. ASSUME NEW i \in 1 .. (n + 1) - 1, SetLast(i, n + 1)
      PROVE  after = Acted(after, ActionAt(i))
  <2>1. i \in 1 .. n
    OBVIOUS
  <2> QED BY <1>2, <1>4, <1>5, <2>1, TickLevel
<1>6. WaveAt(PwmAdvanced(s).phase, after, n + 1)
  BY <1>3, <1>5 DEF WaveAt
<1> QED BY <1>1, <1>3, <1>6

(* The ticks of a poll, together.                                          *)
LEMMA TicksWave ==
  ASSUME mcpwm_period \in Nat \ {0}, mcpwm_mod \in Mods \ {"paused"},
         NEW n \in Nat, NEW N \in Nat, NEW f \in [0 .. N -> TickStates],
         \A i \in 1 .. N : f[i] = Tick(f[i - 1]),
         WaveAt(f[0].phase, f[0].level, n), n >= 1 => f[0].dir = Direction(n),
         f[N].running
  PROVE  /\ WaveAt(f[N].phase, f[N].level, n + N)
         /\ n + N >= 1 => f[N].dir = Direction(n + N)
<1> DEFINE Waves(i) == f[i].running => /\ WaveAt(f[i].phase, f[i].level, n + i)
                                       /\ n + i >= 1 => f[i].dir = Direction(n + i)
           Right == {i \in Nat : i <= N => Waves(i)}
<1>1. 0 \in Right
  <2>1. n + 0 = n
    OBVIOUS
  <2>2. Waves(0)
    BY <2>1
  <2> QED BY <2>2
<1>2. ASSUME NEW i \in Nat, i \in Right
      PROVE  i + 1 \in Right
  <2> SUFFICES ASSUME i + 1 <= N, f[i + 1].running
               PROVE  /\ WaveAt(f[i + 1].phase, f[i + 1].level, n + (i + 1))
                      /\ f[i + 1].dir = Direction(n + (i + 1))
    OBVIOUS
  <2>1. i + 1 \in 1 .. N /\ (i + 1) - 1 = i /\ i \in 0 .. N /\ i <= N
    OBVIOUS
  <2>2. f[i + 1] = Tick(f[i]) /\ f[i] \in TickStates
    BY <2>1
  <2>3. f[i].running
    BY <2>2, TickIs
  <2>4. WaveAt(f[i].phase, f[i].level, n + i) /\ (n + i >= 1 => f[i].dir = Direction(n + i))
    BY <1>2, <2>1, <2>3
  <2> DEFINE s == f[i]
             m == n + i
  <2>5. m \in Nat /\ s \in TickStates /\ Tick(s).running /\ n + (i + 1) = m + 1
    BY <2>2
  <2>6. WaveAt(s.phase, s.level, m) /\ (m >= 1 => s.dir = Direction(m))
    BY <2>4
  <2> HIDE DEF s, m
  <2>7. WaveAt(Tick(s).phase, Tick(s).level, m + 1) /\ Tick(s).dir = Direction(m + 1)
    BY <2>5, <2>6, TickWaves
  <2> QED BY <2>2, <2>5, <2>7 DEF s
<1> HIDE DEF Right
<1>3. Nat \subseteq Right
  BY <1>1, <1>2, NatClosure
<1>4. N \in Right
  BY <1>3
<1> QED BY <1>4 DEF Right

(* The wave at n ticks by the clock of hart 0, with what an induction      *)
(* needs: the direction, and that an anchor off hart 0's cycle is that of  *)
(* a start no poll has seen.                                               *)
PwmAt(n) ==
  /\ n * PwmStep + mcpwm_frac <= mcpwm_age + PwmBehind
  /\ n * PwmStep + mcpwm_frac >= mcpwm_age - PwmAhead
  /\ WaveAt(mcpwm_phase, mcpwm_level, n)
  /\ n >= 1 => mcpwm_dir = Direction(n)
  /\ mcpwm_skew # 0 => n = 0 /\ mcpwm_frac = 0 /\ mcpwm_age = 0
Undisturbed == Counts /\ mcpwm_since = "kept"
WaveInv ==
  /\ mcpwm_age <= PwmMaxAge
  /\ Undisturbed => \E n \in Nat : PwmAt(n)

(* A poll adds the cycles since the anchor to the counted ones.            *)
LEMMA PollCounts ==
  ASSUME PwmTyped, NEW d \in Nat, NEW n \in Nat, PwmAt(n)
  PROVE  LET total == mcpwm_frac + PwmElapsed(d)
             all == (n + TicksOf(d)) * PwmStep + (total % PwmStep)
         IN  /\ all <= mcpwm_age + d + PwmBehind
             /\ all >= mcpwm_age + d - PwmAhead
<1> DEFINE total == mcpwm_frac + PwmElapsed(d)
           N == TicksOf(d)
           r == total % PwmStep
           base == n * PwmStep
<1>1. /\ PwmStep \in Nat \ {0} /\ PwmAhead \in Nat /\ PwmBehind \in Nat
      /\ mcpwm_frac \in Nat /\ mcpwm_age \in Nat
      /\ mcpwm_skew \in -PwmBehind - mcpwm_age .. PwmAhead
  BY PwmAssumption DEF PwmTyped, PwmTypeOK
<1>2. total \in Nat /\ PwmElapsed(d) \in Nat /\ N \in Nat
  BY ElapsedNat
<1>3. r \in Nat /\ total = N * PwmStep + r
  <2> HIDE DEF total
  <2>1. total \div PwmStep \in Nat /\ total % PwmStep \in Nat
        /\ total = (total \div PwmStep) * PwmStep + (total % PwmStep)
    BY <1>1, <1>2, DivMod
  <2> QED BY <2>1 DEF TicksOf, total
<1>4. base \in Nat
  BY <1>1
<1>5. (n + N) * PwmStep = base + N * PwmStep
  BY <1>1, <1>2, Distributes
<1>6. base + mcpwm_frac <= mcpwm_age + PwmBehind
      /\ base + mcpwm_frac >= mcpwm_age - PwmAhead
  BY DEF PwmAt
<1>7. mcpwm_skew # 0 => base = 0 /\ mcpwm_frac = 0 /\ mcpwm_age = 0
  BY <1>1 DEF PwmAt
<1>8. PwmElapsed(d) = IF d >= mcpwm_skew THEN d - mcpwm_skew ELSE 0
  BY DEF PwmElapsed
<1> DEFINE E == PwmElapsed(d)
           P == N * PwmStep
           all == (n + N) * PwmStep + r
<1>9. P \in Nat /\ all = base + P + r /\ mcpwm_frac + E = P + r
  BY <1>1, <1>2, <1>3, <1>5
<1>10. E \in Nat /\ E = IF d >= mcpwm_skew THEN d - mcpwm_skew ELSE 0
  BY <1>2, <1>8
<1> HIDE DEF E, P, base, r, N, all
<1>11. all = base + mcpwm_frac + E
  BY <1>1, <1>3, <1>4, <1>9, <1>10
<1>12. all <= mcpwm_age + d + PwmBehind /\ all >= mcpwm_age + d - PwmAhead
  <2>1. CASE mcpwm_skew = 0
    <3>1. E = d
      BY <1>10, <2>1
    <3> QED BY <1>1, <1>4, <1>6, <1>11, <3>1
  <2>2. CASE mcpwm_skew # 0
    BY <1>1, <1>7, <1>10, <1>11, <2>2
  <2> QED BY <2>1, <2>2
<1> QED BY <1>12 DEF all, N, r

(* Nothing of the wave's definition changes with the mode and the period.  *)
LEMMA WaveKept ==
  ASSUME UNCHANGED <<mcpwm_mod, mcpwm_period>>
  PROVE  /\ \A n : Position(n)' = Position(n)
         /\ \A n : Direction(n)' = Direction(n)
         /\ \A n : ActionAt(n)' = ActionAt(n)
<1>1. ASSUME NEW n
      PROVE  Position(n)' = Position(n) /\ Direction(n)' = Direction(n)
  BY DEF Position, Direction, Fold
<1>2. ASSUME NEW n
      PROVE  ActionAt(n)' = ActionAt(n)
  <2>1. ActionAt(n)' = Gen[PwmEvent(Direction(n)', Position(n)', mcpwm_period')]
    BY DEF ActionAt, PwmEvent
  <2> QED BY <1>1, <2>1 DEF ActionAt
<1> QED BY <1>1, <1>2

(* ... nor with the wave that was right before a poll.                     *)
LEMMA WaveAtKept ==
  ASSUME UNCHANGED <<mcpwm_mod, mcpwm_period>>, NEW n \in Nat, NEW phase, NEW level,
         WaveAt(phase, level, n), mcpwm_phase' = phase, mcpwm_level' = level
  PROVE  WaveAt(mcpwm_phase, mcpwm_level, n)'
<1>1. mcpwm_phase' = Position(n)'
  BY WaveKept DEF WaveAt
<1>2. ASSUME NEW i \in 1 .. n - 1, SetLast(i, n)'
      PROVE  mcpwm_level' = Acted(mcpwm_level', ActionAt(i)')
  <2>1. SetLast(i, n)
    BY <1>2, WaveKept DEF SetLast
  <2>2. level = Acted(level, ActionAt(i))
    BY <2>1 DEF WaveAt
  <2>3. ActionAt(i)' = ActionAt(i)
    BY WaveKept
  <2> QED BY <2>2, <2>3
<1>3. Acted(mcpwm_level, 0)' = Acted(mcpwm_level', 0)
  BY DEF Acted
<1>4. ASSUME NEW i \in 1 .. n - 1
      PROVE  Acted(mcpwm_level, ActionAt(i))' = Acted(mcpwm_level', ActionAt(i)')
  BY DEF Acted
<1> QED BY <1>1, <1>2, <1>4 DEF WaveAt

LEMMA WaveInvSame ==
  ASSUME WaveInv, UNCHANGED pwmVars
  PROVE  WaveInv'
<1>1. UNCHANGED <<mcpwm_mod, mcpwm_period, mcpwm_frac, mcpwm_age, mcpwm_skew, mcpwm_phase,
                  mcpwm_level, mcpwm_dir, mcpwm_running, mcpwm_since>>
  BY DEF pwmVars, countVars
<1>2. CASE ~Undisturbed
  BY <1>1, <1>2 DEF WaveInv, Undisturbed, Counts
<1>3. CASE Undisturbed
  <2>1. PICK n \in Nat : PwmAt(n)
    BY <1>3 DEF WaveInv
  <2>2. WaveAt(mcpwm_phase, mcpwm_level, n)
    BY <2>1 DEF PwmAt
  <2>3. WaveAt(mcpwm_phase, mcpwm_level, n)'
    BY <1>1, <2>2, WaveAtKept
  <2>4. Direction(n)' = Direction(n)
    BY <1>1, WaveKept
  <2>5. PwmAt(n)'
    BY <1>1, <2>1, <2>3, <2>4 DEF PwmAt
  <2> QED BY <1>1, <2>1, <2>5 DEF WaveInv
<1> QED BY <1>2, <1>3

LEMMA WaveInvPoll ==
  ASSUME PwmTyped, WaveInv, NEW d \in Nat, PwmPoll(d)
  PROVE  WaveInv'
<1>1. CASE ~Undisturbed
  <2>1. ~Undisturbed' /\ mcpwm_age' <= PwmMaxAge
    <3>1. CASE ~mcpwm_running
      BY <3>1 DEF PwmPoll, pwmVars, countVars, Undisturbed, Counts, WaveInv
    <3>2. CASE mcpwm_running
      BY <1>1, <3>2 DEF PwmPoll, Undisturbed, Counts, WaveInv
    <3> QED BY <3>1, <3>2
  <2> QED BY <2>1 DEF WaveInv
<1>2. CASE Undisturbed
  <2>0. Counts
    BY <1>2 DEF Undisturbed
  <2> DEFINE N == TicksOf(d)
             total == mcpwm_frac + PwmElapsed(d)
  <2>1. PICK n \in Nat : PwmAt(n)
    BY <1>2 DEF WaveInv
  <2>2. PICK f :
          /\ f \in [0 .. N -> TickStates] /\ f[0] = StartState
          /\ \A i \in 1 .. N : f[i] = Tick(f[i - 1])
          /\ mcpwm_running' = f[N].running
          /\ mcpwm_phase' = f[N].phase /\ mcpwm_dir' = f[N].dir /\ mcpwm_level' = f[N].level
    <3> HIDE DEF N
    <3> QED BY <2>0, PollTicks DEF N
  <2>3. N \in Nat
    BY ElapsedNat
  <2>4. /\ mcpwm_frac' = total % PwmStep /\ mcpwm_skew' = 0 /\ mcpwm_age' = mcpwm_age + d
        /\ UNCHANGED <<mcpwm_mod, mcpwm_period>> /\ mcpwm_age' <= PwmMaxAge
    BY <2>0 DEF PwmPoll, Counts
  <2>5. /\ (n + N) * PwmStep + (total % PwmStep) <= mcpwm_age + d + PwmBehind
        /\ (n + N) * PwmStep + (total % PwmStep) >= mcpwm_age + d - PwmAhead
    BY <2>1, PollCounts
  <2> HIDE DEF N, total
  <2>6. SUFFICES ASSUME mcpwm_running'
                 PROVE  \E m \in Nat : PwmAt(m)'
    BY <2>4 DEF WaveInv, Undisturbed, Counts
  <2>7. mcpwm_period \in Nat \ {0} /\ mcpwm_mod \in Mods \ {"paused"}
    BY <2>0 DEF Counts, PwmTyped
  <2>8. /\ f[0].phase = mcpwm_phase /\ f[0].level = mcpwm_level /\ f[0].dir = mcpwm_dir
    BY <2>2 DEF StartState
  <2>9. WaveAt(f[0].phase, f[0].level, n) /\ (n >= 1 => f[0].dir = Direction(n))
    BY <2>1, <2>8 DEF PwmAt
  <2>10. f[N].running
    BY <2>2, <2>6
  <2>11. /\ WaveAt(f[N].phase, f[N].level, n + N)
         /\ n + N >= 1 => f[N].dir = Direction(n + N)
    BY <2>2, <2>3, <2>7, <2>9, <2>10, TicksWave
  <2>12. PICK m \in Nat : m = n + N
    BY <2>3
  <2>13. WaveAt(f[N].phase, f[N].level, m) /\ (m >= 1 => f[N].dir = Direction(m))
    BY <2>11, <2>12
  <2>14. /\ m * PwmStep + mcpwm_frac' <= mcpwm_age' + PwmBehind
         /\ m * PwmStep + mcpwm_frac' >= mcpwm_age' - PwmAhead
    <3>1. m * PwmStep + mcpwm_frac' = (n + N) * PwmStep + (total % PwmStep)
      BY <2>4, <2>12
    <3>2. /\ mcpwm_age' + PwmBehind = mcpwm_age + d + PwmBehind
          /\ mcpwm_age' - PwmAhead = mcpwm_age + d - PwmAhead
      BY <2>4, PwmAssumption DEF PwmTyped
    <3> QED BY <2>5, <3>1, <3>2, Zenon
  <2>15. WaveAt(mcpwm_phase, mcpwm_level, m)'
    BY <2>2, <2>4, <2>12, <2>13, WaveAtKept
  <2>16. m >= 1 => mcpwm_dir' = Direction(m)'
    BY <2>2, <2>4, <2>13, WaveKept
  <2>17. PwmAt(m)'
    BY <2>4, <2>14, <2>15, <2>16 DEF PwmAt
  <2> QED BY <2>12, <2>17
<1> QED BY <1>1, <1>2

LEMMA WaveInvGuest ==
  ASSUME PwmTyped, WaveInv, PwmGuest
  PROVE  WaveInv'
<1>1. ASSUME NEW period \in PeriodArgs, PwmPeriod(period)
      PROVE  WaveInv'
  <2>1. CASE period = mcpwm_period
    <3>1. UNCHANGED pwmVars
      BY <1>1, <2>1 DEF PwmPeriod, pwmVars
    <3> QED BY <3>1, WaveInvSame
  <2>2. CASE period # mcpwm_period
    <3>1. ~Undisturbed' /\ mcpwm_age' = mcpwm_age
      BY <1>1, <2>2 DEF PwmPeriod, Undisturbed, Counts, countVars
    <3> QED BY <3>1 DEF WaveInv
  <2> QED BY <2>1, <2>2
<1>2. ASSUME NEW mod, PwmStop(mod)
      PROVE  WaveInv'
  BY <1>2 DEF PwmStop, WaveInv, Undisturbed, Counts, countVars
<1>3. ASSUME NEW mod, NEW stopat, NEW skew \in -PwmBehind .. PwmAhead,
             PwmStart(mod, stopat, skew)
      PROVE  WaveInv'
  <2>1. PwmStep \in Nat \ {0} /\ PwmAhead \in Nat /\ PwmBehind \in Nat /\ PwmMaxAge \in Nat
    BY PwmAssumption
  <2>2. mcpwm_frac' = 0 /\ mcpwm_age' = 0 /\ mcpwm_phase' = 0 /\ mcpwm_period' = mcpwm_period
    BY <1>3 DEF PwmStart
  <2>3. SUFFICES ASSUME mcpwm_period # 0
                 PROVE  PwmAt(0)'
    BY <2>1, <2>2 DEF WaveInv, Undisturbed, Counts
  <2>4. mcpwm_period' \in Nat \ {0}
    BY <2>2, <2>3 DEF PwmTyped
  <2>5. Position(0)' = 0
    <3>1. PICK p \in Nat \ {0} : p = mcpwm_period'
      BY <2>4
    <3>2. p + 1 \in Nat \ {0} /\ 2 * p \in Nat \ {0}
      OBVIOUS
    <3>3. 0 % (p + 1) = 0 /\ 0 % (2 * p) = 0
      BY <3>2, ModZero
    <3> QED BY <3>1, <3>2, <3>3 DEF Position, Fold
  <2>6. 1 .. 0 - 1 = {}
    OBVIOUS
  <2>7. WaveAt(mcpwm_phase, mcpwm_level, 0)'
    BY <2>2, <2>5, <2>6 DEF WaveAt
  <2>8. 0 * PwmStep + mcpwm_frac' = 0
    BY <2>1, <2>2
  <2> QED BY <2>1, <2>2, <2>7, <2>8 DEF PwmAt
<1>4. ASSUME NEW mod, PwmMode(mod)
      PROVE  WaveInv'
  <2>1. CASE mod = mcpwm_mod
    <3>1. UNCHANGED pwmVars
      BY <1>4, <2>1 DEF PwmMode, pwmVars
    <3> QED BY <3>1, WaveInvSame
  <2>2. CASE mod # mcpwm_mod
    <3>1. ~Undisturbed' /\ mcpwm_age' = mcpwm_age
      BY <1>4, <2>2 DEF PwmMode, Undisturbed, Counts, countVars
    <3> QED BY <3>1 DEF WaveInv
  <2> QED BY <2>1, <2>2
<1> QED BY <1>1, <1>2, <1>3, <1>4 DEF PwmGuest

LEMMA WaveInvStep ==
  ASSUME PwmTyped, WaveInv, [DevicesNext]_<<deviceVars, driver>>
  PROVE  WaveInv'
BY PwmSteps, WaveInvSame, WaveInvPoll, WaveInvGuest

LEMMA TimesGrows ==
  ASSUME NEW n \in Nat, NEW s \in Nat \ {0}
  PROVE  n * s \in Nat /\ n <= n * s
<1>1. PICK t \in Nat : s = t + 1
  <2>1. s - 1 \in Nat /\ s = (s - 1) + 1
    OBVIOUS
  <2> QED BY <2>1
<1>2. n * t \in Nat /\ n * (t + 1) = n * t + n
  OBVIOUS
<1> QED BY <1>1, <1>2

(* A timer left as it was started gives the programmed wave by hart 0's    *)
(* time, less at most the clock skew, for every period, prescaler,         *)
(* generator and spread of polls.                                          *)
THEOREM DevicesPwmWave == DevicesSpec => []PwmWave
<1> DEFINE Inv == PwmTyped /\ WaveInv
<1>1. DevicesInit => Inv
  <2> SUFFICES ASSUME PwmInit PROVE Inv
    BY DEF DevicesInit
  <2>1. WaveInv
    BY PwmAssumption DEF PwmInit, WaveInv, Undisturbed, Counts
  <2> QED BY <2>1, PwmTypedInit
<1>2. Inv /\ [DevicesNext]_<<deviceVars, driver>> => Inv'
  BY PwmTypedStep, WaveInvStep
<1>3. Inv => PwmWave
  <2> SUFFICES ASSUME Inv, Undisturbed
               PROVE  \E n \in 0 .. PwmMaxAge + PwmBehind : 
                        /\ n * PwmStep + mcpwm_frac <= mcpwm_age + PwmBehind
                        /\ n * PwmStep + mcpwm_frac >= mcpwm_age - PwmAhead
                        /\ WaveAt(mcpwm_phase, mcpwm_level, n)
    BY DEF PwmWave, Undisturbed, Counts
  <2>1. PICK n \in Nat : PwmAt(n)
    BY DEF WaveInv
  <2>2. /\ PwmStep \in Nat \ {0} /\ PwmBehind \in Nat /\ PwmMaxAge \in Nat
        /\ mcpwm_frac \in Nat /\ mcpwm_age \in Nat /\ mcpwm_age <= PwmMaxAge
    BY PwmAssumption DEF PwmTyped, PwmTypeOK, WaveInv
  <2> DEFINE c == n * PwmStep
  <2>3. c \in Nat /\ n <= c
    BY <2>2, TimesGrows
  <2>4. c + mcpwm_frac <= mcpwm_age + PwmBehind
    BY <2>1 DEF PwmAt
  <2> HIDE DEF c
  <2>5. n \in 0 .. PwmMaxAge + PwmBehind
    BY <2>2, <2>3, <2>4
  <2> QED BY <2>1, <2>5 DEF PwmAt
<1> QED BY <1>1, <1>2, <1>3, PTL DEF DevicesSpec

----------------------------------------------------------------------------
(* TWAI0: completions come after the driver's count, announced frames stay *)
(* announced - for all delays and clock skews the assumption allows.       *)

(* While a request is not counted its completion is still ahead: the time  *)
(* left and the age of the request add up to the delay, less the skew.     *)
RequestAhead ==
  uncounted => twai_tx_left >= TxDelay - TwaiBehind - request_age

(* A frame counts as announced only while its interrupt is enabled.        *)
Announced == told => twai_rie

TwaiInv == TwaiTypeOK /\ RequestAhead /\ Announced /\ FrameAnnounced

(* Time left is a natural number and falls by what has passed.             *)
LEMMA LaterIs ==
  ASSUME NEW t \in Nat, NEW d \in Int
  PROVE  Later(t, d) \in Nat /\ Later(t, d) >= t - d /\ (Later(t, d) = 0 => t <= d)
  BY DEF Later

(* A poll completes no request that is not counted.                        *)
LEMMA PollNotEarly ==
  ASSUME TwaiInv, NEW d \in Nat, TwaiPoll(d), uncounted
  PROVE  Later(twai_tx_left, d) # 0
<1>1. twai_tx_left \in Nat /\ request_age \in Nat
  BY TwaiAssumption DEF TwaiInv, TwaiTypeOK
<1>2. request_age + d <= DriverTime
  BY DEF TwaiPoll
<1>3. Later(twai_tx_left, d) >= twai_tx_left - d /\ Later(twai_tx_left, d) \in Nat
  BY <1>1 DEF Later
<1> QED BY <1>1, <1>2, <1>3, TwaiAssumption DEF TwaiInv, RequestAhead

LEMMA TwaiPollInv ==
  ASSUME TwaiInv, NEW d \in Nat, TwaiPoll(d)
  PROVE  TwaiInv'
<1>0. twai_tx_left \in Nat /\ (twai_rx_left # NotArmed => twai_rx_left \in Nat)
  BY DEF TwaiInv, TwaiTypeOK
<1>1. Later(twai_tx_left, d) \in Nat /\ Later(twai_tx_left, d) >= twai_tx_left - d
  BY <1>0 DEF Later
<1>2. twai_rx_left # NotArmed => Later(twai_rx_left, d) \in Nat
  BY <1>0 DEF Later
<1>3. RequestAhead'
  <2> SUFFICES ASSUME uncounted
               PROVE  twai_tx_left' >= TxDelay - TwaiBehind - request_age'
    BY DEF TwaiPoll, RequestAhead
  <2>1. twai_tx_left' = Later(twai_tx_left, d) /\ request_age' = request_age + d
    BY DEF TwaiPoll
  <2>2. twai_tx_left \in Nat /\ request_age \in Nat
    BY TwaiAssumption DEF TwaiInv, TwaiTypeOK
  <2> QED BY <1>1, <2>1, <2>2, TwaiAssumption DEF TwaiInv, RequestAhead
<1> DEFINE rxLeft == IF twai_rx_left = NotArmed THEN NotArmed ELSE Later(twai_rx_left, d)
           frame == ~twai_rx_delivered /\ rxLeft = 0
           sent == twai_tx_pending /\ Later(twai_tx_left, d) = 0
<1>4. TwaiTypeOK'
  <2>1. twai_tx_left' \in Nat /\ twai_rx_left' \in Nat \cup {NotArmed}
    BY <1>1, <1>2 DEF TwaiPoll
  <2>2. /\ twai_tx_pending' \in BOOLEAN /\ twai_rx_delivered' \in BOOLEAN
        /\ twai_source' \in BOOLEAN /\ told' \in BOOLEAN
        /\ twai_rie' \in BOOLEAN /\ uncounted' \in BOOLEAN
    BY DEF TwaiPoll, TwaiInv, TwaiTypeOK
  <2>3. twai_status' \subseteq {"rbs", "tcs"} /\ twai_intr' \subseteq {"ti", "ri"}
    BY DEF TwaiPoll, TwaiInv, TwaiTypeOK
  <2>4. twai_count' \in {0, 1} /\ (twai_count' = 1 => twai_rx_delivered')
    <3>1. /\ twai_count' = IF frame THEN twai_count + 1 ELSE twai_count
          /\ twai_rx_delivered' = (twai_rx_delivered \/ frame)
      BY DEF TwaiPoll
    <3> HIDE DEF frame
    <3>2. CASE frame
      <4>1. ~twai_rx_delivered
        BY <3>2 DEF frame
      <4>2. twai_count = 0
        BY <4>1 DEF TwaiInv, TwaiTypeOK
      <4>3. twai_count' = 1
        BY <3>1, <3>2, <4>2
      <4>4. twai_rx_delivered'
        BY <3>1, <3>2, Zenon
      <4> QED BY <4>3, <4>4
    <3>3. CASE ~frame
      <4>1. twai_count' = twai_count
        BY <3>1, <3>3
      <4>2. twai_rx_delivered' = twai_rx_delivered
        BY <3>1, <3>3, Zenon DEF TwaiInv, TwaiTypeOK
      <4> QED BY <4>1, <4>2, Zenon DEF TwaiInv, TwaiTypeOK
    <3> QED BY <3>2, <3>3
  <2>5. request_age' \in 0 .. DriverTime
    BY TwaiAssumption DEF TwaiPoll, TwaiInv, TwaiTypeOK
  <2> QED BY <2>1, <2>2, <2>3, <2>4, <2>5 DEF TwaiTypeOK
<1>5. Announced' /\ FrameAnnounced'
  <2>1. /\ told' = (told \/ (frame /\ twai_rie)) /\ twai_rie' = twai_rie
        /\ frame => "rbs" \in twai_status'
        /\ frame /\ twai_rie => "ri" \in twai_intr' /\ twai_source'
        /\ twai_status \subseteq twai_status' /\ twai_intr \subseteq twai_intr'
        /\ twai_source => twai_source'
    BY DEF TwaiPoll
  <2> HIDE DEF frame
  <2> QED BY <2>1 DEF TwaiInv, Announced, FrameAnnounced
<1> QED BY <1>3, <1>4, <1>5 DEF TwaiInv

(* Every step keeps TwaiInv.                                               *)
LEMMA TwaiStepInv ==
  ASSUME TwaiInv, [TwaiNext]_twaiVars
  PROVE  TwaiInv'
<1> USE TwaiAssumption
    DEF TwaiInv, TwaiTypeOK, RequestAhead, Announced, FrameAnnounced
<1>1. CASE UNCHANGED twaiVars
  BY <1>1 DEF twaiVars
<1>2. ASSUME NEW d \in 0 .. TwaiStep, TwaiPoll(d) PROVE TwaiInv'
  BY <1>2, TwaiPollInv
<1>3. ASSUME NEW skew \in TwaiSkews, TwaiLeaveReset(skew) PROVE TwaiInv'
  <2>1. Later(RxDelay, -skew) \in Nat
    BY LaterIs DEF TwaiSkews
  <2> QED BY <1>3, <2>1 DEF TwaiLeaveReset
<1>4. ASSUME NEW skew \in TwaiSkews, TwaiRequest(skew) PROVE TwaiInv'
  <2>1. Later(TxDelay, -skew) \in Nat /\ Later(TxDelay, -skew) >= TxDelay - TwaiBehind
    BY LaterIs DEF TwaiSkews
  <2> QED BY <1>4, <2>1 DEF TwaiRequest
<1>5. CASE TwaiCounts
  <2>0. request_age' \in 0 .. DriverTime /\ uncounted' = FALSE
    BY <1>5 DEF TwaiCounts
  <2>1. TwaiTypeOK'
    BY <1>5, <2>0, Zenon DEF TwaiCounts
  <2> QED BY <1>5, <2>1 DEF TwaiCounts
<1>6. CASE TwaiRelease
  <2>1. twai_count' \in {0, 1} /\ (twai_count' = 1 => twai_rx_delivered')
    BY <1>6 DEF TwaiRelease
  <2>2. TwaiTypeOK'
    BY <1>6, <2>1 DEF TwaiRelease
  <2> QED BY <1>6, <2>2 DEF TwaiRelease
<1>7. CASE TwaiReadIntr
  BY <1>7 DEF TwaiReadIntr, IntrAfterRead
<1>8. ASSUME NEW on \in BOOLEAN, TwaiEnable(on) PROVE TwaiInv'
  BY <1>8 DEF TwaiEnable
<1> QED BY <1>1, <1>2, <1>3, <1>4, <1>5, <1>6, <1>7, <1>8 DEF TwaiNext, TwaiGuest

LEMMA TwaiInvariant == TwaiSpec => []TwaiInv
<1>1. TwaiInit => TwaiInv
  <2> SUFFICES ASSUME TwaiInit PROVE TwaiInv
    OBVIOUS
  <2>1. request_age \in 0 .. DriverTime /\ twai_tx_left \in Nat /\ twai_count \in {0, 1}
        /\ twai_count # 1 /\ twai_rx_left \in Nat \cup {NotArmed}
    BY TwaiAssumption DEF TwaiInit
  <2> QED BY <2>1, Zenon DEF TwaiInit, TwaiInv, TwaiTypeOK, RequestAhead, Announced,
     FrameAnnounced
<1> QED BY <1>1, TwaiStepInv, PTL DEF TwaiSpec

(* The receive counter never wraps below 0 and never counts a second frame *)
(* (RELEASE_BUFFER, the delivery of periodic).                             *)
THEOREM TwaiTypeCorrect == TwaiSpec => []TwaiTypeOK
<1>1. TwaiInv => TwaiTypeOK
  BY DEF TwaiInv
<1> QED BY <1>1, TwaiInvariant, PTL

(* An announced frame keeps RI and the source up until it is released or   *)
(* the interrupt is disabled, however often INTERRUPT is read.             *)
THEOREM TwaiFrameAnnounced == TwaiSpec => []FrameAnnounced
<1>1. TwaiInv => FrameAnnounced
  BY DEF TwaiInv
<1> QED BY <1>1, TwaiInvariant, PTL

(* No transmit interrupt before the driver has counted the message, for    *)
(* every skew of the writer's clock below the delay and every driver that  *)
(* counts within the rest of it (TX_REQUEST, the completion of periodic).  *)
THEOREM TwaiCountedFirst == TwaiSpec => CountedFirst
<1>1. ASSUME TwaiInv, [TwaiNext]_twaiVars
      PROVE  [("ti" \in twai_intr' \ twai_intr) => ~uncounted]_twaiVars
  <2>1. ASSUME NEW d \in 0 .. TwaiStep, TwaiPoll(d), uncounted
        PROVE  "ti" \notin twai_intr' \ twai_intr
    <3>1. Later(twai_tx_left, d) # 0
      BY <1>1, <2>1, PollNotEarly, TwaiAssumption
    <3> QED BY <2>1, <3>1 DEF TwaiPoll
  <2>2. ASSUME TwaiGuest PROVE "ti" \notin twai_intr' \ twai_intr
    BY <2>2 DEF TwaiGuest, TwaiLeaveReset, TwaiRequest, TwaiCounts, TwaiRelease,
       TwaiReadIntr, TwaiEnable, IntrAfterRead
  <2> QED BY <1>1, <2>1, <2>2 DEF TwaiNext, twaiVars
<1> QED BY <1>1, TwaiInvariant, PTL DEF TwaiSpec, CountedFirst

----------------------------------------------------------------------------
(* The devices proved apart, under the one clock.                          *)

(* The machine's polls and accesses are, for the UART, those of its own    *)
(* specification: what is proved of UartSpec holds of the composition.     *)
THEOREM DevicesImplementUart == DevicesSpec => UartSpec
<1>1. DevicesInit => UartInit
  BY DEF DevicesInit
<1>2. [DevicesNext]_<<deviceVars, driver>> => [UartNext]_uartVars
  <2> SUFFICES ASSUME [DevicesNext]_<<deviceVars, driver>>
               PROVE  UartNext \/ UNCHANGED uartVars
    OBVIOUS
  <2>1. CASE PeriodicPoll
    BY <2>1 DEF PeriodicPoll, UartNext
  <2>2. CASE UartAccess \/ Host
    BY <2>2 DEF UartAccess, Host, UartNext
  <2>3. CASE I2cAccess \/ GdmaAccess \/ TimerAccess \/ TwaiAccess \/ GpioAccess \/ PwmAccess
    BY <2>3 DEF I2cAccess, GdmaAccess, TimerAccess, TwaiAccess, GpioAccess, PwmAccess
  <2>4. CASE UNCHANGED <<deviceVars, driver>>
    BY <2>4 DEF deviceVars
  <2> QED BY <2>1, <2>2, <2>3, <2>4 DEF DevicesNext
<1> QED BY <1>1, <1>2, PTL DEF DevicesSpec, UartSpec

(* The ring is a FIFO queue and the driver is kept awake in the machine.   *)
THEOREM DevicesUart == DevicesSpec => []UartTypeOK /\ UartAwake /\ RingIsQueue
BY DevicesImplementUart, UartTypeCorrect, UartStaysAwake, RingRefinesQueue, PTL

(* Likewise the TWAI controller.                                           *)
THEOREM DevicesImplementTwai == DevicesSpec => TwaiSpec
<1>1. DevicesInit => TwaiInit
  BY DEF DevicesInit
<1>2. [DevicesNext]_<<deviceVars, driver>> => [TwaiNext]_twaiVars
  <2> SUFFICES ASSUME [DevicesNext]_<<deviceVars, driver>>
               PROVE  TwaiNext \/ UNCHANGED twaiVars
    OBVIOUS
  <2>1. CASE PeriodicPoll
    <3>1. PICK d \in Steps : TwaiPoll(Given({"twai"}, d))
      BY <2>1 DEF PeriodicPoll
    <3>2. Given({"twai"}, d) \in 0 .. TwaiStep
      BY <3>1, TwaiAssumption DEF Given, Steps
    <3> QED BY <3>1, <3>2 DEF TwaiNext
  <2>2. CASE TwaiAccess
    BY <2>2 DEF TwaiAccess, TwaiNext
  <2>3. CASE UartAccess \/ Host \/ I2cAccess \/ GdmaAccess \/ TimerAccess \/ GpioAccess
             \/ PwmAccess
    BY <2>3 DEF UartAccess, Host, I2cAccess, GdmaAccess, TimerAccess, GpioAccess, PwmAccess
  <2>4. CASE UNCHANGED <<deviceVars, driver>>
    BY <2>4 DEF deviceVars
  <2> QED BY <2>1, <2>2, <2>3, <2>4 DEF DevicesNext
<1> QED BY <1>1, <1>2, PTL DEF DevicesSpec, TwaiSpec

(* A frame is announced, and none before it is counted, in the machine.    *)
THEOREM DevicesTwai == DevicesSpec => []TwaiTypeOK /\ []FrameAnnounced /\ CountedFirst
BY DevicesImplementTwai, TwaiTypeCorrect, TwaiFrameAnnounced, TwaiCountedFirst, PTL

(* The timers of the machine advance one driver at a time: the steps of    *)
(* the SYSTIMER and of the timer group, apart.                             *)
LEMMA TimerSteps ==
  [DevicesNext]_<<deviceVars, driver>>
    => \/ \E s, t \in Nat : SystPoll(s) /\ TimgPoll(t)
       \/ SystGuest /\ UNCHANGED <<t0Vars, timgInt, wdtVars>>
       \/ TimgGuest /\ UNCHANGED systVars
       \/ UNCHANGED timerVars
<1> SUFFICES ASSUME [DevicesNext]_<<deviceVars, driver>>
             PROVE  \/ \E s, t \in Nat : SystPoll(s) /\ TimgPoll(t)
                    \/ SystGuest /\ UNCHANGED <<t0Vars, timgInt, wdtVars>>
                    \/ TimgGuest /\ UNCHANGED systVars
                    \/ UNCHANGED timerVars
  OBVIOUS
<1>1. CASE PeriodicPoll
  <2>1. PICK d \in Steps : /\ TimgPoll(Given({"t0", "wdt"}, d))
                           /\ SystPoll(Given({"syst"}, d))
    BY <1>1 DEF PeriodicPoll
  <2>2. Given({"t0", "wdt"}, d) \in Nat /\ Given({"syst"}, d) \in Nat
    BY <2>1, StepsNat DEF Given
  <2> QED BY <2>1, <2>2
<1>2. CASE TimerAccess
  BY <1>2 DEF TimerAccess, TimgGuest
<1>3. CASE UartAccess \/ Host \/ I2cAccess \/ GdmaAccess \/ TwaiAccess \/ GpioAccess
           \/ PwmAccess
  BY <1>3 DEF UartAccess, Host, I2cAccess, GdmaAccess, TwaiAccess, GpioAccess, PwmAccess
<1>4. CASE UNCHANGED <<deviceVars, driver>>
  BY <1>4 DEF deviceVars
<1> QED BY <1>1, <1>2, <1>3, <1>4 DEF DevicesNext

LEMMA DevicesTimersInv == DevicesSpec => []TimersInv
<1>1. DevicesInit => TimersInv
  BY TimersInitInv DEF DevicesInit
<1>2. ASSUME TimersInv, [DevicesNext]_<<deviceVars, driver>>
      PROVE  TimersInv'
  <2> USE DEF TimersInv
  <2>1. ASSUME NEW s \in Nat, NEW t \in Nat, SystPoll(s), TimgPoll(t)
        PROVE  TimersInv'
    <3>1. ~timg_cfg.en => UNCHANGED t0Vars
      BY <2>1 DEF TimgPoll, t0Vars
    <3> QED BY <1>2, <2>1, <3>1, SystPollInv, WdtPollInv, T0PollInv, T0Kept
  <2>2. ASSUME SystGuest, UNCHANGED <<t0Vars, timgInt, wdtVars>> PROVE TimersInv'
    BY <1>2, <2>2, SystGuestInv, WdtKept, T0Kept
  <2>3. ASSUME TimgGuest, UNCHANGED systVars PROVE TimersInv'
    BY <1>2, <2>3, SystKept, WdtGuestInv, T0GuestInv
  <2>4. ASSUME UNCHANGED timerVars PROVE TimersInv'
    BY <1>2, <2>4, SystKept, WdtKept, T0Kept DEF timerVars
  <2> QED BY <1>2, <2>1, <2>2, <2>3, <2>4, TimerSteps
<1> QED BY <1>1, <1>2, PTL DEF DevicesSpec

(* Alarms see every boundary, T0 keeps hart 0's time and the watchdog      *)
(* fires in its window, in the machine.                                    *)
THEOREM DevicesTimers ==
  DevicesSpec => []TimersTypeOK /\ []MarkersInStep /\ []TimgKeepsTime /\ WdtOnTime
<1>1. TimersInv => TimersTypeOK /\ MarkersInStep /\ TimgKeepsTime
  BY DEF TimersInv, SystInv, WdtInv, T0Inv, TimersTypeOK
<1>2. ASSUME TimersInv, TimersInv', [DevicesNext]_<<deviceVars, driver>>
      PROVE  [OnTimeStep]_timerVars
  <2>1. ASSUME NEW s \in Nat, NEW t \in Nat, SystPoll(s), TimgPoll(t)
        PROVE  OnTimeStep
    BY <1>2, <2>1, WdtPollOnTime DEF TimersInv
  <2>2. ASSUME TimgGuest \/ UNCHANGED <<t0Vars, timgInt, wdtVars>> PROVE OnTimeStep
    BY <1>2, <2>2, WdtGuestOnTime DEF TimersInv
  <2> QED BY <1>2, <2>1, <2>2, TimerSteps
<1>3. [OnTimeStep]_timerVars =>
        [/\ "wdt" \in timg_raw' \ timg_raw => wdt_age' >= wdt_hold - Behind
         /\ wdt_en /\ wdt_age' > wdt_age /\ wdt_age' > wdt_hold + Ahead
              => "wdt" \in timg_raw']_timerVars
  BY DEF OnTimeStep
<1> QED BY <1>1, <1>2, <1>3, DevicesTimersInv, PTL DEF DevicesSpec, WdtOnTime

----------------------------------------------------------------------------
(* The I2C controller in the machine.                                      *)

LEMMA I2cSteps ==
  [DevicesNext]_<<deviceVars, driver>> => I2cPoll \/ I2cGuest \/ UNCHANGED i2cVars
<1> SUFFICES ASSUME [DevicesNext]_<<deviceVars, driver>>
             PROVE  I2cPoll \/ I2cGuest \/ UNCHANGED i2cVars
  OBVIOUS
<1>1. CASE PeriodicPoll
  BY <1>1 DEF PeriodicPoll
<1>2. CASE I2cAccess
  BY <1>2 DEF I2cAccess
<1>3. CASE UartAccess \/ Host \/ GdmaAccess \/ TimerAccess \/ TwaiAccess \/ GpioAccess
           \/ PwmAccess
  BY <1>3 DEF UartAccess, Host, GdmaAccess, TimerAccess, TwaiAccess, GpioAccess, PwmAccess
<1>4. CASE UNCHANGED <<deviceVars, driver>>
  BY <1>4 DEF deviceVars
<1> QED BY <1>1, <1>2, <1>3, <1>4 DEF DevicesNext

LEMMA DevicesI2cTyped == DevicesSpec => []I2cTyped
<1>1. DevicesInit => I2cTyped
  BY I2cTypedInit DEF DevicesInit
<1>2. I2cTyped /\ [DevicesNext]_<<deviceVars, driver>> => I2cTyped'
  BY I2cSteps, I2cPollTyped, I2cGuestTyped, I2cTypedKept
<1> QED BY <1>1, <1>2, PTL DEF DevicesSpec

(* Neither the driver's pushes nor a round overrun a FIFO of the I2C       *)
(* controller, the reader stays behind the writer, and pointer and memory  *)
(* of the EEPROM stay bytes, for every command list.                       *)
THEOREM DevicesI2cType == DevicesSpec => []I2cTypeOK
BY DevicesI2cTyped, I2cTypedType, PTL

(* The executor of esp32p4_periodic runs every command list, over every    *)
(* FIFO content and memory, as the bus protocol says, save for lists with  *)
(* an address alone or missing or one that follows a NACK.                 *)
THEOREM DevicesWalkFollowsBus == DevicesSpec => []WalkFollowsBus
BY DevicesI2cTyped, FollowsBus, PTL
=============================================================================
