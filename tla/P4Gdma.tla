------------------------------- MODULE P4Gdma -------------------------------
(***************************************************************************)
(* One TX and one RX channel of the P4's GDMA, serving I2S0.  A walker     *)
(* caches one descriptor at a time and, every 256 cycles of a running      *)
(* stream, moves words between guest memory and the channel FIFO; a        *)
(* finished descriptor raises an EOF.  Lengths are in words.  A descriptor *)
(* has a length, a buffer and a next address; addresses outside the        *)
(* descriptors, and the buffer NoRam, are outside RAM.                     *)
(***************************************************************************)
EXTENDS Integers, Sequences

CONSTANTS
  Descs,       \* descriptor address -> [words, buf, next], in guest RAM
  NoRam,       \* a buffer address outside RAM
  Heads,       \* link addresses the driver starts a channel with, in RAM or not
  FifoDepth,   \* words in a channel FIFO (12)
  MaxSample    \* bound: samples of one RX stream

DescAddrs == DOMAIN Descs
DescFields == [words : Nat, buf : Nat \cup {NoRam}, next : Nat]

ASSUME GdmaAssumption ==
  /\ DescAddrs \subseteq Nat \ {0}
  /\ \A d \in DescAddrs : Descs[d] \in DescFields
  /\ Heads \subseteq Nat
  /\ FifoDepth \in Nat \ {0}
  /\ MaxSample \in Nat

VARIABLES
  tx, rx,            \* the walkers: run, desc (address), cached left, buf, next
  tx_fifo,           \* words in the TX FIFO
  rx_fifo,           \* samples in the RX FIFO, oldest first
  rx_sample,         \* next sample the I2S engine makes
  i2s,               \* which of {"tx", "rx"} have their start bit set
  dma_raw, dma_ena, dma_source,  \* EOF status, enable, pending source per side
  moved,             \* history: words moved for the loaded descriptor
  rerun,             \* history: the next EOF is of a channel run without a load
  eof,               \* history: the last EOF: desc, words moved, rerun
  rx_log,            \* history: words stored in guest memory since the start
  rx_home,           \* history: buffers of the chain the last RX start loaded
  rx_clean,          \* history: the RX FIFO was empty at the start
  rx_cut             \* history: samples dropped since the start

walkVars == <<tx, rx, tx_fifo, rx_fifo, rx_sample>>
dmaInt == <<dma_raw, dma_ena, dma_source>>
rxHist == <<rx_log, rx_home, rx_clean, rx_cut>>
dmaHist == <<moved, rerun, eof, rxHist>>
gdmaVars == <<walkVars, i2s, dmaInt, dmaHist>>

Sides == {"tx", "rx"}
Idle == [run |-> FALSE, desc |-> 0, left |-> 0, buf |-> 0, next |-> 0]

GdmaInit ==
  /\ tx = Idle /\ rx = Idle
  /\ tx_fifo = 0 /\ rx_fifo = <<>> /\ rx_sample = 0
  /\ i2s = {}
  /\ dma_raw = {} /\ dma_ena = {} /\ dma_source = {}
  /\ moved = [s \in Sides |-> 0] /\ rerun = [s \in Sides |-> FALSE]
  /\ eof = [s \in Sides |-> [desc |-> 0, words |-> 0, rerun |-> TRUE]]
  /\ rx_log = <<>> /\ rx_home = {} /\ rx_clean = TRUE /\ rx_cut = FALSE

----------------------------------------------------------------------------
(* Walkers.                                                                *)

(* load_desc, load_rx_desc: a descriptor outside RAM parks the channel and *)
(* leaves the cached fields.                                               *)
Load(w, addr) ==
  IF addr \in DescAddrs
  THEN [w EXCEPT !.desc = addr, !.left = Descs[addr].words,
                 !.buf = Descs[addr].buf, !.next = Descs[addr].next]
  ELSE [w EXCEPT !.desc = addr, !.run = FALSE]

StartedUnlessBusy(w, addr) ==
  [IF w.left > 0 THEN w ELSE Load(w, addr) EXCEPT !.run = TRUE]

(* Link start: load, then run in any case, also if the descriptor is not   *)
(* in RAM: the walker then goes on with what it had cached.                *)
Started(w, addr) == [Load(w, addr) EXCEPT !.run = TRUE]

(* The tail of both loops: the descriptor is done, take the next or park.  *)
Advanced(w) == IF w.next = 0 THEN [w EXCEPT !.run = FALSE] ELSE Load(w, w.next)

(* It has run out of descriptors, or was reset.                            *)
Parked(w) == ~w.run /\ w.left = 0

RaiseEof(raised) ==
  /\ dma_raw' = dma_raw \cup raised
  /\ dma_source' = dma_source \cup (raised \cap dma_ena)
  /\ UNCHANGED dma_ena

DoneEarly(w) == w.left <= 1

(* A walker whose descriptor has no words left is done with it.            *)
Done(w) == w.left = 0

Runs(side, w) == w.run /\ side \in i2s

(* TX of one poll: one word leaves the FIFO, the walker refills it; a      *)
(* buffer outside RAM parks it half-way.                                   *)
TxFilled ==
  LET drained == IF tx_fifo > 0 THEN tx_fifo - 1 ELSE 0
      room == FifoDepth - drained
      k == IF tx.buf = NoRam THEN 0 ELSE IF tx.left <= room THEN tx.left ELSE room
      bad == tx.buf = NoRam /\ tx.left > 0 /\ room > 0
  IN  [fifo |-> drained + k, k |-> k,
       w |-> [tx EXCEPT !.left = @ - k, !.run = @ /\ ~bad]]

(* RX of one poll: the engine makes a sample if there is room, the walker  *)
(* stores the oldest one if its descriptor has room.  A buffer outside RAM *)
(* parks it, and the sample is gone.                                       *)
RxFilled ==
  LET fits == Len(rx_fifo) < FifoDepth
      full == IF fits THEN Append(rx_fifo, rx_sample) ELSE rx_fifo
      copy == rx.left > 0
      bad == copy /\ rx.buf = NoRam
  IN  [fifo |-> IF copy THEN Tail(full) ELSE full,
       sample |-> IF fits THEN rx_sample + 1 ELSE rx_sample,
       stored |-> IF copy /\ ~bad THEN <<Head(full)>> ELSE <<>>,
       bad |-> bad,
       w |-> [rx EXCEPT !.left = IF copy /\ ~bad THEN @ - 1 ELSE @,
                        !.run = @ /\ ~bad]]

(* The GDMA part of esp32p4_periodic.  due holds the sides whose 256       *)
(* cycles are over.                                                        *)
GdmaPoll(due) ==
  LET t == TxFilled
      r == RxFilled
      txs == "tx" \in due /\ Runs("tx", tx)
      rxs == "rx" \in due /\ Runs("rx", rx)
      txDone == txs /\ Done(t.w)
      rxDone == rxs /\ ~r.bad /\ Done(r.w)
      words == [s \in Sides |-> moved[s] + IF s = "tx" THEN t.k ELSE Len(r.stored)]
      desc == [s \in Sides |-> IF s = "tx" THEN tx.desc ELSE rx.desc]
      steps == {s \in Sides : IF s = "tx" THEN txs ELSE rxs}
      done == {s \in Sides : IF s = "tx" THEN txDone ELSE rxDone}
  IN  /\ rxs => rx_sample < MaxSample
      /\ tx_fifo' = IF txs THEN t.fifo ELSE tx_fifo
      /\ tx' = IF txDone THEN Advanced(t.w) ELSE IF txs THEN t.w ELSE tx
      /\ rx_fifo' = IF rxs THEN r.fifo ELSE rx_fifo
      /\ rx_sample' = IF rxs THEN r.sample ELSE rx_sample
      /\ rx' = IF rxDone THEN Advanced(r.w) ELSE IF rxs THEN r.w ELSE rx
      /\ RaiseEof(done)
      /\ eof' = [s \in Sides |->
                   IF s \in done
                   THEN [desc |-> desc[s], words |-> words[s], rerun |-> rerun[s]]
                   ELSE eof[s]]
      /\ rerun' = [s \in Sides |-> rerun[s] /\ s \notin done]
      /\ moved' = [s \in Sides |-> IF s \in done THEN 0
                                   ELSE IF s \in steps THEN words[s] ELSE moved[s]]
      /\ rx_log' = IF rxs THEN rx_log \o r.stored ELSE rx_log
      /\ rx_cut' = (rx_cut \/ (rxs /\ r.bad))
      /\ UNCHANGED <<i2s, rx_home, rx_clean>>

----------------------------------------------------------------------------
(* Register writes of the driver.                                          *)

(* OUT_LINK start.                                                         *)
TxStart(addr) ==
  /\ tx' = Started(tx, addr)
  /\ moved' = [moved EXCEPT !["tx"] = 0]
  /\ rerun' = [rerun EXCEPT !["tx"] = addr \notin DescAddrs]
  /\ UNCHANGED <<rx, tx_fifo, rx_fifo, rx_sample, i2s, dmaInt, eof, rxHist>>

(* The descriptors of the chain that begins at addr.                       *)
Chain(addr) ==
  LET Closed(S) == \A e \in S : Descs[e].next \in DescAddrs => Descs[e].next \in S
  IN  {d \in DescAddrs : \A S \in SUBSET DescAddrs : addr \in S /\ Closed(S) => d \in S}

RxStartKeepsSample(addr) ==
  /\ rx' = Started(rx, addr)
  /\ UNCHANGED rx_sample
  /\ moved' = [moved EXCEPT !["rx"] = 0]
  /\ rerun' = [rerun EXCEPT !["rx"] = addr \notin DescAddrs]
  /\ rx_log' = <<>>
  /\ rx_home' = IF addr \in DescAddrs THEN {Descs[d].buf : d \in Chain(addr)} ELSE rx_home
  /\ rx_clean' = (rx_fifo = <<>>)
  /\ rx_cut' = FALSE
  /\ UNCHANGED <<tx, tx_fifo, rx_fifo, i2s, dmaInt, eof>>

(* IN_LINK start: the sample counter begins again, the FIFO is kept.       *)
RxStart(addr) ==
  /\ rx' = Started(rx, addr)
  /\ rx_sample' = 0
  /\ moved' = [moved EXCEPT !["rx"] = 0]
  /\ rerun' = [rerun EXCEPT !["rx"] = addr \notin DescAddrs]
  /\ rx_log' = <<>>
  /\ rx_home' = IF addr \in DescAddrs THEN {Descs[d].buf : d \in Chain(addr)} ELSE rx_home
  /\ rx_clean' = (rx_fifo = <<>>)
  /\ rx_cut' = FALSE
  /\ UNCHANGED <<tx, tx_fifo, rx_fifo, i2s, dmaInt, eof>>

(* Link stop, and restart: the walker goes on where it was.  A parked one  *)
(* has no words left: it reports its old descriptor again, then goes on    *)
(* with the cached next one.                                               *)
TxLink(run) ==
  /\ tx' = [tx EXCEPT !.run = run]
  /\ rerun' = [rerun EXCEPT !["tx"] = @ \/ (run /\ Parked(tx))]
  /\ UNCHANGED <<rx, tx_fifo, rx_fifo, rx_sample, i2s, dmaInt, moved, eof, rxHist>>

RxLink(run) ==
  /\ rx' = [rx EXCEPT !.run = run]
  /\ rerun' = [rerun EXCEPT !["rx"] = @ \/ (run /\ Parked(rx))]
  /\ UNCHANGED <<tx, tx_fifo, rx_fifo, rx_sample, i2s, dmaInt, moved, eof, rxHist>>

(* conf0 with its reset bit: FIFO and walker.                              *)
TxReset ==
  /\ tx' = [tx EXCEPT !.run = FALSE, !.left = 0]
  /\ tx_fifo' = 0
  /\ UNCHANGED <<rx, rx_fifo, rx_sample, i2s, dmaInt, dmaHist>>

RxReset ==
  /\ rx' = [rx EXCEPT !.run = FALSE, !.left = 0]
  /\ rx_fifo' = <<>>
  /\ rx_cut' = TRUE
  /\ UNCHANGED <<tx, tx_fifo, rx_sample, i2s, dmaInt, moved, rerun, eof,
                 rx_log, rx_home, rx_clean>>

(* TX_CONF, RX_CONF of I2S0: the start bits.                               *)
I2sConf(side, on) ==
  /\ i2s' = IF on THEN i2s \cup {side} ELSE i2s \ {side}
  /\ UNCHANGED <<walkVars, dmaInt, dmaHist>>

DmaIntEnaKeepsSource(side, on) ==
  /\ dma_ena' = IF on THEN dma_ena \cup {side} ELSE dma_ena \ {side}
  /\ UNCHANGED <<walkVars, i2s, dma_raw, dma_source, dmaHist>>

(* Interrupt enable and clear: a source falls with raw & ena, and does not *)
(* rise when the enable comes late.                                        *)
DmaIntEna(side, on) ==
  /\ dma_ena' = IF on THEN dma_ena \cup {side} ELSE dma_ena \ {side}
  /\ dma_source' = IF side \in dma_raw \cap dma_ena' THEN dma_source
                                                   ELSE dma_source \ {side}
  /\ UNCHANGED <<walkVars, i2s, dma_raw, dmaHist>>

DmaIntClr(side) ==
  /\ dma_raw' = dma_raw \ {side}
  /\ dma_source' = dma_source \ {side}
  /\ UNCHANGED <<walkVars, i2s, dma_ena, dmaHist>>

DmaCommon(side) ==
  \/ \E on \in BOOLEAN : I2sConf(side, on) \/ DmaIntEna(side, on)
  \/ DmaIntClr(side)

TxGuest ==
  \/ \E a \in Heads : TxStart(a)
  \/ \E run \in BOOLEAN : TxLink(run)
  \/ TxReset
  \/ DmaCommon("tx")

RxGuest ==
  \/ \E a \in Heads : RxStart(a)
  \/ \E run \in BOOLEAN : RxLink(run)
  \/ RxReset
  \/ DmaCommon("rx")

GdmaNext ==
  \/ \E due \in SUBSET Sides : GdmaPoll(due)
  \/ TxGuest
  \/ RxGuest

GdmaSpec == GdmaInit /\ [][GdmaNext]_gdmaVars

----------------------------------------------------------------------------
(* Properties.                                                             *)

Walkers == [run : BOOLEAN, desc : Nat, left : Nat,
            buf : Nat \cup {NoRam}, next : Nat]

(* FIFOs within their depth, walkers in their fields, sources only where   *)
(* an enabled EOF is pending.                                              *)
GdmaTypeOK ==
  /\ tx \in Walkers /\ rx \in Walkers
  /\ tx_fifo \in 0 .. FifoDepth
  /\ rx_fifo \in Seq(Nat) /\ Len(rx_fifo) <= FifoDepth
  /\ rx_sample \in 0 .. MaxSample
  /\ i2s \subseteq Sides /\ dma_raw \subseteq Sides /\ dma_ena \subseteq Sides
  /\ dma_source \subseteq dma_raw \cap dma_ena
  /\ rx_log \in Seq(Nat)

(* OUT_EOF and IN_SUC_EOF report a descriptor in RAM, and only after all   *)
(* its words moved, however the channel is stopped, restarted, reset and   *)
(* started again.  The code has one exception: a channel set running       *)
(* without a descriptor loaded - a restart after it parked, a start        *)
(* outside RAM - first reports the old one, once.                          *)
EofAfterData ==
  \A s \in Sides : ~eof[s].rerun =>
     /\ eof[s].desc \in DescAddrs
     /\ eof[s].words = Descs[eof[s].desc].words

(* The samples the RX walker stores are values of the engine's counter, in *)
(* order, and from 0 without a gap until a reset empties the FIFO or a     *)
(* buffer outside RAM swallows a sample: however the channel is stopped,   *)
(* parked and restarted, if the FIFO was empty at the start.               *)
RxStream ==
  rx_clean => /\ \A i, j \in 1 .. Len(rx_log) : i < j => rx_log[i] < rx_log[j]
              /\ ~rx_cut => rx_log = [i \in 1 .. Len(rx_log) |-> i - 1]

(* A walker with words to store points into a buffer of the chain that the *)
(* last start found in RAM, never of one loaded before it.                 *)
RxInHome == rx.left > 0 => rx.buf \in rx_home
=============================================================================
