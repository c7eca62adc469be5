------------------------------- MODULE P4Clic -------------------------------
(***************************************************************************)
(* Interrupt delivery on the dual-core ESP32-P4: the pending-source bits,  *)
(* the two interrupt-matrix MAPs, the per-hart CLIC (enable, level, SW     *)
(* pending bit, thresholds), the FROM_CPU crosscore registers, the CLINT,  *)
(* and trap entry and mret as far as they gate delivery (the MIE and MPIE  *)
(* bits).  Both harts exist (smp_enabled) and have their trap vectors.     *)
(*                                                                         *)
(* The sources are the crosscore sources 79 and 80, which target harts 0   *)
(* and 1, and one level-driven device.  CPU line L drives CLIC ID 16+L;    *)
(* IDs 3 and 7 are the CLINT's; the other IDs below 16 and above 47 have   *)
(* no line and are pended by software only.  The constants bound what the  *)
(* guest passes to the configuration calls.                                *)
(***************************************************************************)
EXTENDS Integers, FiniteSets

CONSTANTS
  Lines,      \* the CPU lines in use, of 0..31
  SoftIds,    \* the CLIC IDs without a line in use
  Device,     \* the interrupt source of the device, of 0..127
  MaxLevel,   \* largest CTL or threshold byte (255 in the code)
  StartMap,   \* the two MAPs once the startup code has routed its sources
  Enables,    \* CLIC IDs each hart has enabled at the start
  Levels,     \* CTL byte of each ID at the start
  RouteArgs,  \* <<cpu, src, line>> arguments of intr_matrix_set
  MapArgs,    \* <<cpu, src, value>> writes to the MAP registers
  PrioArgs,   \* <<hart, line, prio>> arguments of set_priority
  MaskArgs,   \* <<hart, line>> that enable/disable calls are made for
  RomThresh,  \* <<hart, threshold>> arguments of set_threshold,
  CsrThresh,  \* values written to the MINTTHRESH CSR
  MmioThresh, \* and to the THRESH register
  ClintArgs,  \* <<hart, id>>: the CLINT interrupts in use
  RmwArgs,    \* <<hart, id>> words the SDK reconfigures by read-modify-write
  PendArgs    \* <<hart, id>> the guest pends by software

Harts == {0, 1}
FromCpu(h) == 79 + h
ClintIds == {3, 7}             \* MSIP and MTIME, also lines 3 and 7
Sources == {FromCpu(h) : h \in Harts} \cup {Device}
Unmapped == 160                \* 0xFFFFFFFF in the map
ExternalIds == {16 + l : l \in Lines}
SwIds == ExternalIds \cup SoftIds    \* IDs whose stored IP bit counts
Ids == ClintIds \cup SwIds

ASSUME ClicAssumption ==
  /\ Lines \subseteq 0 .. 31
  /\ SoftIds \subseteq ((0 .. 15) \ ClintIds) \cup 48 .. 63
  /\ Device \in (0 .. 127) \ {79, 80}
  /\ MaxLevel \in Nat
  /\ StartMap \in [Harts -> [Sources -> 0 .. Unmapped]]
  /\ Enables \in [Harts -> SUBSET Ids]
  /\ Levels \in [Ids -> 0 .. MaxLevel]
  /\ RouteArgs \subseteq Harts \X Sources \X Lines
  /\ MapArgs \subseteq Harts \X Sources \X Nat
  /\ PrioArgs \subseteq Harts \X Lines \X (0 .. MaxLevel)
  /\ MaskArgs \subseteq Harts \X Lines
  /\ RomThresh \subseteq Harts \X (0 .. MaxLevel)
  /\ CsrThresh \subseteq Harts \X (0 .. MaxLevel)
  /\ MmioThresh \subseteq Harts \X (0 .. MaxLevel)
  /\ ClintArgs \subseteq Harts \X ClintIds
  /\ RmwArgs \subseteq Harts \X SwIds
  /\ PendArgs \subseteq Harts \X SwIds

VARIABLES
  pending,     \* intc_status_lo/hi: the sources that are pending
  intmap,      \* intc_intmap
  clic_ie, clic_ctl, clic_ip_sw,
  clic_thresh, csr_mintthresh,
  clint,       \* the CLINT IDs that are up: msip, mtime >= mtimecmp
  mie, mpie,   \* mstatus.MIE and .MPIE of each hart
  owed,        \* history: harts with a crosscore request not yet delivered
  asked,       \* history: the threshold each hart's guest set last
  mirrored,    \* history: harts that set it by the ROM call
  meant        \* history: <<hart, id>> the guest pended on purpose

clicVars == <<intmap, clic_ie, clic_ctl, clic_ip_sw>>
threshVars == <<clic_thresh, csr_mintthresh, asked, mirrored>>
statusVars == <<mie, mpie>>
vars == <<pending, clicVars, threshVars, clint, statusVars, owed, meant>>

(* Nothing pending, interrupts off; the MAPs, enables and levels are those *)
(* the guest's startup code has set.                                       *)
Init ==
  /\ pending = {}
  /\ intmap = StartMap
  /\ clic_ie = Enables
  /\ clic_ctl = [h \in Harts |-> Levels]
  /\ clic_ip_sw = [h \in Harts |-> {}]
  /\ clic_thresh = [h \in Harts |-> 0]
  /\ csr_mintthresh = [h \in Harts |-> 0]
  /\ clint = [h \in Harts |-> {}]
  /\ mie = [h \in Harts |-> FALSE]
  /\ mpie = [h \in Harts |-> FALSE]
  /\ owed = {}
  /\ asked = [h \in Harts |-> 0] /\ mirrored = Harts
  /\ meant = {}

----------------------------------------------------------------------------
(* esp32_intc_raise and the arbitration of esp32p4_check_interrupt.        *)

(* The line a map word selects (word & 0x1F): an unmapped word is all ones *)
(* and masks to line 31.                                                   *)
MaskedLine(m) == IF m = Unmapped THEN 31 ELSE m % 32

(* The lines of hart h that are up: mapped pending sources, and the CLINT. *)
RaisedLines(h) ==
  {MaskedLine(intmap[h][s]) : s \in {p \in pending : intmap[h][p] # Unmapped}}
    \cup clint[h]

(* ip: the hardware line or the software bit; the CLINT's own for 3 and 7. *)
Pend(h) ==
  {id \in ExternalIds : id - 16 \in RaisedLines(h)}
    \cup clic_ip_sw[h] \cup clint[h]

ThresholdMin(h) == IF csr_mintthresh[h] < clic_thresh[h] THEN csr_mintthresh[h]
                                                         ELSE clic_thresh[h]

(* Effective threshold: the larger of the MMIO and the CSR one.            *)
Threshold(h) == IF csr_mintthresh[h] > clic_thresh[h] THEN csr_mintthresh[h]
                                                      ELSE clic_thresh[h]

EligibleAbove(h) ==
  {id \in Pend(h) \cap clic_ie[h] : clic_ctl[h][id] > Threshold(h)}

(* Pending, enabled and at least at the threshold: a level equal to it is  *)
(* delivered, as the comment at the comparison says ("fires when level >=  *)
(* threshold"); the comment at the head of the loop says level > threshold. *)
Eligible(h) ==
  {id \in Pend(h) \cap clic_ie[h] : clic_ctl[h][id] >= Threshold(h)}

NoId == -1

BetterKeepsFirst(h, id, b) == IF b = NoId THEN id ELSE b

(* One iteration for an eligible id: best_id goes from b to the result.    *)
Better(h, id, b) ==
  IF \/ b = NoId
     \/ clic_ctl[h][id] > clic_ctl[h][b]
     \/ clic_ctl[h][id] = clic_ctl[h][b] /\ id < b
  THEN id ELSE b

(* The loop over the IDs, in ascending order: best_id after the last one.  *)
Scan(h) ==
  LET last(S) == CHOOSE id \in S : \A j \in S : j <= id
      best[S \in SUBSET Eligible(h)] ==
        IF S = {} THEN NoId ELSE Better(h, last(S), best[S \ {last(S)}])
  IN  best[Eligible(h)]

AcksAll(h, id) == {FromCpu(g) : g \in Harts}
AcksNone(h, id) == {}

(* Crosscore sources whose flag the delivery of id on hart h clears; both  *)
(* are looked up in the map of the delivering hart.                        *)
Acks(h, id) == {FromCpu(g) : g \in {k \in Harts :
                  id = 16 + MaskedLine(intmap[h][FromCpu(k)])}}

(* _trap_handler in M-mode: MIE moves to MPIE by OR, and is cleared.       *)
EnterTrap(h) ==
  /\ mpie' = [mpie EXCEPT ![h] = @ \/ mie[h]]
  /\ mie' = [mie EXCEPT ![h] = FALSE]

(* esp32p4_check_interrupt finds an eligible ID: it acknowledges crosscore *)
(* sources and traps.                                                      *)
Deliver(h) ==
  /\ mie[h]
  /\ EnterTrap(h)
  /\ UNCHANGED <<clicVars, threshVars, clint, meant>>
  /\ LET id == Scan(h) IN
       /\ id # NoId
       /\ pending' = pending \ Acks(h, id)
       /\ owed' = IF FromCpu(h) \in Acks(h, id) THEN owed \ {h} ELSE owed

(* A synchronous exception of hart h.                                      *)
Exception(h) ==
  /\ EnterTrap(h)
  /\ UNCHANGED <<pending, clicVars, threshVars, clint, owed, meant>>

(* mret: MIE is restored from MPIE by OR, MPIE set.                        *)
Mret(h) ==
  /\ mie' = [mie EXCEPT ![h] = @ \/ mpie[h]]
  /\ mpie' = [mpie EXCEPT ![h] = TRUE]
  /\ UNCHANGED <<pending, clicVars, threshVars, clint, owed, meant>>

----------------------------------------------------------------------------
(* Register writes and ROM calls of the guest.                             *)

(* csrsi/csrci mstatus, MIE                                                *)
WriteMie(h, b) ==
  /\ mie[h] # b
  /\ mie' = [mie EXCEPT ![h] = b]
  /\ UNCHANGED <<pending, clicVars, threshVars, clint, mpie,
                 owed, meant>>

(* FROM_CPU_h written with bit 0 set, by either hart, or clear.            *)
RaiseIpi(h) ==
  /\ pending' = pending \cup {FromCpu(h)}
  /\ owed' = owed \cup {h}
  /\ UNCHANGED <<clicVars, threshVars, clint, statusVars, meant>>

WithdrawIpi(h) ==
  /\ FromCpu(h) \in pending
  /\ pending' = pending \ {FromCpu(h)}
  /\ owed' = owed \ {h}
  /\ UNCHANGED <<clicVars, threshVars, clint, statusVars, meant>>

(* The device raises its source; its handler's INT_CLR write drops it.     *)
DeviceRaise ==
  /\ Device \notin pending
  /\ pending' = pending \cup {Device}
  /\ UNCHANGED <<clicVars, threshVars, clint, statusVars, owed, meant>>

DeviceClear ==
  /\ Device \in pending
  /\ pending' = pending \ {Device}
  /\ UNCHANGED <<clicVars, threshVars, clint, statusVars, owed, meant>>

(* MSIP is written, or mtime passes mtimecmp; and the guest's write of     *)
(* MSIP or mtimecmp that drops it again.                                   *)
ClintChange(h, id) ==
  /\ clint' = [clint EXCEPT ![h] = IF id \in @ THEN @ \ {id} ELSE @ \cup {id}]
  /\ UNCHANGED <<pending, clicVars, threshVars, statusVars, owed, meant>>

SetMap(cpu, src, word) ==
  /\ intmap' = [intmap EXCEPT ![cpu][src] = word]
  /\ UNCHANGED <<pending, clic_ie, clic_ctl, clic_ip_sw, threshVars, clint,
                 statusVars, owed, meant>>

(* intr_matrix_set(cpu, src, line) stores the line itself.                 *)
RouteSource(cpu, src, line) == SetMap(cpu, src, line)

MapWordNoWrap(v) == IF v % 32 = 0 THEN Unmapped ELSE (v % 32) - 16

(* The MAP register holds line + 16, of which five bits are kept, and 0    *)
(* for unmapped.                                                           *)
MapWord(v) == IF v % 32 = 0 THEN Unmapped ELSE ((v % 32) - 16) % 32

WriteMap(cpu, src, v) == SetMap(cpu, src, MapWord(v))

(* esprv_intc_int_set_priority(line, prio) by hart h                       *)
SetPriority(h, line, prio) ==
  /\ clic_ctl[h][16 + line] # prio
  /\ clic_ctl' = [clic_ctl EXCEPT ![h][16 + line] = prio]
  /\ UNCHANGED <<pending, intmap, clic_ie, clic_ip_sw, threshVars, clint,
                 statusVars, owed, meant>>

(* esprv_intc_int_enable / _disable of one line by hart h                  *)
SetEnable(h, line, en) ==
  /\ clic_ie' = [clic_ie EXCEPT ![h] =
                   IF en THEN @ \cup {16 + line} ELSE @ \ {16 + line}]
  /\ clic_ie' # clic_ie
  /\ UNCHANGED <<pending, intmap, clic_ctl, clic_ip_sw, threshVars, clint,
                 statusVars, owed, meant>>

(* esprv_intc_int_set_threshold: mirrored to both threshold registers.     *)
RomSetThreshold(h, t) ==
  /\ clic_thresh' = [clic_thresh EXCEPT ![h] = t]
  /\ csr_mintthresh' = [csr_mintthresh EXCEPT ![h] = t]
  /\ asked' = [asked EXCEPT ![h] = t] /\ mirrored' = mirrored \cup {h}
  /\ UNCHANGED <<pending, clicVars, clint, statusVars, owed, meant>>

(* csrw mintthresh                                                         *)
CsrSetThreshold(h, t) ==
  /\ csr_mintthresh' = [csr_mintthresh EXCEPT ![h] = t]
  /\ asked' = [asked EXCEPT ![h] = t] /\ mirrored' = mirrored \ {h}
  /\ UNCHANGED <<pending, clicVars, clic_thresh, clint, statusVars, owed, meant>>

(* A word written to the THRESH register (the view of hart h).             *)
MmioSetThreshold(h, t) ==
  /\ clic_thresh' = [clic_thresh EXCEPT ![h] = t]
  /\ asked' = [asked EXCEPT ![h] = t] /\ mirrored' = mirrored \ {h}
  /\ UNCHANGED <<pending, clicVars, csr_mintthresh, clint, statusVars, owed,
                 meant>>

(* A pending source whose map word equals the line (not masked here).      *)
HwIp(h, id) == \E s \in pending : intmap[h][s] = id - 16

(* Bit 0 of a CLIC word read by hart h.                                    *)
ReadIp(h, id) == HwIp(h, id) \/ id \in clic_ip_sw[h]

(* A CLIC word write stores the IP bit of the written word.                *)
StoreIp(h, id, ip) ==
  clic_ip_sw' = [clic_ip_sw EXCEPT ![h] = IF ip THEN @ \cup {id} ELSE @ \ {id}]

(* The SDK reads the word and writes it back with other bits changed.      *)
RmwConfig(h, id) ==
  /\ StoreIp(h, id, ReadIp(h, id))
  /\ UNCHANGED <<pending, intmap, clic_ie, clic_ctl, threshVars, clint,
                 statusVars, owed, meant>>

(* The guest pends or unpends an ID itself.                                *)
WriteIp(h, id, ip) ==
  /\ StoreIp(h, id, ip)
  /\ meant' = IF ip THEN meant \cup {<<h, id>>} ELSE meant \ {<<h, id>>}
  /\ UNCHANGED <<pending, intmap, clic_ie, clic_ctl, threshVars, clint,
                 statusVars, owed>>

----------------------------------------------------------------------------
Trap == \E h \in Harts : Deliver(h) \/ Exception(h) \/ Mret(h)

Configure ==
  \/ \E r \in RouteArgs : RouteSource(r[1], r[2], r[3])
  \/ \E r \in MapArgs : WriteMap(r[1], r[2], r[3])
  \/ \E r \in PrioArgs : SetPriority(r[1], r[2], r[3])
  \/ \E r \in MaskArgs, en \in BOOLEAN : SetEnable(r[1], r[2], en)
  \/ \E r \in RmwArgs : RmwConfig(r[1], r[2])
  \/ \E r \in PendArgs, ip \in BOOLEAN : WriteIp(r[1], r[2], ip)

Mask ==
  \/ \E r \in RomThresh : RomSetThreshold(r[1], r[2])
  \/ \E r \in CsrThresh : CsrSetThreshold(r[1], r[2])
  \/ \E r \in MmioThresh : MmioSetThreshold(r[1], r[2])
  \/ \E h \in Harts, b \in BOOLEAN : WriteMie(h, b)

Raise ==
  \/ \E h \in Harts : RaiseIpi(h) \/ WithdrawIpi(h)
  \/ \E r \in ClintArgs : ClintChange(r[1], r[2])
  \/ DeviceRaise \/ DeviceClear

Next == Trap \/ Configure \/ Mask \/ Raise

Spec == Init /\ [][Next]_vars

(* rv_step polls both harts before every block, so a hart that is open to  *)
(* an interrupt for a block again and again is interrupted.                *)
FairSpec == Spec /\ \A h \in Harts : SF_vars(Deliver(h))

----------------------------------------------------------------------------
ClicTypeOK ==
  /\ pending \subseteq Sources
  /\ intmap \in [Harts -> [Sources -> 0 .. Unmapped]]
  /\ clic_ie \in [Harts -> SUBSET Ids]
  /\ clic_ctl \in [Harts -> [Ids -> 0 .. MaxLevel]]
  /\ clic_ip_sw \in [Harts -> SUBSET SwIds]
  /\ clic_thresh \in [Harts -> 0 .. MaxLevel]
  /\ csr_mintthresh \in [Harts -> 0 .. MaxLevel]
  /\ asked \in [Harts -> 0 .. MaxLevel] /\ mirrored \subseteq Harts
  /\ clint \in [Harts -> SUBSET ClintIds]
  /\ mie \in [Harts -> BOOLEAN] /\ mpie \in [Harts -> BOOLEAN]
  /\ owed \subseteq Harts
  /\ meant \subseteq Harts \X SwIds

(* What keeps id of hart h pending: the CLINT (as an ID of its own and on  *)
(* the lines 3 and 7), its stored IP bit, or a source routed to its line.  *)
Asserted(h, id) ==
  \/ id \in clint[h] \/ id - 16 \in clint[h] \/ id \in clic_ip_sw[h]
  \/ \E s \in pending : intmap[h][s] # Unmapped /\ id = 16 + (intmap[h][s] % 32)

(* Nothing masks id: neither of the two thresholds is above its level.     *)
Unmasked(h, id) ==
  /\ id \in clic_ie[h]
  /\ clic_ctl[h][id] >= clic_thresh[h] /\ clic_ctl[h][id] >= csr_mintthresh[h]

Ready(h) == {id \in Ids : Asserted(h, id) /\ Unmasked(h, id)}

(* id beats every other ready ID: higher level, ties to the lowest ID.     *)
Wins(h, id) ==
  /\ id \in Ready(h)
  /\ \A j \in Ready(h) \ {id} :
       \/ clic_ctl[h][j] < clic_ctl[h][id]
       \/ clic_ctl[h][j] = clic_ctl[h][id] /\ id < j

(* check_interrupt delivers an ID exactly when one is asserted and masked  *)
(* by nothing (a level equal to a threshold is not masked), and then the   *)
(* one of highest level, the lowest ID among equals, ID 0 included.        *)
DeliversBest ==
  \A h \in Harts :
    LET id == Scan(h) IN IF Ready(h) = {} THEN id = NoId ELSE Wins(h, id)

(* A crosscore request stays pending until its own hart has been           *)
(* interrupted for it or software withdraws it (the FROM_CPU read comment: *)
(* cleared "once the interrupt has been delivered to its hart").           *)
NoLostIpi == \A h \in owed : FromCpu(h) \in pending

(* A threshold the guest sets takes effect whichever way it is set and     *)
(* whatever the other register holds: nothing below it is delivered; and   *)
(* set by the ROM call, which mirrors it, it is exactly the one in force   *)
(* (the set_threshold comment: mirrored "so the max() in delivery stays    *)
(* correct either way").  Lowered through one register alone it may stay   *)
(* masked by what the other one still holds.                               *)
ThresholdHolds ==
  \A h \in Harts :
    /\ LET id == Scan(h) IN id # NoId => clic_ctl[h][id] >= asked[h]
    /\ h \in mirrored => Threshold(h) = asked[h]

Open(h) == mie[h] /\ clic_thresh[h] = 0 /\ csr_mintthresh[h] = 0

(* The crosscore handshake ends: the FROM_CPU flag that the sender busy-   *)
(* waits on reads back 0 in the end, if its hart again and again has       *)
(* interrupts enabled and no threshold set, whatever else is pending.      *)
IpiServed ==
  \A h \in Harts :
    []<>Open(h) => (FromCpu(h) \in pending ~> FromCpu(h) \notin pending)

(* The CLIC write comment: "RMW config can never stack a stale pend".  A   *)
(* set software bit was set on purpose or its hardware line is up.         *)
NoStalePend ==
  \A h \in Harts : \A id \in clic_ip_sw[h] : <<h, id>> \in meant \/ HwIp(h, id)
=============================================================================
