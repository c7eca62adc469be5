---------------------------- MODULE P4SmpProofs ----------------------------
(***************************************************************************)
(* Proofs about P4Smp, for every number of words, quantum, pin bound and   *)
(* cycle budget.  The invariant is inductive together with Hart1Absent:    *)
(* the stores of hart 0 skip the invalidation before hart 1 exists, which  *)
(* is harmless because a hart that does not exist holds no reservation.    *)
(***************************************************************************)
EXTENDS P4Chain, TLAPS

(* Before smp_target created hart 1, nothing runs on it.                   *)
Hart1Absent == ~created => cur = 0 /\ ~lr_valid[1] /\ phase # "isr1"

IInv == TypeOK /\ ReservationSound /\ Hart1Absent

(* Running a block or a handler changes only the two cycle differences.    *)
LEMMA SpendType ==
  ASSUME TypeOK, NEW h \in Harts, NEW n \in 1 .. MaxCost, Spend(h, n)
  PROVE  lead' \in -CycleSpan .. CycleSpan /\ left' \in -CycleSpan .. CycleSpan
  BY SmpAssumption DEF TypeOK, Spend, Clip, Harts

(* A peer store that overlaps the reserved word without being split ends   *)
(* the reservation: the address tests of write_w, write_s and write_b      *)
(* together cover every other overlap.                                     *)
LEMMA OverlapIsCleared ==
  ASSUME NEW a \in Addrs, NEW n \in Sizes, NEW w \in Words,
         Overlaps(a, n, w), ~Splits(a, n, w)
  PROVE  Clears(a, n, w)
  BY DEF Clears, Splits

(* There is exactly one other hart.                                        *)
LEMMA OtherHart ==
  ASSUME NEW h \in Harts
  PROVE  Other(h) \in Harts /\ Other(h) # h
  BY DEF Harts, Other

(* A store keeps the flags Boolean and the record of peer stores well      *)
(* typed, leaves the storing hart's own reservation alone and can only     *)
(* clear the peer's.                                                       *)
LEMMA StoreType ==
  ASSUME TypeOK, NEW h \in Harts, NEW a, NEW n
  PROVE  /\ PeerValid(h, a, n) \in [Harts -> BOOLEAN]
         /\ PeerSeen(h, a, n) \in [Harts -> SUBSET {"whole", "split"}]
         /\ PeerValid(h, a, n)[h] = lr_valid[h]
         /\ PeerSeen(h, a, n)[h] = peer[h]
         /\ PeerValid(h, a, n)[Other(h)] => lr_valid[Other(h)]
<1> DEFINE o == Other(h)
           c == Clears(a, n, lr_word[o])
           v == Overlaps(a, n, lr_word[o])
           s == Splits(a, n, lr_word[o])
<1>1. o \in Harts /\ o # h
  BY OtherHart
<1>2. PeerValid(h, a, n) = IF created /\ c THEN [lr_valid EXCEPT ![o] = FALSE]
                                           ELSE lr_valid
  BY DEF PeerValid
<1>3. PeerSeen(h, a, n) =
        IF v THEN [peer EXCEPT ![o] = peer[o] \cup {IF s THEN "split" ELSE "whole"}]
             ELSE peer
  BY DEF PeerSeen
<1>4. lr_valid \in [Harts -> BOOLEAN] /\ peer \in [Harts -> SUBSET {"whole", "split"}]
  BY DEF TypeOK
<1> HIDE DEF o, c, v, s
<1>5. /\ PeerValid(h, a, n) \in [Harts -> BOOLEAN]
      /\ PeerValid(h, a, n)[h] = lr_valid[h]
      /\ PeerValid(h, a, n)[o] => lr_valid[o]
  BY <1>1, <1>2, <1>4
<1>6. PeerSeen(h, a, n) \in [Harts -> SUBSET {"whole", "split"}]
  BY <1>1, <1>3, <1>4
<1>7. PeerSeen(h, a, n)[h] = peer[h]
  BY <1>1, <1>3, <1>4
<1> QED BY <1>5, <1>6, <1>7 DEF o

(* The heart of LR/SC atomicity: after a store by h, a surviving           *)
(* reservation of the peer has still not been overlapped by a whole store. *)
LEMMA StoreSound ==
  ASSUME IInv, NEW h \in Harts, NEW a \in Addrs, NEW n \in Sizes,
         Running = h,
         PeerValid(h, a, n)[Other(h)]
  PROVE  "whole" \notin PeerSeen(h, a, n)[Other(h)]
<1> DEFINE o == Other(h)
<1>1. o \in Harts /\ lr_valid[o] /\ "whole" \notin peer[o] /\ lr_word[o] \in Words
  BY StoreType, OtherHart DEF IInv, ReservationSound, TypeOK
<1>2. created
  <2>1. CASE h = 0
    BY <2>1, <1>1 DEF IInv, Hart1Absent, Other
  <2>2. CASE h = 1
    BY <2>2 DEF IInv, Hart1Absent, Running, None
  <2> QED BY <2>1, <2>2 DEF Harts
<1>3. ~Clears(a, n, lr_word[o])
  BY <1>1, <1>2 DEF PeerValid, IInv, TypeOK
<1>4. CASE Overlaps(a, n, lr_word[o])
  <2>1. Splits(a, n, lr_word[o])
    BY <1>1, <1>3, <1>4, OverlapIsCleared
  <2> QED BY <2>1, <1>1, <1>4 DEF PeerSeen, IInv, TypeOK
<1>5. CASE ~Overlaps(a, n, lr_word[o])
  BY <1>1, <1>5 DEF PeerSeen
<1> QED BY <1>4, <1>5

----------------------------------------------------------------------------
(* Init establishes the invariant: no reservation, no hart 1.              *)
LEMMA InitInv == Init => IInv
<1> SUFFICES ASSUME Init PROVE IInv
  OBVIOUS
<1>1. /\ 0 \in 0 .. PinMax /\ 0 \in 0 .. 2 * Quantum - 1
      /\ 0 \in -CycleSpan .. CycleSpan /\ 0 \in Words
  BY SmpAssumption DEF Words
<1>2. TypeOK
  BY <1>1 DEF Init, TypeOK, Phases, Harts
<1>3. ReservationSound /\ Hart1Absent
  BY DEF Init, ReservationSound, Hart1Absent, Harts
<1> QED BY <1>2, <1>3 DEF IInv

(* Stores of one hart and the peer invalidation keep the invariant.        *)
LEMMA StoreInv ==
  ASSUME IInv, NEW h \in Harts, NEW a \in Addrs, NEW n \in Sizes, Store(h, a, n)
  PROVE  IInv'
<1> DEFINE o == Other(h)
<1>1. TypeOK'
  BY StoreType DEF IInv, TypeOK, Store, schedVars, cycleVars
<1>2. ReservationSound'
  <2>1. lr_valid'[h] => "whole" \notin peer'[h]
    BY StoreType DEF IInv, ReservationSound, Store
  <2>2. lr_valid'[o] => "whole" \notin peer'[o]
    BY StoreSound DEF Store
  <2> QED BY <2>1, <2>2 DEF ReservationSound, Harts, Other
<1>3. Hart1Absent'
  <2>1. lr_valid'[1] => lr_valid[1]
    BY StoreType DEF IInv, Store, Harts, Other
  <2> QED BY <2>1 DEF IInv, Hart1Absent, Store, schedVars
<1> QED BY <1>1, <1>2, <1>3 DEF IInv

(* LR takes a fresh reservation; an absent hart 1 never executes one.      *)
LEMMA LoadReservedInv ==
  ASSUME IInv, NEW h \in Harts, NEW w \in Words, LoadReserved(h, w)
  PROVE  IInv'
<1>1. TypeOK'
  BY DEF IInv, TypeOK, LoadReserved, schedVars, cycleVars
<1>2. ReservationSound'
  BY DEF IInv, TypeOK, ReservationSound, LoadReserved
<1>3. Hart1Absent'
  BY DEF IInv, TypeOK, Hart1Absent, LoadReserved, schedVars, Running, None, Harts
<1> QED BY <1>1, <1>2, <1>3 DEF IInv

(* SC stores and drops its own reservation, or only drops it.              *)
LEMMA StoreConditionalInv ==
  ASSUME IInv, NEW h \in Harts, NEW w \in Words, StoreConditional(h, w)
  PROVE  IInv'
<1> DEFINE o == Other(h)
           a == 4 * w
<1>0. a \in Addrs /\ 4 \in Sizes /\ o \in Harts /\ o # h /\ TypeOK
  BY SmpAssumption, OtherHart DEF Addrs, Words, Sizes, IInv
<1>1. CASE ScSucceeds(h, w)
  <2>1. /\ lr_valid' = [PeerValid(h, a, 4) EXCEPT ![h] = FALSE]
        /\ peer' = PeerSeen(h, a, 4)
    BY <1>1 DEF StoreConditional
  <2> HIDE DEF a, o
  <2>2. /\ PeerValid(h, a, 4) \in [Harts -> BOOLEAN]
        /\ PeerSeen(h, a, 4) \in [Harts -> SUBSET {"whole", "split"}]
        /\ PeerValid(h, a, 4)[o] => lr_valid[o]
    BY <1>0, StoreType DEF o
  <2>3. TypeOK'
    BY <1>0, <2>1, <2>2 DEF TypeOK, StoreConditional, schedVars, cycleVars
  <2>4. lr_valid'[o] => "whole" \notin peer'[o]
    BY <1>0, <2>1, <2>2, StoreSound DEF StoreConditional, o
  <2>5. ~lr_valid'[h] /\ (lr_valid'[o] => lr_valid[o])
    BY <1>0, <2>1, <2>2
  <2>6. Hart1Absent'
    BY <2>5 DEF IInv, Hart1Absent, StoreConditional, schedVars, Harts, o, Other
  <2> QED BY <2>3, <2>4, <2>5, <2>6 DEF IInv, ReservationSound, Harts, o, Other
<1>2. CASE ~ScSucceeds(h, w)
  <2>1. lr_valid' = [lr_valid EXCEPT ![h] = FALSE] /\ peer' = peer
    BY <1>2 DEF StoreConditional
  <2>2. TypeOK'
    BY <1>0, <2>1 DEF TypeOK, StoreConditional, schedVars, cycleVars
  <2>3. ReservationSound' /\ Hart1Absent'
    BY <1>0, <2>1 DEF IInv, TypeOK, ReservationSound, Hart1Absent,
       StoreConditional, schedVars, Harts
  <2> QED BY <2>2, <2>3 DEF IInv
<1> QED BY <1>1, <1>2

(* The steps of rv_step and smp_target leave the reservations alone.       *)
LEMMA SchedulerInv ==
  ASSUME IInv, StepBegin \/ StepEnd \/ Target \/ HostHalt \/ Stopped
  PROVE  IInv'
<1> USE SmpAssumption
<1> SUFFICES TypeOK' /\ Hart1Absent' /\ UNCHANGED <<lr_valid, peer>>
  BY DEF IInv, ReservationSound
<1>1. CASE StepBegin
  BY <1>1 DEF IInv, TypeOK, Hart1Absent, StepBegin, lrVars, Phases, Harts
<1>2. CASE StepEnd
  BY <1>2 DEF IInv, TypeOK, Hart1Absent, StepEnd, lrVars, schedVars, cycleVars,
     Phases
<1>3. CASE TargetCreate
  BY <1>3 DEF IInv, TypeOK, Hart1Absent, TargetCreate, lrVars, cycleVars, Phases
<1>4. CASE TargetBusy
  BY <1>4 DEF IInv, TypeOK, Hart1Absent, TargetBusy, lrVars, cycleVars, Phases,
     Harts
<1>5. CASE TargetHalted
  BY <1>5 DEF IInv, TypeOK, Hart1Absent, TargetHalted, lrVars, cycleVars, Phases,
     Harts
<1>6. CASE TargetPinned
  <2>1. smp_lr_pin' \in 0 .. PinMax /\ lead' \in -CycleSpan .. CycleSpan
    BY <1>6 DEF IInv, TypeOK, TargetPinned, Pinned, SyncLead
  <2> QED BY <1>6, <2>1 DEF IInv, TypeOK, Hart1Absent, TargetPinned, lrVars, Phases
<1>7. CASE TargetQuantum
  <2>1. smp_toggle' \in 0 .. 2 * Quantum - 1
    <3>1. smp_toggle + 1 \in Nat /\ 2 * Quantum \in Nat \ {0}
      BY DEF IInv, TypeOK
    <3>2. (smp_toggle + 1) % (2 * Quantum) \in 0 .. 2 * Quantum - 1
      BY <3>1
    <3> QED BY <1>7, <3>2 DEF TargetQuantum
  <2>2. lead' \in -CycleSpan .. CycleSpan /\ smp_lr_pin' \in 0 .. PinMax
    BY <1>7 DEF IInv, TypeOK, TargetQuantum, SyncLead
  <2> QED BY <1>7, <2>1, <2>2 DEF IInv, TypeOK, Hart1Absent, TargetQuantum,
       lrVars, Phases, Harts
<1>8. CASE HostHalt
  BY <1>8 DEF IInv, TypeOK, Hart1Absent, HostHalt, lrVars, cycleVars, Harts
<1>9. CASE Stopped
  BY <1>9 DEF IInv, TypeOK, Hart1Absent, Stopped, vars, lrVars, schedVars,
     cycleVars
<1> QED BY <1>1, <1>2, <1>3, <1>4, <1>5, <1>6, <1>7, <1>8, <1>9 DEF Target

(* Neither do delivering an interrupt and ending its handler.              *)
LEMMA PollInv ==
  ASSUME IInv, Poll
  PROVE  IInv'
<1> SUFFICES TypeOK' /\ Hart1Absent' /\ UNCHANGED <<lr_valid, peer>>
  BY DEF IInv, ReservationSound
<1> PICK h \in Harts : \/ PollQuiet(h) \/ PollDeliver(h)
                       \/ \E n \in 1 .. MaxCost : IsrEnd(h, n)
  BY DEF Poll
<1>1. CASE PollQuiet(h)
  BY <1>1 DEF IInv, TypeOK, Hart1Absent, PollQuiet, AfterPoll, lrVars, schedVars,
     cycleVars, Phases
<1>2. CASE PollDeliver(h)
  BY <1>2 DEF IInv, TypeOK, Hart1Absent, PollDeliver, IsrPhase, lrVars,
     schedVars, cycleVars, Phases, Harts
<1>3. CASE \E n \in 1 .. MaxCost : IsrEnd(h, n)
  <2> PICK n \in 1 .. MaxCost : IsrEnd(h, n)
    BY <1>3
  <2>1. lead' \in -CycleSpan .. CycleSpan /\ left' \in -CycleSpan .. CycleSpan
    BY SpendType DEF IInv, IsrEnd
  <2> QED BY <2>1 DEF IInv, TypeOK, Hart1Absent, IsrEnd, AfterPoll, lrVars,
       schedVars, Phases
<1> QED BY <1>1, <1>2, <1>3

(* Nor does running, unwinding or failing a block.                         *)
LEMMA BlockInv ==
  ASSUME IInv, Block
  PROVE  IInv'
<1> SUFFICES TypeOK' /\ Hart1Absent' /\ UNCHANGED <<lr_valid, peer>>
  BY DEF IInv, ReservationSound
<1>1. CASE Dispatch
  BY <1>1 DEF IInv, TypeOK, Hart1Absent, Dispatch, lrVars, schedVars, cycleVars,
     Phases
<1>2. CASE Untranslatable
  BY <1>2 DEF IInv, TypeOK, Hart1Absent, Untranslatable, lrVars, cycleVars, Phases
<1>3. ASSUME NEW n \in 1 .. MaxCost, EndBlock(n) \/ Yield(n) \/ BlockFails(n)
      PROVE  TypeOK' /\ Hart1Absent' /\ UNCHANGED <<lr_valid, peer>>
  <2>1. cur \in Harts /\ Spend(cur, n)
    BY <1>3 DEF IInv, TypeOK, EndBlock, Yield, BlockFails
  <2>2. lead' \in -CycleSpan .. CycleSpan /\ left' \in -CycleSpan .. CycleSpan
    BY <2>1, SpendType DEF IInv
  <2> QED BY <1>3, <2>2 DEF IInv, TypeOK, Hart1Absent, EndBlock, Yield,
       BlockFails, lrVars, schedVars, Phases
<1> QED BY <1>1, <1>2, <1>3 DEF Block

(* Every step of the machine preserves the invariant.                      *)
LEMMA NextInv == IInv /\ [Next]_vars => IInv'
<1> SUFFICES ASSUME IInv, [Next]_vars PROVE IInv'
  OBVIOUS
<1>1. CASE Memory
  BY <1>1, StoreInv, LoadReservedInv, StoreConditionalInv DEF Memory
<1>2. CASE StepBegin \/ StepEnd \/ Target \/ HostHalt \/ Stopped
  BY <1>2, SchedulerInv
<1>3. CASE Poll
  BY <1>3, PollInv
<1>4. CASE Block
  BY <1>4, BlockInv
<1>5. CASE UNCHANGED vars
  BY <1>5 DEF IInv, TypeOK, ReservationSound, Hart1Absent, vars, lrVars,
     schedVars, cycleVars
<1> QED BY <1>1, <1>2, <1>3, <1>4, <1>5 DEF Next

----------------------------------------------------------------------------
(* The dual-core machine never leaves its types: in particular the pin     *)
(* counter of smp_target never passes its bound.                           *)
THEOREM SmpTypeCorrect == Spec => []TypeOK
<1>1. IInv => TypeOK
  BY DEF IInv
<1> QED BY <1>1, InitInv, NextInv, PTL DEF Spec

(* A live LR reservation has seen no whole peer store since its LR, for    *)
(* every schedule, interrupt and unwind: a successful SC is atomic with    *)
(* respect to the peer's stores that do not straddle a word boundary.      *)
THEOREM SmpReservationSound == Spec => []ReservationSound
<1>1. IInv => ReservationSound
  BY DEF IInv
<1> QED BY <1>1, InitInv, NextInv, PTL DEF Spec

(* The invalidation is never too eager: a reservation that the store of a  *)
(* peer clears was overlapped by that store.                               *)
LEMMA ClearedIsOverlap ==
  ASSUME TypeOK, NEW h \in Harts, NEW a \in Addrs, NEW n \in Sizes,
         lr_valid[Other(h)], ~PeerValid(h, a, n)[Other(h)]
  PROVE  PeerSeen(h, a, n)[Other(h)] # {}
<1> DEFINE o == Other(h)
<1>1. o \in Harts /\ lr_word[o] \in Words
  BY OtherHart DEF TypeOK
<1>2. Clears(a, n, lr_word[o])
  BY DEF PeerValid
<1>3. \A w \in Words : Clears(a, n, w) => Overlaps(a, n, w)
  BY SmpAssumption DEF Clears, Overlaps, WordOf, Addrs, Words, Sizes
<1>4. Overlaps(a, n, lr_word[o])
  BY <1>1, <1>2, <1>3
<1> DEFINE k == IF Splits(a, n, lr_word[o]) THEN "split" ELSE "whole"
<1>5. PeerSeen(h, a, n) = [peer EXCEPT ![o] = peer[o] \cup {k}]
  BY <1>4 DEF PeerSeen
<1>6. k \in PeerSeen(h, a, n)[o]
  BY <1>1, <1>5 DEF TypeOK
<1> QED BY <1>6

(* One step: the reservation of hart h goes only by its own SC or by an    *)
(* overlapping peer store.                                                 *)
LEMMA KeptStep ==
  ASSUME TypeOK, Next, NEW h \in Harts, lr_valid[h], ~lr_valid'[h]
  PROVE  Running = h \/ peer'[h] # {}
<1>1. CASE Memory
  <2> PICK g \in Harts :
             \/ \E a \in Addrs, n \in Sizes : Store(g, a, n)
             \/ \E w \in Words : LoadReserved(g, w) \/ StoreConditional(g, w)
    BY <1>1 DEF Memory
  <2>0. Running = g
    BY DEF Store, LoadReserved, StoreConditional
  <2> SUFFICES ASSUME h # g PROVE peer'[h] # {}
    BY <2>0
  <2>1. h = Other(g)
    BY DEF Harts, Other
  <2>2. ASSUME NEW a \in Addrs, NEW n \in Sizes, Store(g, a, n)
        PROVE  peer'[h] # {}
    BY <2>1, <2>2, ClearedIsOverlap DEF Store
  <2>3. ASSUME NEW w \in Words, LoadReserved(g, w)
        PROVE  FALSE
    BY <2>3 DEF LoadReserved, TypeOK
  <2>4. ASSUME NEW w \in Words, StoreConditional(g, w)
        PROVE  peer'[h] # {}
    <3>1. CASE ScSucceeds(g, w)
      <4>1. 4 * w \in Addrs /\ 4 \in Sizes
        BY SmpAssumption DEF Addrs, Words, Sizes
      <4>2. lr_valid' = [PeerValid(g, 4 * w, 4) EXCEPT ![g] = FALSE]
            /\ peer' = PeerSeen(g, 4 * w, 4)
        BY <2>4, <3>1 DEF StoreConditional
      <4>3. PeerValid(g, 4 * w, 4) \in [Harts -> BOOLEAN]
        BY StoreType
      <4>4. ~PeerValid(g, 4 * w, 4)[h]
        BY <4>2, <4>3
      <4> QED BY <2>1, <4>1, <4>2, <4>4, ClearedIsOverlap
    <3>2. CASE ~ScSucceeds(g, w)
      BY <2>4, <3>2 DEF StoreConditional, TypeOK
    <3> QED BY <3>1, <3>2
  <2> QED BY <2>2, <2>3, <2>4
<1>2. CASE StepBegin \/ StepEnd \/ HostHalt \/ Stopped
  BY <1>2 DEF StepBegin, StepEnd, HostHalt, Stopped, vars, lrVars
<1>3. CASE Target
  BY <1>3 DEF Target, TargetCreate, TargetBusy, TargetHalted, TargetPinned,
     TargetQuantum, lrVars
<1>4. CASE Poll
  BY <1>4 DEF Poll, PollQuiet, PollDeliver, IsrEnd, lrVars
<1>5. CASE Block
  BY <1>5 DEF Block, Dispatch, Untranslatable, EndBlock, Yield, BlockFails, lrVars
<1> QED BY <1>1, <1>2, <1>3, <1>4, <1>5 DEF Next

(* Reservations survive traps, hart switches, unwinds and every store that *)
(* does not overlap the reserved word: an SC cannot fail for another       *)
(* reason than a conflict.                                                 *)
THEOREM SmpReservationKept == Spec => ReservationKept
<1>1. TypeOK /\ [Next]_vars =>
        [\A h \in Harts : lr_valid[h] /\ ~lr_valid'[h] =>
            Running = h \/ peer'[h] # {}]_vars
  BY KeptStep
<1> QED BY <1>1, SmpTypeCorrect, PTL DEF Spec, ReservationKept

----------------------------------------------------------------------------
(* P4Chain implements P4Smp, so everything proved of the scheduler and the *)
(* reservations holds of it; and chaining never crosses harts.             *)

(* The types of the chaining variables.                                    *)
ChainTyped ==
  /\ TypeOK
  /\ prev \in {0, 1, None} /\ smp_prev \in [Harts -> {0, 1, None}]
  /\ taken \in {0, 1, Handler} /\ smp_taken \in [Harts -> {0, 1, Handler}]
  /\ smp_cur \in {0, 1, None}
  /\ trapped \in [Harts -> BOOLEAN] /\ cut \in [Harts -> BOOLEAN]
  /\ crossed \in [Harts -> {"none", "saved", "loaded"}]

(* Whose block prev is, in every phase: the globals belong to smp_cur, the *)
(* copies to their hart, and is_branch_taken goes with prev except for a   *)
(* hart that was left half-way through a block or whose last block was cut *)
(* short; a handler that found the hart's globals loaded left no prev.     *)
ChainInv ==
  /\ prev \in {None, smp_cur}
  /\ \A h \in Harts : smp_prev[h] \in {None, h}
  /\ smp_cur # None /\ phase # "resume" /\ prev = smp_cur /\ ~next_insn[smp_cur]
       => taken = smp_cur \/ cut[smp_cur]
  /\ \A h \in Harts : h # smp_cur /\ smp_prev[h] = h /\ ~next_insn[h]
       => smp_taken[h] = h \/ cut[h]
  /\ smp_cur # None /\ prev = smp_cur => crossed[smp_cur] # "loaded"
  /\ \A h \in Harts : h # smp_cur /\ smp_prev[h] = h => crossed[h] # "loaded"
  /\ phase \in {"exec", "resume"} => smp_cur = cur /\ ~next_insn[cur]

ChainIInv == ChainTyped /\ ChainInv

(* Every step of the chained interpreter is a step of the scheduler.       *)
LEMMA ChainStepIsStep == [ChainNext]_allVars => [Next]_vars
  BY DEF ChainNext, Unchained, Next, Poll, Block, allVars

(* P4Chain implements P4Smp.                                               *)
THEOREM ChainImplementsSmp == ChainSpec => Spec
<1>1. ChainInit => Init
  BY DEF ChainInit
<1> QED BY <1>1, ChainStepIsStep, PTL DEF ChainSpec, Spec

(* The chaining globals start empty.                                       *)
LEMMA ChainInitInv == ChainInit => ChainIInv
<1> SUFFICES ASSUME ChainInit PROVE ChainIInv
  OBVIOUS
<1>1. TypeOK
  BY InitInv DEF ChainInit, IInv
<1> QED BY <1>1 DEF ChainInit, ChainIInv, ChainTyped, ChainInv, Init, Harts,
     None, Handler

(* Steps that run no block and no handler keep the chaining state.         *)
LEMMA UnchainedInv ==
  ASSUME ChainIInv, TypeOK', Unchained, UNCHANGED <<chainVars, trapped, histVars>>
  PROVE  ChainIInv'
<1>1. ChainTyped'
  BY DEF ChainIInv, ChainTyped, chainVars, histVars
<1>2. next_insn' = next_insn
  BY DEF Unchained, StepBegin, StepEnd, Target, TargetCreate, TargetBusy,
     TargetHalted, TargetPinned, TargetQuantum, Memory, Store, LoadReserved,
     StoreConditional, HostHalt, Stopped, Untranslatable, PollQuiet,
     PollDeliver, vars
<1>3. /\ phase' \in {"exec", "resume"} => phase' = phase /\ cur' = cur
      /\ phase' # "resume" /\ phase = "resume" => FALSE
  BY DEF Unchained, StepBegin, StepEnd, Target, TargetCreate, TargetBusy,
     TargetHalted, TargetPinned, TargetQuantum, Memory, Store, LoadReserved,
     StoreConditional, HostHalt, Stopped, Untranslatable, PollQuiet,
     PollDeliver, vars, schedVars, AfterPoll, IsrPhase, PollPhase
<1>4. ChainInv'
  BY <1>2, <1>3 DEF ChainIInv, ChainInv, chainVars, histVars
<1> QED BY <1>1, <1>4 DEF ChainIInv

(* A handler resets prev before anything can be chained to it.             *)
LEMMA HandlerInv ==
  ASSUME ChainIInv, TypeOK', NEW h \in Harts, NEW n \in 1 .. MaxCost,
         NEW away \in BOOLEAN, NEW paused \in BOOLEAN,
         IsrEnd(h, n), HandlerEnds(h, away, paused)
  PROVE  ChainIInv'
<1>1. ChainTyped'
  BY DEF ChainIInv, ChainTyped, HandlerEnds, HandlerMayWrite, Crossed
<1>2. ChainInv'
  BY DEF ChainIInv, ChainTyped, ChainInv, HandlerEnds, IsrEnd, AfterPoll,
     Crossed, Harts, None
<1> QED BY <1>1, <1>2 DEF ChainIInv

(* The swap hands the globals from one hart to the other.                  *)
LEMMA SwapInv ==
  ASSUME ChainIInv, TypeOK', Dispatch, Swap, UNCHANGED <<trapped, histVars>>
  PROVE  ChainIInv'
<1>1. CASE smp_cur = cur
  <2>1. ChainTyped'
    BY <1>1 DEF ChainIInv, ChainTyped, Swap, chainVars, histVars
  <2>2. ChainInv'
    BY <1>1 DEF ChainIInv, ChainTyped, TypeOK, ChainInv, Swap, chainVars, histVars,
       Dispatch, schedVars, Harts, None
  <2> QED BY <2>1, <2>2 DEF ChainIInv
<1>2. CASE smp_cur # cur
  <2>0. cur \in Harts /\ cur' = cur /\ smp_cur' = cur
    BY <1>2 DEF ChainIInv, ChainTyped, TypeOK, Dispatch, schedVars, Swap
  <2>1. ChainTyped'
    BY <1>2, <2>0 DEF ChainIInv, ChainTyped, Swap, histVars, Harts, None
  <2>2. ChainInv'
    BY <1>2, <2>0 DEF ChainIInv, ChainTyped, TypeOK, ChainInv, Swap, Dispatch,
       histVars, Harts, None
  <2> QED BY <2>1, <2>2 DEF ChainIInv
<1> QED BY <1>1, <1>2

(* The end of a block makes it the running hart's prev.                    *)
LEMMA BlockEndInv ==
  ASSUME ChainIInv, TypeOK', NEW n \in 1 .. MaxCost,
         \/ EndBlock(n) /\ BlockEnds
         \/ Yield(n) /\ BlockYields
         \/ \E paused \in BOOLEAN :
               \/ EndBlock(n) /\ BlockEndsTrapped(paused)
               \/ EndBlock(n) /\ phase = "exec" /\ BlockTraps(paused)
               \/ BlockFails(n) /\ BlockTraps(paused)
  PROVE  ChainIInv'
<1>0. cur \in Harts /\ smp_cur = cur
  BY DEF ChainIInv, ChainTyped, TypeOK, ChainInv, EndBlock, Yield, BlockFails
<1>1. ChainTyped'
  <2>1. CASE EndBlock(n) /\ BlockEnds
    BY <1>0, <2>1 DEF ChainIInv, ChainTyped, BlockEnds, BlockBecomesPrev, Harts
  <2>2. CASE Yield(n) /\ BlockYields
    BY <1>0, <2>2 DEF ChainIInv, ChainTyped, BlockYields, BlockBecomesPrev, Harts
  <2>3. ASSUME NEW paused \in BOOLEAN, BlockEndsTrapped(paused)
        PROVE  ChainTyped'
    BY <1>0, <2>3 DEF ChainIInv, ChainTyped, BlockEndsTrapped, BlockBecomesPrev,
       Harts
  <2>4. ASSUME NEW paused \in BOOLEAN, BlockTraps(paused)
        PROVE  ChainTyped'
    BY <1>0, <2>4 DEF ChainIInv, ChainTyped, BlockTraps, HandlerMayWrite
  <2> QED BY <2>1, <2>2, <2>3, <2>4
<1> SUFFICES ChainInv'
  BY <1>1 DEF ChainIInv
<1>2. CASE EndBlock(n) /\ BlockEnds
  BY <1>0, <1>2 DEF ChainIInv, ChainTyped, ChainInv, EndBlock, BlockEnds,
     BlockBecomesPrev, Harts, None
<1>3. CASE Yield(n) /\ BlockYields
  BY <1>0, <1>3 DEF ChainIInv, ChainTyped, TypeOK, ChainInv, Yield, BlockYields,
     BlockBecomesPrev, Harts, None
<1>4. ASSUME NEW paused \in BOOLEAN, EndBlock(n), BlockEndsTrapped(paused)
      PROVE  ChainInv'
  BY <1>0, <1>4 DEF ChainIInv, ChainTyped, ChainInv, EndBlock, BlockEndsTrapped,
     BlockBecomesPrev, Harts, None
<1>5. ASSUME NEW paused \in BOOLEAN, EndBlock(n) \/ BlockFails(n),
             BlockTraps(paused)
      PROVE  ChainInv'
  BY <1>0, <1>5 DEF ChainIInv, ChainTyped, ChainInv, EndBlock, BlockFails,
     BlockTraps, Harts, None
<1> QED BY <1>2, <1>3, <1>4, <1>5

(* Every step preserves the chaining invariant.                            *)
LEMMA ChainNextInv == ChainIInv /\ TypeOK' /\ [ChainNext]_allVars => ChainIInv'
<1> SUFFICES ASSUME ChainIInv, TypeOK', [ChainNext]_allVars PROVE ChainIInv'
  OBVIOUS
<1>1. CASE Unchained /\ UNCHANGED <<chainVars, trapped, histVars>>
  BY <1>1, UnchainedInv
<1>2. CASE \E h \in Harts, n \in 1 .. MaxCost, away, paused \in BOOLEAN :
             IsrEnd(h, n) /\ HandlerEnds(h, away, paused)
  BY <1>2, HandlerInv
<1>3. CASE Dispatch /\ Swap /\ UNCHANGED <<trapped, histVars>>
  BY <1>3, SwapInv
<1>4. CASE \E n \in 1 .. MaxCost :
             \/ EndBlock(n) /\ BlockEnds
             \/ Yield(n) /\ BlockYields
             \/ \E paused \in BOOLEAN :
                   \/ EndBlock(n) /\ BlockEndsTrapped(paused)
                   \/ EndBlock(n) /\ phase = "exec" /\ BlockTraps(paused)
                   \/ BlockFails(n) /\ BlockTraps(paused)
  BY <1>4, BlockEndInv
<1>5. CASE UNCHANGED allVars
  BY <1>5 DEF ChainIInv, ChainTyped, ChainInv, allVars, chainVars, histVars,
     vars, schedVars
<1> QED BY <1>1, <1>2, <1>3, <1>4, <1>5 DEF ChainNext

LEMMA ChainInvariant == ChainSpec => []ChainIInv
<1>1. ChainSpec => []TypeOK
  BY ChainImplementsSmp, SmpTypeCorrect, PTL
<1> QED BY <1>1, ChainInitInv, ChainNextInv, PTL DEF ChainSpec

(* A block is only ever chained to a block of the same hart: with that     *)
(* block's own branch outcome, unless a paused handler cut it short, and   *)
(* across a trap of the hart only when the handler ran while the other     *)
(* hart's globals were loaded.                                             *)
THEOREM SmpChainOwn == ChainSpec => []ChainOwn
<1>1. ChainIInv => ChainOwn
  BY DEF ChainIInv, ChainTyped, TypeOK, ChainInv, ChainOwn, Harts, None
<1> QED BY <1>1, ChainInvariant, PTL
=============================================================================
