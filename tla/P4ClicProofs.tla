---------------------------- MODULE P4ClicProofs ----------------------------
(***************************************************************************)
(* Theorems about P4Clic: type correctness, that the loop over the IDs     *)
(* finds the best one, that nothing below the threshold the guest set last *)
(* is delivered, and that no crosscore request is lost as long as the      *)
(* harts keep off each other's lines, for any sets of lines, levels, calls. *)
(***************************************************************************)
EXTENDS P4Clic, NatRecursion

----------------------------------------------------------------------------
(* Type correctness.                                                       *)

(* The word a MAP register write stores (the & 0x1F of both MAP windows)   *)
(* is a line or unmapped, whatever value the guest writes.                 *)
LEMMA MapWordType == ASSUME NEW v \in Nat PROVE MapWord(v) \in 0 .. Unmapped
  BY DEF MapWord, Unmapped

(* A line passed to intr_matrix_set can be stored in a map.                *)
LEMMA LineIsWord == \A l \in Lines : l \in 0 .. Unmapped
<1>1. Lines \subseteq 0 .. 31
  BY ClicAssumption
<1> QED BY <1>1 DEF Unmapped

(* The startup state has its types.                                        *)
LEMMA ClicInitType == Init => ClicTypeOK
  BY ClicAssumption DEF Init, ClicTypeOK

(* Trap entry and mret keep the types.                                    *)
LEMMA TrapType == ClicTypeOK /\ Trap => ClicTypeOK'
<1> SUFFICES ASSUME ClicTypeOK, NEW h \in Harts,
                    Deliver(h) \/ Exception(h) \/ Mret(h)
             PROVE  ClicTypeOK'
  BY DEF Trap
<1> USE DEF ClicTypeOK, clicVars, threshVars, EnterTrap
<1>1. CASE Deliver(h) BY <1>1 DEF Deliver
<1>2. CASE Exception(h) BY <1>2 DEF Exception
<1>3. CASE Mret(h) BY <1>3 DEF Mret
<1> QED BY <1>1, <1>2, <1>3

(* Routing, priorities, enables and CLIC writes keep the types.           *)
LEMMA ConfigureType == ClicTypeOK /\ Configure => ClicTypeOK'
<1> SUFFICES ASSUME ClicTypeOK, Configure PROVE ClicTypeOK'
  OBVIOUS
<1> USE ClicAssumption DEF ClicTypeOK, threshVars, statusVars
<1>1. ASSUME NEW r \in RouteArgs, RouteSource(r[1], r[2], r[3]) PROVE ClicTypeOK'
  <2>1. r[1] \in Harts /\ r[2] \in Sources /\ r[3] \in Lines
    OBVIOUS
  <2>2. r[3] \in 0 .. Unmapped
    BY <2>1, LineIsWord
  <2> QED BY <1>1, <2>1, <2>2 DEF RouteSource, SetMap
<1>2. ASSUME NEW r \in MapArgs, WriteMap(r[1], r[2], r[3]) PROVE ClicTypeOK'
  <2>1. r[1] \in Harts /\ r[2] \in Sources /\ MapWord(r[3]) \in 0 .. Unmapped
    BY MapWordType
  <2> QED BY <1>2, <2>1 DEF WriteMap, SetMap
<1>3. ASSUME NEW r \in PrioArgs, SetPriority(r[1], r[2], r[3]) PROVE ClicTypeOK'
  <2>1. r[1] \in Harts /\ 16 + r[2] \in Ids /\ r[3] \in 0 .. MaxLevel
    BY DEF Ids, SwIds, ExternalIds
  <2> QED BY <1>3, <2>1 DEF SetPriority
<1>4. ASSUME NEW r \in MaskArgs, NEW en \in BOOLEAN, SetEnable(r[1], r[2], en)
      PROVE ClicTypeOK'
  <2>1. r[1] \in Harts /\ 16 + r[2] \in Ids
    BY DEF Ids, SwIds, ExternalIds
  <2> QED BY <1>4, <2>1 DEF SetEnable
<1>5. ASSUME NEW r \in RmwArgs, RmwConfig(r[1], r[2]) PROVE ClicTypeOK'
  <2>1. r[1] \in Harts /\ r[2] \in SwIds
    OBVIOUS
  <2> QED BY <1>5, <2>1 DEF RmwConfig, StoreIp
<1>6. ASSUME NEW r \in PendArgs, NEW ip \in BOOLEAN, WriteIp(r[1], r[2], ip)
      PROVE ClicTypeOK'
  <2>1. r[1] \in Harts /\ r[2] \in SwIds
    OBVIOUS
  <2> QED BY <1>6, <2>1 DEF WriteIp, StoreIp
<1> QED BY <1>1, <1>2, <1>3, <1>4, <1>5, <1>6 DEF Configure

(* Threshold and MIE writes keep the types.                               *)
LEMMA MaskType == ClicTypeOK /\ Mask => ClicTypeOK'
<1> SUFFICES ASSUME ClicTypeOK, Mask PROVE ClicTypeOK'
  OBVIOUS
<1> USE ClicAssumption DEF ClicTypeOK, clicVars
<1>1. ASSUME NEW r \in RomThresh, RomSetThreshold(r[1], r[2]) PROVE ClicTypeOK'
  <2>1. r[1] \in Harts /\ r[2] \in 0 .. MaxLevel
    OBVIOUS
  <2> QED BY <1>1, <2>1 DEF RomSetThreshold, statusVars
<1>2. ASSUME NEW r \in CsrThresh, CsrSetThreshold(r[1], r[2]) PROVE ClicTypeOK'
  <2>1. r[1] \in Harts /\ r[2] \in 0 .. MaxLevel
    OBVIOUS
  <2> QED BY <1>2, <2>1 DEF CsrSetThreshold, statusVars
<1>3. ASSUME NEW h \in Harts, NEW b \in BOOLEAN, WriteMie(h, b) PROVE ClicTypeOK'
  BY <1>3 DEF WriteMie, threshVars
<1>4. ASSUME NEW r \in MmioThresh, MmioSetThreshold(r[1], r[2]) PROVE ClicTypeOK'
  <2>1. r[1] \in Harts /\ r[2] \in 0 .. MaxLevel
    OBVIOUS
  <2> QED BY <1>4, <2>1 DEF MmioSetThreshold, statusVars
<1> QED BY <1>1, <1>2, <1>3, <1>4 DEF Mask

(* Raising and dropping sources keeps the types.                          *)
LEMMA RaiseType == ClicTypeOK /\ Raise => ClicTypeOK'
<1> SUFFICES ASSUME ClicTypeOK, Raise PROVE ClicTypeOK'
  OBVIOUS
<1> USE DEF ClicTypeOK, clicVars, threshVars, statusVars
<1>1. ASSUME NEW h \in Harts, RaiseIpi(h) \/ WithdrawIpi(h) PROVE ClicTypeOK'
  BY <1>1 DEF RaiseIpi, WithdrawIpi, Sources
<1>2. ASSUME NEW r \in ClintArgs, ClintChange(r[1], r[2]) PROVE ClicTypeOK'
  <2>1. r[1] \in Harts /\ r[2] \in ClintIds
    BY ClicAssumption
  <2> QED BY <1>2, <2>1 DEF ClintChange
<1>3. CASE DeviceRaise \/ DeviceClear
  BY <1>3 DEF DeviceRaise, DeviceClear, Sources
<1> QED BY <1>1, <1>2, <1>3 DEF Raise

(* Every step keeps the types.                                            *)
LEMMA ClicNextType == ClicTypeOK /\ [Next]_vars => ClicTypeOK'
<1>1. ASSUME ClicTypeOK, UNCHANGED vars PROVE ClicTypeOK'
  BY <1>1 DEF ClicTypeOK, vars, clicVars, threshVars, statusVars
<1> QED BY <1>1, TrapType, ConfigureType, MaskType, RaiseType DEF Next

(* Every register keeps its range: the MAP words, levels and thresholds    *)
(* that esp32p4.c stores through ROM calls, MAP and CLIC writes and CSRs.  *)
THEOREM ClicTypeCorrect == Spec => []ClicTypeOK
  BY ClicInitType, ClicNextType, PTL DEF Spec

----------------------------------------------------------------------------
(* The scan of check_interrupt.                                            *)

(* id beats the other IDs of S.                                            *)
WinsIn(h, S, id) ==
  /\ id \in S
  /\ \A j \in S \ {id} :
       \/ clic_ctl[h][j] < clic_ctl[h][id]
       \/ clic_ctl[h][j] = clic_ctl[h][id] /\ id < j

LEMMA EligibleIds ==
  ASSUME ClicTypeOK, NEW h \in Harts
  PROVE  \A id \in Eligible(h) : id \in 0 .. 63 /\ clic_ctl[h][id] \in Nat
<1>1. clic_ie[h] \subseteq Ids /\ clic_ctl[h] \in [Ids -> 0 .. MaxLevel]
  BY DEF ClicTypeOK
<1>2. Ids \subseteq 0 .. 63
  <2>1. Lines \subseteq 0 .. 31
    BY ClicAssumption
  <2>2. SoftIds \subseteq 0 .. 63
    <3>1. SoftIds \subseteq ((0 .. 15) \ ClintIds) \cup 48 .. 63
      BY ClicAssumption
    <3> QED BY <3>1
  <2>3. ExternalIds \subseteq 16 .. 47
    BY <2>1 DEF ExternalIds
  <2> QED BY <2>2, <2>3 DEF Ids, ClintIds, SwIds
<1>3. MaxLevel \in Nat
  BY ClicAssumption
<1>4. Eligible(h) \subseteq clic_ie[h]
  BY DEF Eligible
<1>5. ASSUME NEW id \in Eligible(h)
      PROVE  id \in 0 .. 63 /\ clic_ctl[h][id] \in Nat
  <2>1. id \in Ids
    BY <1>1, <1>4
  <2>2. clic_ctl[h][id] \in 0 .. MaxLevel
    BY <1>1, <2>1
  <2> QED BY <1>2, <1>3, <2>1, <2>2
<1> QED BY <1>5

(* Comparing one more ID with the best so far finds the best of all.       *)
LEMMA BetterWins ==
  ASSUME ClicTypeOK, NEW h \in Harts, NEW S \in SUBSET Eligible(h),
         NEW id \in Eligible(h), NEW w, WinsIn(h, S, w)
  PROVE  WinsIn(h, S \cup {id}, Better(h, id, w))
<1>1. /\ \A j \in S \cup {id} : j \in Nat /\ clic_ctl[h][j] \in Nat
      /\ w \in S /\ w # NoId
  BY EligibleIds DEF WinsIn, NoId
<1>2. CASE clic_ctl[h][id] > clic_ctl[h][w] \/ (clic_ctl[h][id] = clic_ctl[h][w] /\ id < w)
  <2>1. Better(h, id, w) = id
    BY <1>2 DEF Better
  <2>2. ASSUME NEW j \in (S \cup {id}) \ {id}
        PROVE  \/ clic_ctl[h][j] < clic_ctl[h][id]
               \/ clic_ctl[h][j] = clic_ctl[h][id] /\ id < j
    <3>1. CASE j = w
      BY <1>1, <1>2, <3>1
    <3>2. CASE j # w
      <4>1. \/ clic_ctl[h][j] < clic_ctl[h][w]
            \/ clic_ctl[h][j] = clic_ctl[h][w] /\ w < j
        BY <2>2, <3>2 DEF WinsIn
      <4> QED BY <1>1, <1>2, <2>2, <4>1
    <3> QED BY <3>1, <3>2
  <2> QED BY <2>1, <2>2 DEF WinsIn
<1>3. CASE ~(clic_ctl[h][id] > clic_ctl[h][w] \/ (clic_ctl[h][id] = clic_ctl[h][w] /\ id < w))
  <2>1. Better(h, id, w) = w
    BY <1>1, <1>3 DEF Better
  <2>2. ASSUME NEW j \in (S \cup {id}) \ {w}
        PROVE  \/ clic_ctl[h][j] < clic_ctl[h][w]
               \/ clic_ctl[h][j] = clic_ctl[h][w] /\ w < j
    <3>1. CASE j = id
      BY <1>1, <1>3, <2>2, <3>1
    <3>2. CASE j # id
      BY <2>2, <3>2 DEF WinsIn
    <3> QED BY <3>1, <3>2
  <2> QED BY <1>1, <2>1, <2>2 DEF WinsIn
<1> QED BY <1>2, <1>3

LEMMA OneWinner ==
  ASSUME ClicTypeOK, NEW h \in Harts, NEW S \in SUBSET Eligible(h),
         NEW v, NEW w, WinsIn(h, S, v), WinsIn(h, S, w)
  PROVE  v = w
<1> SUFFICES ASSUME v # w PROVE FALSE
  OBVIOUS
<1>1. /\ v \in Nat /\ w \in Nat /\ clic_ctl[h][v] \in Nat /\ clic_ctl[h][w] \in Nat
  BY EligibleIds DEF WinsIn
<1>2. \/ clic_ctl[h][v] < clic_ctl[h][w]
      \/ clic_ctl[h][v] = clic_ctl[h][w] /\ w < v
  BY DEF WinsIn
<1>3. \/ clic_ctl[h][w] < clic_ctl[h][v]
      \/ clic_ctl[h][w] = clic_ctl[h][v] /\ v < w
  BY DEF WinsIn
<1> QED BY <1>1, <1>2, <1>3

Tops(S, m) == m \in S /\ \A j \in S : j <= m

(* A set of eligible IDs has a last one, and a best one.                   *)
LEMMA HasBest ==
  ASSUME ClicTypeOK, NEW h \in Harts, NEW S \in SUBSET Eligible(h), S # {}
  PROVE  (\E m : Tops(S, m)) /\ (\E w : WinsIn(h, S, w))
<1> DEFINE Has(R) == R # {} => (\E m : Tops(R, m)) /\ (\E w : WinsIn(h, R, w))
           Good == {n \in Nat : \A R \in SUBSET Eligible(h) :
                                  R \subseteq 0 .. n - 1 => Has(R)}
<1>1. 0 \in Good
  OBVIOUS
<1>2. ASSUME NEW n \in Nat, n \in Good
      PROVE  n + 1 \in Good
  <2> SUFFICES ASSUME NEW R \in SUBSET Eligible(h), R \subseteq 0 .. (n + 1) - 1
               PROVE  Has(R)
    OBVIOUS
  <2>1. CASE n \notin R
    <3>1. R \subseteq 0 .. n - 1
      BY <2>1
    <3> QED BY <1>2, <3>1
  <2>2. CASE n \in R
    <3> DEFINE Q == R \ {n}
    <3>1. Q \in SUBSET Eligible(h) /\ Q \subseteq 0 .. n - 1 /\ R = Q \cup {n}
          /\ n \in Eligible(h)
      BY <2>2
    <3>2. Tops(R, n)
      BY <2>2 DEF Tops
    <3>3. \E w : WinsIn(h, R, w)
      <4>1. CASE Q = {}
        BY <3>1, <4>1 DEF WinsIn
      <4>2. CASE Q # {}
        <5>1. PICK w : WinsIn(h, Q, w)
          BY <1>2, <3>1, <4>2
        <5> HIDE DEF Q
        <5>2. WinsIn(h, Q \cup {n}, Better(h, n, w))
          BY <3>1, <5>1, BetterWins
        <5> QED BY <3>1, <5>2
      <4> QED BY <4>1, <4>2
    <3> QED BY <3>2, <3>3
  <2> QED BY <2>1, <2>2
<1> HIDE DEF Good
<1>3. 64 \in Good
  BY <1>1, <1>2, NatClosure
<1>4. S \subseteq 0 .. 64 - 1
  BY EligibleIds
<1> QED BY <1>3, <1>4 DEF Good

(* check_interrupt's loop ends with the best eligible ID, or none.         *)
LEMMA ScanIsBest ==
  ASSUME ClicTypeOK, NEW h \in Harts
  PROVE  IF Eligible(h) = {} THEN Scan(h) = NoId ELSE WinsIn(h, Eligible(h), Scan(h))
<1> DEFINE E == Eligible(h)
           last(S) == CHOOSE id \in S : \A j \in S : j <= id
           best[S \in SUBSET E] ==
             IF S = {} THEN NoId ELSE Better(h, last(S), best[S \ {last(S)}])
           won == [S \in SUBSET E |-> IF S = {} THEN NoId ELSE CHOOSE w : WinsIn(h, S, w)]
           Right(S, w) == IF S = {} THEN w = NoId ELSE WinsIn(h, S, w)
<1>1. Scan(h) = best[E]
  BY DEF Scan
<1>2. ASSUME NEW S \in SUBSET E, S # {}
      PROVE  Tops(S, last(S))
  <2>1. \E m \in S : \A j \in S : j <= m
    BY <1>2, HasBest DEF Tops
  <2> QED BY <2>1 DEF Tops
<1> HIDE DEF last
<1>3. ASSUME NEW S \in SUBSET E, S # {}, NEW w, Right(S \ {last(S)}, w)
      PROVE  WinsIn(h, S, Better(h, last(S), w))
  <2> DEFINE x == last(S)
             Q == S \ {x}
  <2>1. x \in S /\ Q \in SUBSET E /\ S = Q \cup {x} /\ x \in Eligible(h)
    BY <1>2, <1>3 DEF Tops
  <2> HIDE DEF x
  <2>2. CASE Q = {}
    <3>1. w = NoId
      BY <1>3, <2>2 DEF x
    <3>2. Better(h, x, w) = x
      BY <3>1 DEF Better
    <3> QED BY <2>1, <2>2, <3>2 DEF WinsIn, x
  <2>3. CASE Q # {}
    <3>1. WinsIn(h, Q, w)
      BY <1>3, <2>3 DEF x
    <3> HIDE DEF Q
    <3>2. WinsIn(h, Q \cup {x}, Better(h, x, w))
      BY <2>1, <3>1, BetterWins
    <3> QED BY <2>1, <3>2 DEF x
  <2> QED BY <2>2, <2>3
<1>4. ASSUME NEW S \in SUBSET E
      PROVE  Right(S, won[S])
  <2>1. S # {} => WinsIn(h, S, CHOOSE w : WinsIn(h, S, w))
    BY HasBest
  <2> QED BY <2>1
<1> DEFINE next == [S \in SUBSET E |->
                      IF S = {} THEN NoId ELSE Better(h, last(S), won[S \ {last(S)}])]
           V == {won[S] : S \in SUBSET E}
<1>0. won \in [SUBSET E -> V]
  OBVIOUS
<1> HIDE DEF won
<1>5. won = [S \in SUBSET E |->
               IF S = {} THEN NoId ELSE Better(h, last(S), won[S \ {last(S)}])]
  <2>1. ASSUME NEW S \in SUBSET E, S # {}
        PROVE  won[S] = Better(h, last(S), won[S \ {last(S)}])
    <3> DEFINE v == won[S]
               w == Better(h, last(S), won[S \ {last(S)}])
    <3>1. Right(S \ {last(S)}, won[S \ {last(S)}])
      BY <1>4
    <3>2. WinsIn(h, S, w)
      BY <1>3, <2>1, <3>1
    <3>3. WinsIn(h, S, v)
      BY <1>4, <2>1
    <3> HIDE DEF v, w
    <3>4. v = w
      BY <3>2, <3>3, OneWinner
    <3> QED BY <3>4 DEF v, w
  <2>2. ASSUME NEW S \in SUBSET E
        PROVE  won[S] = next[S]
    <3>1. CASE S = {}
      BY <1>4, <3>1
    <3>2. CASE S # {}
      BY <2>1, <3>2
    <3> QED BY <3>1, <3>2
  <2> HIDE DEF V
  <2>3. won = next
    BY <1>0, <2>2
  <2> QED BY <2>3
<1>6. best = [S \in SUBSET E |->
                IF S = {} THEN NoId ELSE Better(h, last(S), best[S \ {last(S)}])]
  BY <1>5, Zenon
<1> HIDE DEF best
<1> DEFINE Good == {n \in Nat : \A S \in SUBSET E : S \subseteq 0 .. n - 1 => Right(S, best[S])}
<1>7. 0 \in Good
  <2>1. best[{}] = NoId
    BY <1>6
  <2> QED BY <2>1
<1>8. ASSUME NEW n \in Nat, n \in Good
      PROVE  n + 1 \in Good
  <2> SUFFICES ASSUME NEW S \in SUBSET E, S \subseteq 0 .. (n + 1) - 1
               PROVE  Right(S, best[S])
    OBVIOUS
  <2>1. CASE S = {}
    BY <1>6, <2>1
  <2>2. CASE S # {}
    <3>1. best[S] = Better(h, last(S), best[S \ {last(S)}])
      BY <1>6, <2>2
    <3>2. S \ {last(S)} \subseteq 0 .. n - 1 /\ S \ {last(S)} \in SUBSET E
      <4>1. last(S) \in S /\ \A j \in S : j <= last(S)
        BY <1>2, <2>2 DEF Tops
      <4> DEFINE x == last(S)
      <4> HIDE DEF x
      <4>2. ASSUME NEW j \in S, j # x
            PROVE  j \in 0 .. n - 1
        <5>1. x \in S /\ j <= x
          BY <4>1, <4>2 DEF x
        <5>2. j \in Nat /\ x \in Nat /\ x <= n
          BY <4>2, <5>1
        <5> QED BY <4>2, <5>1, <5>2
      <4> QED BY <4>2 DEF x
    <3>3. Right(S \ {last(S)}, best[S \ {last(S)}])
      BY <1>8, <3>2
    <3> QED BY <1>3, <2>2, <3>1, <3>3
  <2> QED BY <2>1, <2>2
<1> HIDE DEF Good
<1>9. 64 \in Good
  BY <1>7, <1>8, NatClosure
<1>10. E \subseteq 0 .. 64 - 1
  BY EligibleIds
<1>11. Right(E, best[E])
  BY <1>9, <1>10 DEF Good
<1> QED BY <1>1, <1>11

(* The loop considers exactly the IDs that are asserted and not masked by  *)
(* either threshold.                                                       *)
LEMMA EligibleIsReady ==
  ASSUME ClicTypeOK, NEW h \in Harts
  PROVE  Eligible(h) = Ready(h)
<1>1. /\ clic_ie[h] \subseteq Ids /\ clic_ctl[h] \in [Ids -> 0 .. MaxLevel]
      /\ clint[h] \subseteq {3, 7} /\ clic_ip_sw[h] \subseteq SwIds
      /\ clic_thresh[h] \in 0 .. MaxLevel /\ csr_mintthresh[h] \in 0 .. MaxLevel
      /\ pending \subseteq Sources /\ intmap[h] \in [Sources -> 0 .. Unmapped]
  BY DEF ClicTypeOK, ClintIds
<1>2. MaxLevel \in Nat /\ Lines \subseteq 0 .. 31
  BY ClicAssumption
<1>3. ASSUME NEW id \in Ids, id \in clic_ie[h]
      PROVE  (clic_ctl[h][id] >= Threshold(h)) <=> Unmasked(h, id)
  <2>1. clic_ctl[h][id] \in 0 .. MaxLevel
    BY <1>1
  <2> QED BY <1>1, <1>2, <1>3, <2>1 DEF Threshold, Unmasked
<1>4. ASSUME NEW id \in Ids
      PROVE  id \in Pend(h) <=> Asserted(h, id)
  <2>1. /\ id \in Nat
        /\ id \in 16 .. 47 => id \in ExternalIds
        /\ id \in ExternalIds => id \in 16 .. 47
    BY <1>2, ClicAssumption DEF Ids, SwIds, ClintIds, ExternalIds
  <2>2. ASSUME NEW s \in pending
        PROVE  /\ (intmap[h][s] % 32) \in 0 .. 31
               /\ intmap[h][s] # Unmapped
                    => MaskedLine(intmap[h][s]) = (intmap[h][s] % 32)
    <3>1. intmap[h][s] \in 0 .. 160
      BY <1>1 DEF Unmapped
    <3> QED BY <3>1 DEF MaskedLine
  <2>3. id - 16 \in RaisedLines(h)
          <=> \/ id - 16 \in clint[h]
              \/ \E s \in pending : intmap[h][s] # Unmapped
                                    /\ id = 16 + (intmap[h][s] % 32)
    BY <2>1, <2>2 DEF RaisedLines
  <2>4. Asserted(h, id) <=> \/ id \in clint[h] \/ id \in clic_ip_sw[h]
                            \/ id - 16 \in RaisedLines(h)
    BY <2>3 DEF Asserted
  <2>5. id - 16 \in RaisedLines(h) => id \in 16 .. 47
    <3>1. ASSUME NEW s \in pending, id = 16 + (intmap[h][s] % 32)
          PROVE  id \in 16 .. 47
      BY <3>1, <2>1, <2>2
    <3>2. id - 16 \in clint[h] => id \in 16 .. 47
      BY <1>1, <2>1
    <3> QED BY <2>3, <3>1, <3>2
  <2> QED BY <2>1, <2>4, <2>5 DEF Pend
<1> QED BY <1>1, <1>3, <1>4 DEF Eligible, Ready, Unmasked

(* check_interrupt delivers an ID exactly when one is asserted and masked  *)
(* by neither threshold, and then the one of highest level, the lowest ID  *)
(* among equals, for every routing, level and threshold.                   *)
THEOREM ClicDeliversBest == Spec => []DeliversBest
<1>1. ASSUME ClicTypeOK
      PROVE  DeliversBest
  <2>1. ASSUME NEW h \in Harts
        PROVE  IF Ready(h) = {} THEN Scan(h) = NoId ELSE Wins(h, Scan(h))
    BY <1>1, ScanIsBest, EligibleIsReady DEF WinsIn, Wins
  <2> QED BY <2>1 DEF DeliversBest
<1> QED BY <1>1, ClicTypeCorrect, PTL

----------------------------------------------------------------------------
(* The threshold.                                                          *)

(* The threshold set last is in one of the registers, and in both after a  *)
(* ROM call.                                                               *)
ThreshInv ==
  \A h \in Harts :
    /\ asked[h] \in {clic_thresh[h], csr_mintthresh[h]}
    /\ h \in mirrored => clic_thresh[h] = asked[h] /\ csr_mintthresh[h] = asked[h]

(* Both thresholds start at 0.                                             *)
LEMMA ThreshInit == Init => ThreshInv
  BY DEF Init, ThreshInv

(* Threshold writes keep ThreshInv.                                        *)
LEMMA ThreshMask ==
  ASSUME ClicTypeOK, ThreshInv, Mask PROVE ThreshInv'
<1> USE ClicAssumption DEF ThreshInv, ClicTypeOK
<1>1. ASSUME NEW r \in RomThresh, RomSetThreshold(r[1], r[2]) PROVE ThreshInv'
  BY <1>1 DEF RomSetThreshold
<1>2. ASSUME NEW r \in CsrThresh, CsrSetThreshold(r[1], r[2]) PROVE ThreshInv'
  BY <1>2 DEF CsrSetThreshold
<1>3. ASSUME NEW r \in MmioThresh, MmioSetThreshold(r[1], r[2]) PROVE ThreshInv'
  BY <1>3 DEF MmioSetThreshold
<1>4. ASSUME NEW h \in Harts, NEW b \in BOOLEAN, WriteMie(h, b) PROVE ThreshInv'
  BY <1>4 DEF WriteMie, threshVars
<1> QED BY <1>1, <1>2, <1>3, <1>4 DEF Mask

(* Every step keeps ThreshInv.                                             *)
LEMMA ThreshNext ==
  ASSUME ClicTypeOK, ThreshInv, [Next]_vars PROVE ThreshInv'
<1>1. CASE Mask BY <1>1, ThreshMask
<1>2. CASE UNCHANGED threshVars BY <1>2 DEF threshVars, ThreshInv
<1>3. Trap \/ Configure \/ Raise \/ UNCHANGED vars => UNCHANGED threshVars
  BY DEF Trap, Configure, Raise, vars, Deliver, Exception, Mret, RouteSource,
         WriteMap, SetMap, SetPriority, SetEnable, RmwConfig, WriteIp, RaiseIpi,
         WithdrawIpi, ClintChange, DeviceRaise, DeviceClear
<1> QED BY <1>1, <1>2, <1>3 DEF Next

(* Nothing below the threshold the guest set last is delivered, through    *)
(* whichever register it was set and whatever the other one holds, and a   *)
(* threshold set by the ROM call is exactly the one in force.              *)
THEOREM ClicThresholdHolds == Spec => []ThresholdHolds
<1>1. Init => ClicTypeOK /\ ThreshInv
  BY ClicInitType, ThreshInit
<1>2. ClicTypeOK /\ ThreshInv /\ [Next]_vars => (ClicTypeOK /\ ThreshInv)'
  BY ClicNextType, ThreshNext
<1>3. ASSUME ClicTypeOK, ThreshInv, DeliversBest
      PROVE  ThresholdHolds
  <2> SUFFICES ASSUME NEW h \in Harts
               PROVE  /\ Scan(h) # NoId => clic_ctl[h][Scan(h)] >= asked[h]
                      /\ h \in mirrored => Threshold(h) = asked[h]
    BY DEF ThresholdHolds
  <2>1. Scan(h) # NoId => Unmasked(h, Scan(h))
    BY <1>3 DEF DeliversBest, Wins, Ready
  <2> QED BY <1>3, <2>1 DEF ThreshInv, Unmasked, Threshold
<1> QED BY <1>1, <1>2, <1>3, ClicDeliversBest, PTL DEF Spec

----------------------------------------------------------------------------
(* Crosscore requests.                                                     *)

(* A hart does not enable the ID that its map gives the other hart's       *)
(* crosscore source (the identity default if nobody routed it).            *)
CrosscoreApart ==
  \A h \in Harts : \A g \in Harts \ {h} :
    16 + MaskedLine(intmap[h][FromCpu(g)]) \notin clic_ie[h]

(* Delivery acknowledges only the own crosscore source.                   *)
LEMMA LostTrap ==
  ASSUME ClicTypeOK, CrosscoreApart, DeliversBest, NoLostIpi, Trap
  PROVE  NoLostIpi'
<1> USE DEF NoLostIpi, ClicTypeOK
<1>1. ASSUME NEW h \in Harts, Deliver(h) PROVE NoLostIpi'
  <2> DEFINE id == Scan(h)
  <2>1. id # NoId /\ pending' = pending \ Acks(h, id)
        /\ owed' = IF FromCpu(h) \in Acks(h, id) THEN owed \ {h} ELSE owed
    BY <1>1 DEF Deliver
  <2>2. id \in clic_ie[h]
    BY <2>1 DEF DeliversBest, Wins, Ready, Unmasked
  <2>3. \A g \in Harts \ {h} : FromCpu(g) \notin Acks(h, id)
    <3> SUFFICES ASSUME NEW g \in Harts \ {h}, FromCpu(g) \in Acks(h, id)
                 PROVE  FALSE
      OBVIOUS
    <3>1. id = 16 + MaskedLine(intmap[h][FromCpu(g)])
      BY DEF Acks, FromCpu, Harts
    <3> QED BY <3>1, <2>2 DEF CrosscoreApart
  <2> HIDE DEF id
  <2> QED BY <2>1, <2>3
<1>2. ASSUME NEW h \in Harts, Exception(h) \/ Mret(h) PROVE NoLostIpi'
  BY <1>2 DEF Exception, Mret
<1> QED BY <1>1, <1>2 DEF Trap

(* Raising and dropping sources loses no request.                         *)
LEMMA LostRaise ==
  ASSUME ClicTypeOK, NoLostIpi, Raise PROVE NoLostIpi'
<1>1. owed \subseteq Harts /\ \A h \in owed : FromCpu(h) \in pending
  BY DEF NoLostIpi, ClicTypeOK
<1>2. \A g, h \in Harts : FromCpu(g) = FromCpu(h) => g = h
  BY DEF FromCpu, Harts
<1>3. \A h \in Harts : FromCpu(h) # Device
  BY ClicAssumption DEF FromCpu, Harts
<1>4. ASSUME NEW h \in Harts, RaiseIpi(h) PROVE NoLostIpi'
  BY <1>1, <1>4 DEF RaiseIpi, NoLostIpi
<1>5. ASSUME NEW h \in Harts, WithdrawIpi(h) PROVE NoLostIpi'
  BY <1>1, <1>2, <1>5 DEF WithdrawIpi, NoLostIpi
<1>6. ASSUME NEW r \in ClintArgs, ClintChange(r[1], r[2]) PROVE NoLostIpi'
  BY <1>1, <1>6 DEF ClintChange, NoLostIpi
<1>7. CASE DeviceRaise
  BY <1>1, <1>7 DEF DeviceRaise, NoLostIpi
<1>8. CASE DeviceClear
  BY <1>1, <1>3, <1>8 DEF DeviceClear, NoLostIpi
<1> QED BY <1>4, <1>5, <1>6, <1>7, <1>8 DEF Raise

(* No step loses a request.                                               *)
LEMMA LostNext ==
  ASSUME ClicTypeOK, CrosscoreApart, DeliversBest, NoLostIpi, [Next]_vars
  PROVE  NoLostIpi'
<1>1. CASE Trap BY <1>1, LostTrap
<1>2. CASE Raise BY <1>2, LostRaise
<1>3. CASE UNCHANGED <<pending, owed>> BY <1>3 DEF NoLostIpi
<1>4. Configure \/ Mask \/ UNCHANGED vars => UNCHANGED <<pending, owed>>
  BY DEF Configure, Mask, vars, RouteSource, WriteMap, SetMap, SetPriority,
         SetEnable, RmwConfig, WriteIp, RomSetThreshold, CsrSetThreshold,
         MmioSetThreshold, WriteMie
<1> QED BY <1>1, <1>2, <1>3, <1>4 DEF Next

(* A crosscore request stays pending until its own hart is interrupted for *)
(* it or software withdraws it, as long as no hart enables the line its    *)
(* map gives the other's source.                                           *)
THEOREM ClicNoLostIpi ==
  Spec /\ []CrosscoreApart => []NoLostIpi
<1>1. Init => NoLostIpi
  BY DEF Init, NoLostIpi
<1>2. ClicTypeOK /\ CrosscoreApart /\ DeliversBest /\ NoLostIpi /\ [Next]_vars
        => NoLostIpi'
  BY LostNext
<1> QED BY <1>1, <1>2, ClicTypeCorrect, ClicDeliversBest, PTL DEF Spec
=============================================================================
