---------------------------- MODULE Tier2Proofs ----------------------------
(***************************************************************************)
(* Proofs about Tier2: blocks are accounted for whatever the flushes do;   *)
(* what compiled code jumps to is a live function of the right block when  *)
(* no flush overlaps a publication and the slot's sequence number does not *)
(* come round inside one read; and its own code is then what is mapped     *)
(* since the last fence, the code traced into it too where one page holds  *)
(* it all.                                                                 *)
(***************************************************************************)
EXTENDS Tier2, TLAPS

(* Hypotheses of the theorems.                                             *)
NoFlushRace == ~FlushRaces
SeqWide == 2 * MaxCompiles <= SeqMod

----------------------------------------------------------------------------
(* Types.                                                                  *)

Stores == {"load", "odd", "entry", "key", "even", "done"}
Code == SUBSET (Keys \X Nat)
BlockFields ==
  [key : Keys \cup {0}, version : Nat, invalidated : BOOLEAN, hot2 : BOOLEAN,
   compiled : BOOLEAN, is_compiling : BOOLEAN, should_free : BOOLEAN, func : Nat]
Engines == [key : Keys \cup {0}, code : Code, live : BOOLEAN]
Slots == [seq : 0 .. SeqMod - 1, key : Keys \cup {0}, entry : Nat]
Compilers ==
  [at : {"wait", "lookup", "compile", "publish"}, key : Keys \cup {0},
   blk : Blocks \cup {NoBlock}, code : Code, step : Stores, seq : 0 .. SeqMod - 1]
Mains ==
  [at : {"loop", "run", "key", "entry", "again", "flush"}, func : Nat,
   target : Keys \cup {0}, step : Stores, seq : 0 .. SeqMod - 1, pubs : Int,
   fenced : BOOLEAN]

TypeOK ==
  /\ version \in [Pages -> Nat] /\ floor \in [Pages -> Nat]
  /\ recent \subseteq Blocks /\ lost \subseteq Blocks
  /\ pool \subseteq Blocks
  /\ block \in [Blocks -> BlockFields]
  /\ cached \subseteq Blocks
  /\ chain \in [Blocks -> SUBSET Keys]
  /\ prev \in Blocks \cup {NoBlock}
  /\ wait_queue \in Seq(Keys)
  /\ t2c \in Compilers
  /\ engines \in Seq(Engines)
  /\ jit_cache \in Slots
  /\ inline_cache \in [Keys -> Nat]
  /\ main \in Mains

----------------------------------------------------------------------------
(* Where blocks are.                                                       *)
OwnedInv ==
  /\ pool \cap cached = {} /\ lost \cap (pool \cup cached) = {}
  /\ \A b \in cached : block[b].key \in Keys /\ ~block[b].should_free
  /\ \A b \in Blocks \ (pool \cup cached \cup lost) :
       t2c.at = "compile" /\ b = t2c.blk /\ block[b].should_free
  /\ \A b \in Blocks : block[b].is_compiling => t2c.at = "compile" /\ b = t2c.blk
  /\ t2c.at \in {"wait", "lookup"} => t2c.blk = NoBlock
  /\ t2c.at = "compile" =>
       t2c.blk \in Blocks \ (pool \cup lost) /\ block[t2c.blk].is_compiling
  /\ t2c.at = "publish" => t2c.blk \in cached
  /\ t2c.at = "lookup" => t2c.key \in Keys
  /\ prev # NoBlock => prev \in cached

(* The bound on compilations, and what has been published by then.         *)
CountInv ==
  /\ Requested <= MaxCompiles
  /\ \A b \in Blocks : block[b].hot2 => Published >= 1
  /\ main.at \in {"run", "key", "entry", "again"} => Published >= 1

----------------------------------------------------------------------------
(* Steps.                                                                  *)

(* A flush has loaded the sequence number.                                 *)
FlushSteps == main.at = "flush" => main.step \in {"odd", "entry", "key", "even"}

(* The steps of the main thread, with wider bounds.                        *)
MainSteps ==
  \/ \E k \in Keys, b \in Blocks, old \in SUBSET cached, interp \in BOOLEAN :
       Translate(k, b, old, interp)
  \/ \E k \in Keys, b \in Blocks : TranslateFails(k, b)
  \/ \E k \in Keys, asks, interp \in BOOLEAN : Interpret(k, asks, interp)
  \/ \E k \in Keys : RunTier2(k) \/ Jump(k)
  \/ Return \/ ReadKey \/ ReadEntry \/ ReadAgain
  \/ \E p \in Pages : SfencePage(p)
  \/ \E changed \in SUBSET Pages : FenceAll(changed)
  \/ FlushBegin \/ FlushStep

----------------------------------------------------------------------------
(* Functions.                                                              *)

(* f is a live function of key k.                                          *)
IsFunc(f, k) ==
  f \in 1 .. Len(engines) /\ engines[f].live /\ engines[f].key = k /\ k \in Keys

FuncInv ==
  /\ \A b \in cached : block[b].func # 0 => IsFunc(block[b].func, block[b].key)
  /\ \A a, b \in cached : block[a].func # 0 /\ block[a].func = block[b].func => a = b
  /\ t2c.at = "publish" =>
       block[t2c.blk].func # 0 /\ ~block[t2c.blk].invalidated

(* The slot is being written by the compiler thread, or by a flush.        *)
Writing == {"entry", "key", "even"}
Updating == t2c.at = "publish" /\ t2c.step \in Writing
Clearing == main.at = "flush" /\ main.step \in Writing

(* The writers' sequence numbers.                                          *)
SeqInv ==
  /\ main.at = "flush" => t2c.at # "publish"
  /\ t2c.at # "publish" => t2c.step = "load"
  /\ t2c.at = "publish" /\ t2c.step = "odd" => t2c.seq = jit_cache.seq
  /\ Updating => t2c.seq % 2 = 0 /\ jit_cache.seq = Plus(t2c.seq, 1)
  /\ main.at = "flush" /\ main.step = "odd" => main.seq = jit_cache.seq
  /\ Clearing => main.seq % 2 = 0 /\ jit_cache.seq = Plus(main.seq, 1)
  /\ ~Updating /\ ~Clearing => jit_cache.seq % 2 = 0

(* The slot's pair belongs together but between the two stores.            *)
HalfWritten == t2c.at = "publish" /\ t2c.step = "key"
PairInv ==
  /\ ~HalfWritten /\ jit_cache.entry # 0 => IsFunc(jit_cache.entry, jit_cache.key)
  /\ HalfWritten => jit_cache.entry = block[t2c.blk].func
  /\ main.at = "flush" /\ main.step \in {"key", "even"} => jit_cache.entry = 0
  /\ \A k \in Keys : inline_cache[k] # 0 => IsFunc(inline_cache[k], k)

(* A reader of the slot: how far the sequence number has moved since its   *)
(* load, and, while it has not, what it has read.                          *)
Reading == main.at \in {"key", "entry", "again"}
BaseSeq == IF Updating THEN t2c.seq ELSE jit_cache.seq
Ahead(seq, n) == {seq + 2 * n, seq + 2 * n - SeqMod}   \* after n updates
Untouched == Published = main.pubs /\ ~Updating
ReadInv ==
  /\ main.at = "run" => IsFunc(main.func, main.target)
  /\ Reading =>
       /\ main.target \in Keys
       /\ main.pubs \in 1 .. Published
       /\ main.seq % 2 = 0
       /\ BaseSeq \in Ahead(main.seq, Published - main.pubs)
       /\ Untouched /\ main.at \in {"entry", "again"} => jit_cache.key = main.target
       /\ Untouched /\ main.at = "again" => jit_cache.entry = main.func

Inv ==
  /\ TypeOK /\ OwnedInv /\ FlushSteps
  /\ CountInv /\ FuncInv /\ SeqInv /\ PairInv /\ ReadInv

----------------------------------------------------------------------------
(* Fresh code.                                                             *)

(* The code of a function of key k, when ver is mapped and low was mapped  *)
(* at the last fence of everything.                                        *)
FreshAt(ver, low, code, k) ==
  /\ <<k, ver[PageOf[k]]>> \in code
  /\ (\A c \in code : PageOf[c[1]] = PageOf[k]) => \A c \in code : c[2] = ver[PageOf[c[1]]]
  /\ \A c \in code : c[2] >= low[PageOf[c[1]]]
FreshFunc(ver, low, e) == FreshAt(ver, low, e.code, e.key)

(* Blocks, and links: inside a page they lead from valid blocks to valid   *)
(* ones, and from recent blocks to recent ones anywhere.                   *)
SameBlocks == \A a, b \in cached : block[a].key = block[b].key => a = b
ValidBlocks ==
  \A b \in cached : ~block[b].invalidated =>
    block[b].version = version[PageOf[block[b].key]] /\ b \in recent
RecentBlocks ==
  /\ \A p \in Pages : version[p] >= floor[p]
  /\ recent \subseteq cached
  /\ \A b \in recent : block[b].version >= floor[PageOf[block[b].key]]
Links ==
  \A b \in cached : \A k \in chain[b] : \A x \in cached : block[x].key = k =>
    /\ ~block[b].invalidated /\ PageOf[k] = PageOf[block[b].key] => ~block[x].invalidated
    /\ b \in recent => x \in recent
BlocksFresh == SameBlocks /\ ValidBlocks /\ RecentBlocks /\ Links

(* Functions being compiled, and functions that can be found.              *)
CompileFresh ==
  t2c.at = "compile" /\ ~Discards(t2c.blk) =>
    FreshAt(version, floor, t2c.code, block[t2c.blk].key)
FuncsFresh ==
  \A b \in cached : ~block[b].invalidated /\ block[b].func # 0 =>
    FreshFunc(version, floor, engines[block[b].func])
CachesFresh ==
  /\ jit_cache.entry # 0 => FreshFunc(version, floor, engines[jit_cache.entry])
  /\ \A k \in Keys : inline_cache[k] # 0 =>
       FreshFunc(version, floor, engines[inline_cache[k]])
  /\ main.at = "run" /\ ~main.fenced => FreshFunc(version, floor, engines[main.func])

FreshInv == BlocksFresh /\ CompileFresh /\ FuncsFresh /\ CachesFresh

----------------------------------------------------------------------------
(* Type correctness.                                                       *)

LEMMA PlusType == \A s, n \in Nat : Plus(s, n) \in 0 .. SeqMod - 1
  BY Tier2Assumption DEF Plus

LEMMA InitType == Init => TypeOK
<1> SUFFICES ASSUME Init PROVE TypeOK
  OBVIOUS
<1>1. 0 \in 0 .. SeqMod - 1
  BY Tier2Assumption
<1>2. block \in [Blocks -> BlockFields] /\ t2c \in Compilers /\ main \in Mains
  BY <1>1 DEF Init, BlockFields, Blank, Compilers, Mains, Idle, Looping, Stores, Code
<1>3. engines \in Seq(Engines) /\ wait_queue \in Seq(Keys)
  BY DEF Init
<1>4. jit_cache \in Slots
  BY <1>1 DEF Init, Slots
<1> QED BY <1>2, <1>3, <1>4 DEF Init, TypeOK

LEMMA FreshType ==
  ASSUME TypeOK, NEW k \in Keys
  PROVE  Fresh(k) \in BlockFields
  BY Tier2Assumption DEF TypeOK, Fresh, BlockFields

LEMMA BlankType == Blank \in BlockFields
  BY DEF Blank, BlockFields

LEMMA MainCases ==
  ASSUME TypeOK, Main
  PROVE  MainSteps
<1>1. pool \subseteq Blocks /\ FenceChanges \subseteq SUBSET Pages
  BY Tier2Assumption DEF TypeOK
<1>2. \A k : Replaced(k) \subseteq SUBSET cached
  BY DEF Replaced, CachedAt
<1>3. ASSUME NEW k \in Keys, NEW b \in pool, NEW old \in Replaced(k), NEW interp \in BOOLEAN,
             Translate(k, b, old, interp)
      PROVE  MainSteps
  <2>1. b \in Blocks /\ old \in SUBSET cached
    BY <1>1, <1>2
  <2> QED BY <1>3, <2>1 DEF MainSteps
<1>4. ASSUME NEW k \in Keys, NEW b \in pool, TranslateFails(k, b) PROVE MainSteps
  BY <1>1, <1>4 DEF MainSteps
<1>5. ASSUME NEW changed \in FenceChanges, FenceAll(changed) PROVE MainSteps
  BY <1>1, <1>5 DEF MainSteps
<1>6. CASE \E k \in Keys : \/ \E asks, interp \in BOOLEAN : Interpret(k, asks, interp)
                           \/ RunTier2(k) \/ Jump(k)
  BY <1>6 DEF MainSteps
<1>7. CASE \/ Return \/ ReadKey \/ ReadEntry \/ ReadAgain \/ FlushBegin \/ FlushStep
           \/ \E p \in Pages : SfencePage(p)
  BY <1>7 DEF MainSteps
<1> QED BY <1>3, <1>4, <1>5, <1>6, <1>7 DEF Main

(* Setting fields of a block.                                              *)
LEMMA SetType ==
  ASSUME NEW r \in BlockFields, NEW f \in Nat
  PROVE  /\ [r EXCEPT !.is_compiling = FALSE] \in BlockFields
         /\ [r EXCEPT !.is_compiling = FALSE, !.func = f] \in BlockFields
         /\ [r EXCEPT !.is_compiling = TRUE] \in BlockFields
         /\ [r EXCEPT !.hot2 = TRUE] \in BlockFields
  BY DEF BlockFields

LEMMA SlotType ==
  ASSUME TypeOK, NEW key \in Keys \cup {0}, NEW entry \in Nat
  PROVE  Slot(key, entry) \in Slots
<1>1. jit_cache.seq \in Nat
  BY Tier2Assumption DEF TypeOK, Slots
<1> QED BY <1>1, PlusType DEF Slot, Slots

LEMMA StoredType ==
  ASSUME TypeOK, NEW step \in Stores \ {"done"}, NEW seq \in Nat,
         NEW key \in Keys \cup {0}, NEW entry \in Nat
  PROVE  Stored(step, seq, key, entry) \in Slots
<1>1. Plus(seq, 1) \in 0 .. SeqMod - 1 /\ Plus(seq, 2) \in 0 .. SeqMod - 1
  BY PlusType
<1> QED BY <1>1 DEF Stored, Slots, Stores, TypeOK

LEMMA NextStoreType ==
  ASSUME NEW step \in Stores \ {"done"}
  PROVE  NextStore[step] \in Stores
  BY DEF NextStore, Stores

LEMMA DisposedType ==
  ASSUME TypeOK, NEW fs
  PROVE  Disposed(fs) \in Seq(Engines) /\ Len(Disposed(fs)) = Len(engines)
<1>1. Gone \in Engines
  BY DEF Gone, Engines, Code
<1>2. \A i \in 1 .. Len(engines) : engines[i] \in Engines
  BY DEF TypeOK
<1>3. Len(engines) \in Nat
  BY DEF TypeOK
<1> QED BY <1>1, <1>2, <1>3 DEF Disposed

LEMMA InlineType ==
  ASSUME TypeOK, NEW ks
  PROVE  InlineWithout(ks) \in [Keys -> Nat]
  BY DEF TypeOK, InlineWithout

LEMMA LinkedType ==
  ASSUME NEW links \in [Blocks -> SUBSET Keys], NEW p \in Blocks \cup {NoBlock},
         NEW k \in Keys
  PROVE  Linked(links, p, k) \in [Blocks -> SUBSET Keys]
  BY DEF Linked

LEMMA CallType ==
  ASSUME NEW f \in Nat, NEW k \in Keys \cup {0}, Call(f, k)
  PROVE  main' \in Mains
<1>1. 0 \in 0 .. SeqMod - 1
  BY Tier2Assumption
<1>2. main' = [at |-> "run", func |-> f, target |-> k, step |-> "load", seq |-> 0,
               pubs |-> 0, fenced |-> FALSE]
  BY DEF Call, Looping
<1> QED BY <1>1, <1>2 DEF Mains, Stores

(* The steps of the main thread that only look at the caches.              *)
LEMMA LookType ==
  ASSUME TypeOK, OwnedInv, FlushSteps
  PROVE  /\ Return => TypeOK'
         /\ \A k \in Keys : Jump(k) => TypeOK'
         /\ ReadKey => TypeOK'
         /\ ReadEntry => TypeOK'
         /\ ReadAgain => TypeOK'
         /\ FlushBegin => TypeOK'
         /\ FlushStep => TypeOK'
         /\ \A k \in Keys : RunTier2(k) => TypeOK'
<1> USE DEF blockVars, fenceVars
<1>0. 0 \in 0 .. SeqMod - 1 /\ Looping \in Mains
  BY Tier2Assumption DEF Looping, Mains, Stores
<1>02. jit_cache.seq \in 0 .. SeqMod - 1 /\ jit_cache.entry \in Nat
       /\ main.func \in Nat /\ main.target \in Keys \cup {0} /\ main.seq \in Nat
       /\ main.step \in Stores
  BY Tier2Assumption DEF TypeOK, Slots, Mains
<1>01. Published \in Int
  BY DEF Published, TypeOK
<1>1. ASSUME Return PROVE TypeOK'
  BY <1>0, <1>1 DEF Return, TypeOK
<1>2. ASSUME NEW k \in Keys, Jump(k) PROVE TypeOK'
  <2>1. CASE inline_cache[k] # 0
    <3>1. inline_cache[k] \in Nat /\ Call(inline_cache[k], k)
      BY <1>2, <2>1 DEF Jump, TypeOK
    <3>2. main' \in Mains
      BY <3>1, CallType
    <3> QED BY <1>2, <3>2 DEF Jump, TypeOK
  <2>2. CASE inline_cache[k] = 0
    <3>1. main' \in {Looping, [at |-> "key", func |-> 0, target |-> k,
                               step |-> "load", seq |-> jit_cache.seq,
                               pubs |-> Published, fenced |-> FALSE]}
      BY <1>2, <2>2 DEF Jump, Looping
    <3>2. [at |-> "key", func |-> 0, target |-> k, step |-> "load", seq |-> jit_cache.seq,
           pubs |-> Published, fenced |-> FALSE] \in Mains
      BY <1>01, <1>02 DEF Mains, Stores
    <3>3. main' \in Mains
      BY <1>0, <3>1, <3>2
    <3> QED BY <1>2, <3>3 DEF Jump, TypeOK
  <2> QED BY <2>1, <2>2
<1>3. ASSUME ReadKey PROVE TypeOK'
  <2>1. main' \in Mains
    BY <1>0, <1>3 DEF ReadKey, Mains, TypeOK
  <2> QED BY <1>3, <2>1 DEF ReadKey, TypeOK
<1>4. ASSUME ReadEntry PROVE TypeOK'
  <2>1. main' \in Mains
    BY <1>02, <1>4 DEF ReadEntry, Mains, TypeOK
  <2> QED BY <1>4, <2>1 DEF ReadEntry, TypeOK
<1>5. ASSUME ReadAgain PROVE TypeOK'
  <2>1. main' \in Mains
    BY <1>0, <1>02, <1>5, CallType DEF ReadAgain
  <2>2. inline_cache' \in [Keys -> Nat]
    BY <1>02, <1>5 DEF ReadAgain, TypeOK
  <2> QED BY <1>5, <2>1, <2>2 DEF ReadAgain, TypeOK
<1>6. ASSUME FlushBegin PROVE TypeOK'
  <2>1. main' = [at |-> "flush", func |-> 0, target |-> 0, step |-> "odd",
                 seq |-> jit_cache.seq, pubs |-> 0, fenced |-> FALSE]
    BY <1>6 DEF FlushBegin, Looping, Stepped, NextStore
  <2>2. main' \in Mains
    BY <1>02, <2>1 DEF Mains, Stores
  <2> QED BY <1>6, <2>2 DEF FlushBegin, TypeOK
<1>7. ASSUME FlushStep PROVE TypeOK'
  <2>1. jit_cache' \in Slots
    BY <1>7, <1>02, StoredType DEF FlushStep, FlushSteps, Stores
  <2>2. CASE main.step = "even"
    BY <1>0, <1>7, <2>1, <2>2, InlineType DEF FlushStep, TypeOK
  <2>3. CASE main.step # "even"
    <3>0. /\ main.step \in Stores \ {"done", "load"} /\ main' = Stepped(main)
          /\ NextStore[main.step] \in Stores
      BY <1>7, <1>02, <2>3, NextStoreType DEF FlushStep, FlushSteps, Stores
    <3>1. main' \in Mains
      <4>1. main' = [main EXCEPT !.step = NextStore[main.step], !.seq = main.seq]
        BY <3>0 DEF Stepped, TypeOK, Mains
      <4> QED BY <3>0, <4>1 DEF TypeOK, Mains
    <3> QED BY <1>7, <2>1, <2>3, <3>1 DEF FlushStep, TypeOK
  <2> QED BY <2>2, <2>3
<1>8. ASSUME NEW k \in Keys, RunTier2(k) PROVE TypeOK'
  <2>1. main' \in Mains
    <3>1. PICK b \in Found(k) : Call(block[b].func, k)
      BY <1>8 DEF RunTier2
    <3>2. block[b].func \in Nat
      BY DEF TypeOK, Found, CachedAt, BlockFields
    <3> QED BY <3>1, <3>2, CallType
  <2>2. chain' \in [Blocks -> SUBSET Keys]
    BY <1>8, LinkedType DEF RunTier2, TypeOK
  <2> QED BY <1>8, <2>1, <2>2 DEF RunTier2, TypeOK
<1> QED BY <1>1, <1>2, <1>3, <1>4, <1>5, <1>6, <1>7, <1>8

LEMMA TranslateType ==
  ASSUME TypeOK, OwnedInv, NEW k \in Keys, NEW b \in Blocks, NEW old \in SUBSET cached,
         NEW interp \in BOOLEAN, Translate(k, b, old, interp)
  PROVE  TypeOK'
<1> DEFINE gone == {block[o].key : o \in old}
           freed == {o \in old : FreesAtOnce(o)}
           kept == IF prev \in old THEN NoBlock ELSE prev
           links == [x \in Blocks |-> IF x \in freed \cup {b} THEN {} ELSE chain[x] \ gone]
<1>0. old \subseteq Blocks /\ gone \subseteq Keys
  BY DEF TypeOK, OwnedInv
<1>1. block' \in [Blocks -> BlockFields]
  <2>1. Fresh(k) \in BlockFields /\ Blank \in BlockFields
    BY FreshType, BlankType
  <2>2. \A x \in Blocks : [block[x] EXCEPT !.should_free = TRUE] \in BlockFields
    BY DEF TypeOK, BlockFields
  <2>3. block' = [x \in Blocks |->
            IF x = b THEN Fresh(k)
            ELSE IF x \in freed THEN Blank
            ELSE IF x \in old THEN [block[x] EXCEPT !.should_free = TRUE]
            ELSE block[x]]
    BY DEF Translate
  <2> QED BY <2>1, <2>2, <2>3 DEF TypeOK
<1>2. links \in [Blocks -> SUBSET Keys] /\ kept \in Blocks \cup {NoBlock}
  BY DEF TypeOK
<1>3. chain' = Linked(links, kept, k)
  BY DEF Translate
<1>4. chain' \in [Blocks -> SUBSET Keys]
  BY <1>2, <1>3, LinkedType
<1>5. jit_cache' \in Slots
  <2>1. \/ jit_cache' = jit_cache
        \/ old # {} /\ jit_cache' = Slot(CHOOSE g \in gone : TRUE, 0)
    BY DEF Translate
  <2>2. old # {} => (CHOOSE g \in gone : TRUE) \in gone
    OBVIOUS
  <2> QED BY <1>0, <2>1, <2>2, SlotType DEF TypeOK
<1>6. inline_cache' \in [Keys -> Nat]
  BY InlineType DEF Translate
<1>7. engines' \in Seq(Engines)
  BY DisposedType DEF Translate
<1>8. /\ pool' \subseteq Blocks /\ cached' \subseteq Blocks
      /\ prev' \in Blocks \cup {NoBlock} /\ recent' \subseteq Blocks
      /\ UNCHANGED <<version, floor, lost, wait_queue, t2c, main>>
  BY <1>0 DEF Translate, TypeOK, Linkable
<1> QED BY <1>1, <1>4, <1>5, <1>6, <1>7, <1>8 DEF TypeOK

LEMMA TranslateFailsType ==
  ASSUME TypeOK, NEW k \in Keys, NEW b \in Blocks, TranslateFails(k, b)
  PROVE  TypeOK'
  BY DEF TypeOK, TranslateFails, fenceVars

LEMMA InterpretType ==
  ASSUME TypeOK, NEW k \in Keys, NEW asks \in BOOLEAN, NEW interp \in BOOLEAN,
         Interpret(k, asks, interp)
  PROVE  TypeOK'
<1>1. chain' \in [Blocks -> SUBSET Keys]
  BY LinkedType DEF Interpret, TypeOK
<1>2. PICK b \in Found(k) :
        /\ block' = IF asks THEN [block EXCEPT ![b].compiled = TRUE] ELSE block
        /\ wait_queue' = IF asks THEN Append(wait_queue, k) ELSE wait_queue
        /\ prev' = NoBlock \/ prev' \in Traced(b)
  BY DEF Interpret, Linkable
<1>3. b \in Blocks /\ Traced(b) \subseteq Blocks
  BY DEF Found, CachedAt, TypeOK, Traced
<1>4. block' \in [Blocks -> BlockFields]
  BY <1>2, <1>3 DEF TypeOK, BlockFields
<1>5. wait_queue' \in Seq(Keys)
  BY <1>2 DEF TypeOK
<1> QED BY <1>1, <1>2, <1>3, <1>4, <1>5 DEF Interpret, TypeOK, fenceVars

LEMMA FenceType ==
  ASSUME TypeOK
  PROVE  /\ \A p \in Pages : SfencePage(p) => TypeOK'
         /\ \A changed \in SUBSET Pages : FenceAll(changed) => TypeOK'
<1>1. \A b \in Blocks :
        [block[b] EXCEPT !.invalidated = TRUE, !.hot2 = FALSE] \in BlockFields
  BY DEF TypeOK, BlockFields
<1>2. Slot(0, 0) \in Slots
  BY SlotType
<1>3. \A ks : InlineWithout(ks) \in [Keys -> Nat]
  BY InlineType
<1>6. ASSUME main' = Fenced PROVE main' \in Mains
  BY <1>6 DEF Fenced, Mains, TypeOK
<1>4. ASSUME NEW p \in Pages, SfencePage(p) PROVE TypeOK'
  <2>1. block' \in [Blocks -> BlockFields]
    BY <1>1, <1>4 DEF SfencePage, TypeOK
  <2>2. version' \in [Pages -> Nat]
    <3>1. version' = [version EXCEPT ![p] = @ + 1] /\ version \in [Pages -> Nat]
      BY <1>4 DEF SfencePage, TypeOK
    <3> QED BY <3>1
  <2> QED BY <1>2, <1>3, <1>4, <1>6, <2>1, <2>2 DEF SfencePage, TypeOK
<1>5. ASSUME NEW changed \in SUBSET Pages, FenceAll(changed) PROVE TypeOK'
  <2>1. block' \in [Blocks -> BlockFields]
    BY <1>1, <1>5 DEF FenceAll, TypeOK
  <2>2. version' \in [Pages -> Nat]
    <3>1. /\ version \in [Pages -> Nat]
          /\ version' = [q \in Pages |-> IF q \in changed THEN version[q] + 1
                                                      ELSE version[q]]
      BY <1>5 DEF FenceAll, TypeOK
    <3> QED BY <3>1
  <2> QED BY <1>2, <1>3, <1>5, <1>6, <2>1, <2>2 DEF FenceAll, TypeOK
<1> QED BY <1>4, <1>5

LEMMA CompilerType ==
  ASSUME TypeOK, OwnedInv, Compiler
  PROVE  TypeOK'
<1>0. Idle \in Compilers
  BY Tier2Assumption DEF Idle, Compilers, Stores, Code
<1>1. ASSUME Dequeue PROVE TypeOK'
  <2>1. Head(wait_queue) \in Keys /\ Tail(wait_queue) \in Seq(Keys)
    BY <1>1 DEF Dequeue, TypeOK
  <2>2. t2c' = [at |-> "lookup", key |-> Head(wait_queue), blk |-> NoBlock,
                code |-> {}, step |-> "load", seq |-> 0]
    BY <1>1 DEF Dequeue, Idle
  <2>3. t2c' \in Compilers
    BY <2>1, <2>2, Tier2Assumption DEF Compilers, Stores, Code
  <2> QED BY <1>1, <2>1, <2>3 DEF Dequeue, TypeOK, blockVars, fenceVars
<1>2. ASSUME CompileBegin PROVE TypeOK'
  <2>1. CASE t2c' = Idle /\ UNCHANGED block
    BY <1>0, <1>2, <2>1 DEF CompileBegin, TypeOK, fenceVars
  <2>2. ASSUME NEW b \in CachedAt(t2c.key),
               block' = [block EXCEPT ![b].is_compiling = TRUE],
               t2c' = [t2c EXCEPT !.at = "compile", !.blk = b,
                  !.code = {<<block[x].key, block[x].version>> : x \in Traced(b)}]
        PROVE  TypeOK'
    <3> DEFINE code == {<<block[x].key, block[x].version>> : x \in Traced(b)}
    <3>1. b \in Blocks /\ Traced(b) \subseteq cached
      BY DEF CachedAt, TypeOK, Traced
    <3>2. code \in Code
      BY <3>1 DEF Code, OwnedInv, TypeOK, BlockFields
    <3>3. t2c' \in Compilers
      BY <2>2, <3>1, <3>2 DEF Compilers, TypeOK
    <3>4. block' \in [Blocks -> BlockFields]
      BY <2>2, <3>1 DEF TypeOK, BlockFields
    <3> QED BY <1>2, <3>3, <3>4 DEF CompileBegin, TypeOK, fenceVars
  <2> QED BY <1>2, <2>1, <2>2 DEF CompileBegin
<1>3. ASSUME CompileDiscard PROVE TypeOK'
  <2>1. t2c.blk \in Blocks
    BY <1>3 DEF CompileDiscard, OwnedInv
  <2>2. block' \in [Blocks -> BlockFields]
    <3>1. [block[t2c.blk] EXCEPT !.is_compiling = FALSE] \in BlockFields
      BY <2>1, SetType DEF TypeOK
    <3>2. block \in [Blocks -> BlockFields]
      BY DEF TypeOK
    <3>3. \/ block' = [block EXCEPT ![t2c.blk] = Blank]
          \/ block' = [block EXCEPT ![t2c.blk] = [block[t2c.blk] EXCEPT !.is_compiling = FALSE]]
      BY <1>3 DEF CompileDiscard
    <3> QED BY <2>1, <3>1, <3>2, <3>3, BlankType
  <2> QED BY <1>0, <1>3, <2>1, <2>2 DEF CompileDiscard, TypeOK, fenceVars
<1>4. ASSUME CompileFails PROVE TypeOK'
  <2>1. block' \in [Blocks -> BlockFields]
    BY <1>4 DEF CompileFails, TypeOK, BlockFields
  <2> QED BY <1>0, <1>4, <2>1 DEF CompileFails, TypeOK, fenceVars
<1>5. ASSUME CompileEnd PROVE TypeOK'
  <2>1. t2c.blk \in Blocks /\ block[t2c.blk].key \in Keys \cup {0} /\ t2c.code \in Code
    BY <1>5 DEF CompileEnd, OwnedInv, TypeOK, BlockFields, Compilers
  <2>2. [key |-> block[t2c.blk].key, code |-> t2c.code, live |-> TRUE] \in Engines
    BY <2>1 DEF Engines
  <2>3. engines' \in Seq(Engines) /\ Len(engines) \in Nat
    BY <1>5, <2>2 DEF CompileEnd, TypeOK, fenceVars
  <2>4. block' \in [Blocks -> BlockFields]
    <3>1. [block[t2c.blk] EXCEPT !.is_compiling = FALSE, !.func = Len(engines) + 1]
            \in BlockFields
      <4>1. Len(engines) + 1 \in Nat /\ block[t2c.blk] \in BlockFields
        BY <2>1, <2>3 DEF TypeOK
      <4> QED BY <4>1, SetType
    <3>2. block \in [Blocks -> BlockFields]
      BY DEF TypeOK
    <3>3. block' = [block EXCEPT ![t2c.blk] =
                      [block[t2c.blk] EXCEPT !.is_compiling = FALSE, !.func = Len(engines) + 1]]
      BY <1>5, <2>1, <3>2 DEF CompileEnd
    <3> QED BY <2>1, <3>1, <3>2, <3>3
  <2>5. t2c' \in Compilers
    BY <1>5 DEF CompileEnd, TypeOK, Compilers, Code
  <2> QED BY <1>5, <2>3, <2>4, <2>5 DEF CompileEnd, TypeOK, fenceVars
<1>6. ASSUME Publish PROVE TypeOK'
  <2>1. t2c.blk \in Blocks /\ block[t2c.blk] \in BlockFields
    BY <1>6 DEF Publish, OwnedInv, TypeOK
  <2>2. CASE t2c.step = "done"
    <3>1. block' \in [Blocks -> BlockFields]
      <4>1. [block[t2c.blk] EXCEPT !.hot2 = TRUE] \in BlockFields
        BY <2>1 DEF BlockFields
      <4>2. block \in [Blocks -> BlockFields]
        BY DEF TypeOK
      <4>3. block' = [block EXCEPT ![t2c.blk] = [block[t2c.blk] EXCEPT !.hot2 = TRUE]]
        BY <1>6, <2>2 DEF Publish
      <4> QED BY <2>1, <4>1, <4>2, <4>3
    <3> QED BY <1>0, <1>6, <2>2, <3>1 DEF Publish, TypeOK, fenceVars
  <2>3. CASE t2c.step # "done"
    <3>1. t2c.step \in Stores \ {"done"} /\ t2c.seq \in Nat /\ jit_cache.seq \in 0 .. SeqMod - 1
          /\ block[t2c.blk].key \in Keys \cup {0} /\ block[t2c.blk].func \in Nat
      BY <2>1, <2>3, Tier2Assumption DEF TypeOK, Compilers, Slots, BlockFields
    <3>2. jit_cache' \in Slots
      BY <1>6, <2>3, <3>1, StoredType DEF Publish
    <3>3. t2c' \in Compilers
      BY <1>6, <2>3, <3>1, NextStoreType DEF Publish, Stepped, TypeOK, Compilers
    <3> QED BY <1>6, <2>3, <3>2, <3>3 DEF Publish, TypeOK, fenceVars
  <2> QED BY <2>2, <2>3
<1> QED BY <1>1, <1>2, <1>3, <1>4, <1>5, <1>6 DEF Compiler

LEMMA StepType ==
  ASSUME TypeOK, OwnedInv, FlushSteps, [Next]_vars
  PROVE  TypeOK'
<1>1. CASE Compiler
  BY <1>1, CompilerType
<1>2. CASE Main
  <2>1. ASSUME NEW k \in Keys, NEW b \in Blocks, NEW old \in SUBSET cached,
               NEW interp \in BOOLEAN, Translate(k, b, old, interp)
        PROVE  TypeOK'
    BY <2>1, TranslateType
  <2>2. ASSUME NEW k \in Keys, NEW asks \in BOOLEAN, NEW interp \in BOOLEAN,
               Interpret(k, asks, interp)
        PROVE  TypeOK'
    BY <2>2, InterpretType
  <2>3. CASE \E k \in Keys : RunTier2(k) \/ Jump(k)
    BY <2>3, LookType
  <2>4. CASE \/ Return \/ ReadKey \/ ReadEntry \/ ReadAgain \/ FlushBegin \/ FlushStep
    BY <2>4, LookType
  <2>5. CASE \/ \E p \in Pages : SfencePage(p)
            \/ \E changed \in SUBSET Pages : FenceAll(changed)
    BY <2>5, FenceType
  <2>6. ASSUME NEW k \in Keys, NEW b \in Blocks, TranslateFails(k, b) PROVE TypeOK'
    BY <2>6, TranslateFailsType
  <2>7. MainSteps
    BY <1>2, MainCases
  <2> QED BY <2>1, <2>2, <2>3, <2>4, <2>5, <2>6, <2>7 DEF MainSteps
<1>3. CASE UNCHANGED vars
  BY <1>3 DEF vars, blockVars, fenceVars, TypeOK
<1> QED BY <1>1, <1>2, <1>3 DEF Next

LEMMA StepFlush ==
  ASSUME TypeOK, FlushSteps, [Next]_vars
  PROVE  FlushSteps'
<1>0. main \in Mains
  BY DEF TypeOK
<1>1. CASE main' = main
  BY <1>1 DEF FlushSteps
<1>2. CASE main'.at # "flush"
  BY <1>2 DEF FlushSteps
<1>3. CASE FlushBegin
  BY <1>3 DEF FlushBegin, FlushSteps, Stepped, Looping, NextStore
<1>4. CASE FlushStep
  <2>1. CASE main.step = "even"
    BY <1>4, <2>1 DEF FlushStep, FlushSteps, Looping
  <2>2. CASE main.step # "even"
    <3>1. main.step \in {"odd", "entry", "key"} /\ main' = Stepped(main)
      BY <1>4, <2>2 DEF FlushStep, FlushSteps
    <3>2. main'.step = NextStore[main.step]
      BY <1>0, <3>1 DEF Stepped, Mains
    <3> QED BY <3>1, <3>2 DEF FlushSteps, NextStore
  <2> QED BY <2>1, <2>2
<1>5. CASE \/ \E p \in Pages : SfencePage(p)
           \/ \E changed \in SUBSET Pages : FenceAll(changed)
  <2>1. main' = Fenced /\ main.at # "flush"
    BY <1>5 DEF SfencePage, FenceAll, MayFence
  <2> QED BY <1>0, <1>2, <2>1 DEF Fenced, Mains
<1>6. ASSUME NEW k \in Keys, RunTier2(k) \/ Jump(k) PROVE FlushSteps'
  <2>0. \A f, j : Call(f, j) => main'.at = "run"
    BY DEF Call, Looping
  <2>1. CASE RunTier2(k)
    BY <1>2, <2>0, <2>1 DEF RunTier2
  <2>2. CASE Jump(k)
    <3>1. \/ Call(inline_cache[k], k) \/ main' = Looping
          \/ main' = [Looping EXCEPT !.at = "key", !.target = k, !.seq = jit_cache.seq,
                                     !.pubs = Published]
      BY <2>2 DEF Jump
    <3>2. CASE Call(inline_cache[k], k)
      BY <1>2, <2>0, <3>2
    <3>3. CASE main' = Looping
      BY <1>2, <3>3 DEF Looping
    <3>4. CASE main' = [Looping EXCEPT !.at = "key", !.target = k, !.seq = jit_cache.seq,
                                       !.pubs = Published]
      BY <1>2, <3>4 DEF Looping
    <3> QED BY <3>1, <3>2, <3>3, <3>4
  <2> QED BY <1>6, <2>1, <2>2
<1>7. CASE Return \/ ReadKey \/ ReadEntry \/ ReadAgain
  <2>0. Looping.at = "loop" /\ \A f, j : Call(f, j) => main'.at = "run"
    BY DEF Call, Looping
  <2>1. CASE Return \/ ReadAgain
    BY <1>2, <2>0, <2>1 DEF Return, ReadAgain
  <2>2. CASE ReadKey \/ ReadEntry
    BY <1>0, <1>2, <2>0, <2>2 DEF ReadKey, ReadEntry, Mains
  <2> QED BY <1>7, <2>1, <2>2
<1>8. CASE Main
  <2>1. MainSteps
    BY <1>8, MainCases
  <2>2. ASSUME NEW k \in Keys, NEW b \in Blocks, NEW old \in SUBSET cached,
               NEW interp \in BOOLEAN, Translate(k, b, old, interp)
        PROVE  FlushSteps'
    BY <1>1, <2>2 DEF Translate
  <2>3. ASSUME NEW k \in Keys, NEW b \in Blocks, TranslateFails(k, b) PROVE FlushSteps'
    BY <1>1, <2>3 DEF TranslateFails
  <2>4. ASSUME NEW k \in Keys, NEW asks \in BOOLEAN, NEW interp \in BOOLEAN,
               Interpret(k, asks, interp)
        PROVE  FlushSteps'
    BY <1>1, <2>4 DEF Interpret
  <2> QED BY <1>3, <1>4, <1>5, <1>6, <1>7, <2>1, <2>2, <2>3, <2>4 DEF MainSteps
<1>9. CASE Compiler
  BY <1>1, <1>9 DEF Compiler, Dequeue, CompileBegin, CompileDiscard, CompileFails, CompileEnd,
    Publish
<1>10. CASE UNCHANGED vars
  BY <1>1, <1>10 DEF vars
<1> QED BY <1>8, <1>9, <1>10 DEF Next

----------------------------------------------------------------------------
(* Where blocks are: preserved by every step, flushes or not.              *)

LEMMA InitOwned == Init => OwnedInv
  BY Tier2Assumption DEF Init, OwnedInv, Blank, Idle

LEMMA TranslateOwned ==
  ASSUME TypeOK, OwnedInv, NEW k \in Keys, NEW b \in Blocks, NEW old \in SUBSET cached,
         NEW interp \in BOOLEAN, Translate(k, b, old, interp)
  PROVE  OwnedInv'
<1> DEFINE freed == {o \in old : FreesAtOnce(o)}
<1>0. /\ b \in pool /\ b \notin cached /\ b \notin old
      /\ cached' = (cached \ old) \cup {b}
      /\ pool' = (pool \ {b}) \cup freed
      /\ t2c' = t2c /\ t2c.at # "publish"
      /\ prev' \in {b, NoBlock} /\ lost' = lost /\ b \notin lost
  BY DEF Translate, OwnedInv, Locked, Linkable
<1>1. block'[b].key = k /\ ~block'[b].should_free /\ ~block'[b].is_compiling
  <2>1. block'[b] = Fresh(k)
    BY DEF Translate
  <2> QED BY <2>1 DEF Fresh
<1>2. \A x \in freed : block'[x] = Blank
  <2>1. freed \subseteq Blocks /\ b \notin freed
    BY <1>0 DEF TypeOK
  <2> QED BY <2>1 DEF Translate
<1>3. \A x \in old \ freed :
        /\ block'[x].should_free /\ block'[x].is_compiling = block[x].is_compiling
        /\ t2c.at = "compile" /\ x = t2c.blk
  <2> SUFFICES ASSUME NEW x \in old \ freed
               PROVE  /\ block'[x].should_free
                      /\ block'[x].is_compiling = block[x].is_compiling
                      /\ t2c.at = "compile" /\ x = t2c.blk
    OBVIOUS
  <2>1. x \in Blocks /\ x # b
    BY <1>0 DEF TypeOK
  <2>2. block'[x] = [block[x] EXCEPT !.should_free = TRUE]
    BY <2>1 DEF Translate
  <2>3. block[x] \in BlockFields
    BY <2>1 DEF TypeOK
  <2>4. block'[x].should_free /\ block'[x].is_compiling = block[x].is_compiling
    BY <2>2, <2>3 DEF BlockFields
  <2> QED BY <2>1, <2>4 DEF FreesAtOnce, OwnedInv
<1>4. \A x \in Blocks \ (old \cup {b}) : block'[x] = block[x]
  BY DEF Translate
<1>5. t2c.at = "compile" => t2c.blk # b /\ t2c.blk \notin freed
  BY <1>0 DEF OwnedInv, FreesAtOnce
<1>6. pool' \cap cached' = {} /\ lost' \cap (pool' \cup cached') = {}
  BY <1>0 DEF OwnedInv
<1>7. \A x \in cached' : block'[x].key \in Keys /\ ~block'[x].should_free
  BY <1>0, <1>1, <1>4 DEF OwnedInv, TypeOK
<1>8. \A x \in Blocks \ (pool' \cup cached' \cup lost') :
        t2c.at = "compile" /\ x = t2c.blk /\ block'[x].should_free
  BY <1>0, <1>3, <1>4 DEF OwnedInv
<1>9. \A x \in Blocks : block'[x].is_compiling => t2c.at = "compile" /\ x = t2c.blk
  BY <1>1, <1>2, <1>3, <1>4 DEF OwnedInv, Blank
<1>10. t2c.at = "compile" =>
         t2c.blk \in Blocks \ (pool' \cup lost') /\ block'[t2c.blk].is_compiling
  BY <1>0, <1>3, <1>4, <1>5 DEF OwnedInv
<1> QED BY <1>0, <1>6, <1>7, <1>8, <1>9, <1>10 DEF OwnedInv

(* A step that leaves these fields of the blocks alone.                    *)
LEMMA OwnedFrame ==
  ASSUME TypeOK, OwnedInv,
         UNCHANGED <<pool, lost, cached>>,
         \A b \in Blocks : /\ block'[b].key = block[b].key
                           /\ block'[b].should_free = block[b].should_free
                           /\ block'[b].is_compiling = block[b].is_compiling,
         prev' = NoBlock \/ prev' \in cached,
         t2c' = t2c
  PROVE  OwnedInv'
  BY DEF OwnedInv, TypeOK

LEMMA MainOwned ==
  ASSUME TypeOK, OwnedInv, Main
  PROVE  OwnedInv'
<1>1. ASSUME NEW k \in Keys, NEW b \in Blocks, NEW old \in SUBSET cached,
             NEW interp \in BOOLEAN, Translate(k, b, old, interp)
      PROVE  OwnedInv'
  BY <1>1, TranslateOwned
<1>2. ASSUME NEW k \in Keys, NEW asks \in BOOLEAN, NEW interp \in BOOLEAN,
             Interpret(k, asks, interp)
      PROVE  OwnedInv'
  <2>1. PICK b \in Found(k) :
          /\ block' = IF asks THEN [block EXCEPT ![b].compiled = TRUE] ELSE block
          /\ prev' = NoBlock \/ prev' \in Traced(b)
    BY <1>2 DEF Interpret, Linkable
  <2>2. b \in cached /\ b \in Blocks /\ Traced(b) \subseteq cached
    BY DEF Found, CachedAt, TypeOK, Traced
  <2>3. \A x \in Blocks : /\ block'[x].key = block[x].key
                          /\ block'[x].should_free = block[x].should_free
                          /\ block'[x].is_compiling = block[x].is_compiling
    BY <2>1, <2>2 DEF TypeOK, BlockFields
  <2> QED BY <1>2, <2>1, <2>2, <2>3, OwnedFrame DEF Interpret
<1>3. ASSUME NEW k \in Keys, RunTier2(k) \/ Jump(k)
      PROVE  OwnedInv'
  <2>1. UNCHANGED <<pool, lost, cached, block, t2c>> /\ prev' \in {prev, NoBlock}
    BY <1>3 DEF RunTier2, Jump, blockVars, fenceVars
  <2>2. prev' = NoBlock \/ prev' \in cached
    BY <2>1 DEF OwnedInv
  <2> QED BY <2>1, <2>2, OwnedFrame
<1>4. CASE Return \/ ReadKey \/ ReadEntry \/ ReadAgain \/ FlushBegin \/ FlushStep
  <2>1. UNCHANGED <<pool, lost, cached, block, t2c, prev>>
    BY <1>4 DEF Return, ReadKey, ReadEntry, ReadAgain, FlushBegin, FlushStep, blockVars, fenceVars
  <2>2. prev' = NoBlock \/ prev' \in cached
    BY <2>1 DEF OwnedInv
  <2> QED BY <2>1, <2>2, OwnedFrame
<1>5. CASE \/ \E p \in Pages : SfencePage(p)
           \/ \E changed \in SUBSET Pages : FenceAll(changed)
  <2>1. UNCHANGED <<pool, lost, cached, t2c>> /\ prev' = NoBlock
    BY <1>5 DEF SfencePage, FenceAll
  <2>2. \A x \in Blocks : \/ block'[x] = block[x]
                          \/ block'[x] = [block[x] EXCEPT !.invalidated = TRUE, !.hot2 = FALSE]
    BY <1>5 DEF SfencePage, FenceAll
  <2>3. \A x \in Blocks : block[x] \in BlockFields
    BY DEF TypeOK
  <2>4. \A x \in Blocks : /\ block'[x].key = block[x].key
                          /\ block'[x].should_free = block[x].should_free
                          /\ block'[x].is_compiling = block[x].is_compiling
    BY <2>2, <2>3 DEF BlockFields
  <2> QED BY <2>1, <2>4, OwnedFrame
<1>6. ASSUME NEW k \in Keys, NEW b \in Blocks, TranslateFails(k, b) PROVE OwnedInv'
  <2>1. /\ UNCHANGED <<block, cached, t2c>> /\ prev' = NoBlock
        /\ b \in pool /\ pool' = pool \ {b} /\ lost' = lost \cup {b}
    BY <1>6 DEF TranslateFails
  <2> QED BY <2>1 DEF OwnedInv
<1>7. MainSteps
  BY MainCases
<1> QED BY <1>1, <1>2, <1>3, <1>4, <1>5, <1>6, <1>7 DEF MainSteps

LEMMA CompilerOwned ==
  ASSUME TypeOK, OwnedInv, Compiler
  PROVE  OwnedInv'
<1>0. \A x \in Blocks : block[x] \in BlockFields
  BY DEF TypeOK
<1>1. ASSUME Dequeue PROVE OwnedInv'
  <2>1. UNCHANGED <<pool, lost, cached, block, prev>> /\ t2c.at = "wait"
    BY <1>1 DEF Dequeue, blockVars, fenceVars
  <2>2. t2c'.at = "lookup" /\ t2c'.blk = NoBlock /\ t2c'.key = Head(wait_queue)
    BY <1>1 DEF Dequeue, Idle
  <2>3. Head(wait_queue) \in Keys
    BY <1>1 DEF Dequeue, TypeOK
  <2> QED BY <2>1, <2>2, <2>3 DEF OwnedInv
<1>2. ASSUME CompileBegin PROVE OwnedInv'
  <2>0. t2c.at = "lookup" /\ UNCHANGED <<pool, lost, cached, prev>>
    BY <1>2 DEF CompileBegin
  <2>1. CASE t2c' = Idle /\ UNCHANGED block
    BY <2>0, <2>1 DEF OwnedInv, Idle
  <2>2. ASSUME NEW b \in CachedAt(t2c.key),
               block' = [block EXCEPT ![b].is_compiling = TRUE],
               t2c' = [t2c EXCEPT !.at = "compile", !.blk = b,
                  !.code = {<<block[x].key, block[x].version>> : x \in Traced(b)}]
        PROVE  OwnedInv'
    <3>1. b \in cached /\ b \in Blocks
      BY DEF CachedAt, TypeOK
    <3>2. t2c'.at = "compile" /\ t2c'.blk = b
      BY <2>2 DEF TypeOK, Compilers
    <3>3. block'[b] = [block[b] EXCEPT !.is_compiling = TRUE]
          /\ \A x \in Blocks \ {b} : block'[x] = block[x]
      BY <2>2, <3>1 DEF TypeOK
    <3>4. block'[b].is_compiling /\ block'[b].key = block[b].key
          /\ block'[b].should_free = block[b].should_free
      BY <1>0, <3>1, <3>3 DEF BlockFields
    <3> QED BY <2>0, <3>1, <3>2, <3>3, <3>4 DEF OwnedInv, TypeOK
  <2> QED BY <1>2, <2>1, <2>2 DEF CompileBegin
<1>3. ASSUME CompileDiscard PROVE OwnedInv'
  <2>1. t2c.at = "compile" /\ t2c.blk \in Blocks \ (pool \cup lost) /\ block[t2c.blk].is_compiling
        /\ UNCHANGED <<lost, cached, prev>> /\ t2c' = Idle
    BY <1>3 DEF CompileDiscard, OwnedInv
  <2>2. CASE block[t2c.blk].should_free
    <3>1. block' = [block EXCEPT ![t2c.blk] = Blank] /\ pool' = pool \cup {t2c.blk}
      BY <1>3, <2>2 DEF CompileDiscard
    <3>2. block'[t2c.blk] = Blank /\ \A x \in Blocks \ {t2c.blk} : block'[x] = block[x]
      BY <2>1, <3>1 DEF TypeOK
    <3>3. t2c.blk \notin cached
      BY <2>2 DEF OwnedInv
    <3> QED BY <2>1, <3>1, <3>2, <3>3 DEF OwnedInv, TypeOK, Idle, Blank
  <2>3. CASE ~block[t2c.blk].should_free
    <3>1. block' = [block EXCEPT ![t2c.blk].is_compiling = FALSE] /\ pool' = pool
      BY <1>3, <2>3 DEF CompileDiscard
    <3>2. block'[t2c.blk] = [block[t2c.blk] EXCEPT !.is_compiling = FALSE]
          /\ \A x \in Blocks \ {t2c.blk} : block'[x] = block[x]
      BY <2>1, <3>1 DEF TypeOK
    <3>3. ~block'[t2c.blk].is_compiling /\ block'[t2c.blk].key = block[t2c.blk].key
          /\ block'[t2c.blk].should_free = block[t2c.blk].should_free
      BY <1>0, <2>1, <3>2 DEF BlockFields
    <3> QED BY <2>1, <2>3, <3>1, <3>2, <3>3 DEF OwnedInv, TypeOK, Idle
  <2> QED BY <2>2, <2>3
<1>4. ASSUME CompileFails \/ CompileEnd PROVE OwnedInv'
  <2>1. t2c.at = "compile" /\ t2c.blk \in Blocks \ (pool \cup lost) /\ ~block[t2c.blk].should_free
        /\ UNCHANGED <<pool, lost, cached, prev>>
    BY <1>4 DEF CompileFails, CompileEnd, Discards, OwnedInv
  <2>2. t2c.blk \in cached
    BY <2>1 DEF OwnedInv
  <2>3. \/ t2c' = Idle
        \/ t2c'.at = "publish" /\ t2c'.blk = t2c.blk
    BY <1>4 DEF CompileFails, CompileEnd, TypeOK, Compilers
  <2>4. \/ block' = [block EXCEPT ![t2c.blk].is_compiling = FALSE]
        \/ block' = [block EXCEPT ![t2c.blk].is_compiling = FALSE,
                                  ![t2c.blk].func = Len(engines) + 1]
    BY <1>4 DEF CompileFails, CompileEnd
  <2>5. /\ \A x \in Blocks \ {t2c.blk} : block'[x] = block[x]
        /\ \/ block'[t2c.blk] = [block[t2c.blk] EXCEPT !.is_compiling = FALSE]
           \/ block'[t2c.blk] = [block[t2c.blk] EXCEPT !.is_compiling = FALSE,
                                                        !.func = Len(engines) + 1]
    BY <2>1, <2>4 DEF TypeOK
  <2>6. ~block'[t2c.blk].is_compiling /\ block'[t2c.blk].key = block[t2c.blk].key
        /\ block'[t2c.blk].should_free = block[t2c.blk].should_free
    BY <1>0, <2>1, <2>5 DEF BlockFields
  <2>7. cached \subseteq Blocks
    BY DEF TypeOK
  <2>8. CASE t2c' = Idle
    BY <2>1, <2>2, <2>5, <2>6, <2>7, <2>8 DEF OwnedInv, Idle
  <2>9. CASE t2c'.at = "publish" /\ t2c'.blk = t2c.blk
    BY <2>1, <2>2, <2>5, <2>6, <2>7, <2>9 DEF OwnedInv
  <2> QED BY <2>3, <2>8, <2>9
<1>5. ASSUME Publish PROVE OwnedInv'
  <2>1. t2c.at = "publish" /\ t2c.blk \in cached /\ t2c.blk \in Blocks
        /\ UNCHANGED <<pool, lost, cached, prev>>
    BY <1>5 DEF Publish, OwnedInv, TypeOK
  <2>2. \/ t2c' = Idle
        \/ t2c'.at = "publish" /\ t2c'.blk = t2c.blk
    BY <1>5 DEF Publish, TypeOK, Compilers, Stepped
  <2>3. \A x \in Blocks : \/ block'[x] = block[x]
                          \/ block'[x] = [block[x] EXCEPT !.hot2 = TRUE]
    BY <1>5, <2>1 DEF Publish, TypeOK
  <2>4. \A x \in Blocks : /\ block'[x].key = block[x].key
                          /\ block'[x].should_free = block[x].should_free
                          /\ block'[x].is_compiling = block[x].is_compiling
    BY <1>0, <2>3 DEF BlockFields
  <2>5. cached \subseteq Blocks
    BY DEF TypeOK
  <2>6. CASE t2c' = Idle
    BY <2>1, <2>4, <2>5, <2>6 DEF OwnedInv, Idle
  <2>7. CASE t2c'.at = "publish" /\ t2c'.blk = t2c.blk
    BY <2>1, <2>4, <2>5, <2>7 DEF OwnedInv
  <2> QED BY <2>2, <2>6, <2>7
<1> QED BY <1>1, <1>2, <1>3, <1>4, <1>5 DEF Compiler

LEMMA StepOwned ==
  ASSUME TypeOK, OwnedInv, [Next]_vars
  PROVE  OwnedInv'
<1>1. CASE UNCHANGED vars
  BY <1>1 DEF vars, blockVars, fenceVars, OwnedInv
<1> QED BY <1>1, MainOwned, CompilerOwned DEF Next

(* Whatever evictions, fences, flushes and compilations overlap, no block  *)
(* is freed twice, or used by rv_step or by the compiler thread after it   *)
(* was freed (block_find_or_translate, t2c_compile), and the only blocks   *)
(* that are lost are those of failed translations.                         *)
THEOREM Tier2BlocksAccounted == Spec => []BlocksAccounted
<1> DEFINE Safe == TypeOK /\ OwnedInv /\ FlushSteps
<1>1. Init => Safe
  BY InitType, InitOwned DEF Init, FlushSteps, Looping
<1>2. Safe /\ [Next]_vars => Safe'
  BY StepType, StepOwned, StepFlush
<1>3. Safe => BlocksAccounted
  <2> SUFFICES ASSUME TypeOK, OwnedInv PROVE BlocksAccounted
    OBVIOUS
  <2>1. t2c.at \in {"wait", "lookup", "compile", "publish"}
    BY DEF TypeOK, Compilers
  <2>2. Deferred \cap (pool \cup cached) = {} /\ lost \cap Deferred = {}
    BY DEF Deferred, OwnedInv
  <2>3. pool \cup cached \cup Deferred \cup lost = Blocks
    BY DEF Deferred, OwnedInv, TypeOK
  <2>4. t2c.blk # NoBlock => t2c.blk \notin pool
    BY <2>1 DEF OwnedInv
  <2> QED BY <2>2, <2>3, <2>4 DEF BlocksAccounted, OwnedInv
<1> QED BY <1>1, <1>2, <1>3, PTL DEF Spec

----------------------------------------------------------------------------
(* The functions that run.                                                 *)

LEMMA Parity ==
  ASSUME NEW s \in 0 .. SeqMod - 1, s % 2 = 0
  PROVE  /\ Plus(s, 2) % 2 = 0 /\ Plus(s, 2) \in {s + 2, s + 2 - SeqMod}
         /\ Plus(s, 1) % 2 = 1 /\ Plus(s, 1) = s + 1
<1>1. s + 1 < SeqMod /\ s + 2 <= SeqMod
  BY Tier2Assumption
<1>2. Plus(s, 1) = s + 1
  BY <1>1, Tier2Assumption DEF Plus
<1>3. Plus(s, 2) = IF s + 2 < SeqMod THEN s + 2 ELSE s + 2 - SeqMod
  BY <1>1, Tier2Assumption DEF Plus
<1>4. (s + 1) % 2 = 1 /\ (s + 2) % 2 = 0 /\ (s + 2 - SeqMod) % 2 = 0
  BY Tier2Assumption
<1> QED BY <1>2, <1>3, <1>4

LEMMA InitInv == Init => Inv
<1> SUFFICES ASSUME Init PROVE Inv
  OBVIOUS
<1>1. TypeOK /\ OwnedInv /\ FlushSteps
  <2>1. main.at = "loop"
    BY DEF Init, Looping
  <2> QED BY <2>1, InitType, InitOwned DEF FlushSteps
<1>2. Requested = 0
  BY DEF Requested, Init, Idle
<1>3. CountInv
  BY <1>2, Tier2Assumption DEF CountInv, Init, Blank, Looping
<1>4. FuncInv /\ PairInv
  BY DEF FuncInv, PairInv, HalfWritten, Init, Idle
<1>5. SeqInv /\ ReadInv
  BY DEF SeqInv, ReadInv, Updating, Clearing, Writing, Reading, Init, Idle, Looping
<1> QED BY <1>1, <1>3, <1>4, <1>5 DEF Inv

(* Steps of the main thread that write the whole slot, or do not write it. *)
LEMMA LoopSeq ==
  ASSUME TypeOK, SeqInv, main.at # "flush", main'.at # "flush",
         t2c' = t2c,
         jit_cache' = jit_cache \/ (~Locked /\ jit_cache'.seq = Plus(jit_cache.seq, 2))
  PROVE  SeqInv'
<1>1. ~Clearing /\ ~Clearing' /\ Updating' = Updating
  BY DEF Clearing, Updating
<1>2. CASE jit_cache' = jit_cache
  BY <1>1, <1>2 DEF SeqInv
<1>3. CASE ~Locked /\ jit_cache'.seq = Plus(jit_cache.seq, 2)
  <2>1. ~Updating /\ t2c.at # "publish"
    BY <1>3 DEF Locked, Updating
  <2>2. jit_cache.seq \in 0 .. SeqMod - 1 /\ jit_cache.seq % 2 = 0
    BY <1>1, <2>1 DEF TypeOK, Slots, SeqInv
  <2>4. jit_cache'.seq % 2 = 0
    BY <1>3, <2>2, Parity
  <2> QED BY <1>1, <2>1, <2>4 DEF SeqInv, Updating
<1> QED BY <1>2, <1>3

LEMMA TranslateInv ==
  ASSUME Inv, NEW k \in Keys, NEW b \in Blocks, NEW old \in SUBSET cached,
         NEW interp \in BOOLEAN, Translate(k, b, old, interp)
  PROVE  CountInv' /\ FuncInv' /\ SeqInv' /\ PairInv' /\ ReadInv'
<1> DEFINE gone == {block[o].key : o \in old}
           freed == {o \in old : FreesAtOnce(o)}
           had  == {o \in old : block[o].func # 0}
           fs == {block[o].func : o \in freed}
<1>0. /\ b \in pool /\ b \notin cached /\ b \notin old /\ old \subseteq cached
      /\ cached' = (cached \ old) \cup {b} /\ cached \subseteq Blocks
      /\ t2c' = t2c /\ ~Locked /\ main' = main /\ main.at = "loop"
      /\ wait_queue' = wait_queue
      /\ TypeOK
  BY DEF Translate, OwnedInv, Inv, TypeOK
<1>1. block'[b] = Fresh(k) /\ \A x \in Blocks \ (old \cup {b}) : block'[x] = block[x]
  BY DEF Translate
<1>2. ASSUME NEW x \in old PROVE block'[x].hot2 => block[x].hot2
  <2>1. \/ block'[x] = Blank
        \/ block'[x] = [block[x] EXCEPT !.should_free = TRUE]
    BY <1>0 DEF Translate
  <2>2. block[x] \in BlockFields
    BY <1>0 DEF TypeOK
  <2> QED BY <2>1, <2>2 DEF Blank, BlockFields
<1>3. engines' = Disposed(fs) /\ Len(engines') = Len(engines) /\ Len(engines) \in Nat
  BY <1>0, DisposedType DEF Translate, TypeOK
<1>4. Published' = Published /\ Requested' = Requested
  BY <1>0, <1>3 DEF Published, Requested
<1>5. CountInv'
  <2>1. \A x \in Blocks : block'[x].hot2 => Published >= 1
    BY <1>1, <1>2 DEF Inv, CountInv, Fresh
  <2> QED BY <1>0, <1>4, <2>1 DEF Inv, CountInv
<1>6. ASSUME NEW f \in Nat, NEW j \in Keys, IsFunc(f, j), f \notin fs
      PROVE  IsFunc(f, j)'
  <2>1. engines'[f] = engines[f]
    BY <1>3, <1>6 DEF IsFunc, Disposed
  <2> QED BY <1>3, <1>6, <2>1 DEF IsFunc
<1>7. FuncInv'
  <2>1. ASSUME NEW x \in cached', block'[x].func # 0
        PROVE  x \in cached \ old /\ block'[x] = block[x]
    BY <1>0, <1>1, <2>1 DEF Fresh
  <2>2. ASSUME NEW x \in cached', block'[x].func # 0
        PROVE  IsFunc(block[x].func, block[x].key)'
    <3>1. IsFunc(block[x].func, block[x].key) /\ block[x].func \notin fs
      BY <2>1, <2>2, <1>0 DEF Inv, FuncInv
    <3>2. block[x].func \in Nat /\ block[x].key \in Keys
      BY <1>0, <2>1, <2>2, <3>1 DEF TypeOK, BlockFields, IsFunc
    <3>3. engines'[block[x].func] = engines[block[x].func]
      BY <1>3, <3>1 DEF IsFunc, Disposed
    <3> QED BY <1>3, <2>1, <2>2, <3>1, <3>3 DEF IsFunc
  <2>3. ASSUME NEW x \in cached', NEW y \in cached', block'[x].func # 0,
               block'[x].func = block'[y].func
        PROVE  x = y
    <3>1. /\ x \in cached \ old /\ block'[x] = block[x]
          /\ y \in cached \ old /\ block'[y] = block[y]
      BY <2>1, <2>3
    <3> QED BY <3>1, <2>3 DEF Inv, FuncInv
  <2>4. t2c'.at # "publish"
    BY <1>0 DEF Locked
  <2> QED BY <2>2, <2>3, <2>4 DEF FuncInv
<1>8. SeqInv'
  <2>1. jit_cache' = jit_cache \/ jit_cache'.seq = Plus(jit_cache.seq, 2)
    BY DEF Translate, Slot
  <2>2. SeqInv /\ main'.at # "flush"
    BY <1>0 DEF Inv
  <2> QED BY <1>0, <2>1, <2>2, LoopSeq
<1>9. PairInv'
  <2>1. ~HalfWritten /\ ~HalfWritten'
    BY <1>0 DEF HalfWritten, Locked
  <2>2. ASSUME jit_cache'.entry # 0 PROVE IsFunc(jit_cache.entry, jit_cache.key)'
    <3>1. had = {} /\ jit_cache' = jit_cache
      BY <2>2 DEF Translate, Slot
    <3>2. fs \subseteq {0}
      BY <3>1
    <3>3. IsFunc(jit_cache.entry, jit_cache.key) /\ jit_cache.entry \in Nat
      BY <1>0, <2>1, <2>2, <3>1 DEF Inv, PairInv, TypeOK, Slots
    <3>4. engines'[jit_cache.entry] = engines[jit_cache.entry]
      BY <1>3, <2>2, <3>1, <3>2, <3>3 DEF IsFunc, Disposed
    <3> QED BY <1>3, <3>1, <3>3, <3>4 DEF IsFunc
  <2>3. ASSUME NEW j \in Keys, inline_cache'[j] # 0 PROVE IsFunc(inline_cache[j], j)'
    <3>1. j \notin gone /\ inline_cache'[j] = inline_cache[j]
      BY <2>3 DEF Translate, InlineWithout
    <3>2. IsFunc(inline_cache[j], j)
      BY <2>3, <3>1 DEF Inv, PairInv
    <3>3. \A o \in old : block[o].func # inline_cache[j]
      BY <1>0, <2>3, <3>1, <3>2 DEF Inv, FuncInv, IsFunc
    <3>4. engines'[inline_cache[j]] = engines[inline_cache[j]]
      BY <1>3, <3>2, <3>3 DEF IsFunc, Disposed
    <3> QED BY <1>3, <3>1, <3>2, <3>4 DEF IsFunc
  <2> QED BY <1>0, <2>1, <2>2, <2>3 DEF PairInv
<1>10. ReadInv'
  BY <1>0 DEF ReadInv, Reading
<1> QED BY <1>5, <1>7, <1>8, <1>9, <1>10

(* A step of the main thread that disposes of no function.                 *)
LEMMA MainFrame ==
  ASSUME Inv,
         UNCHANGED <<cached, t2c, engines>>,
         Requested' <= MaxCompiles,
         \A b \in Blocks : /\ block'[b].key = block[b].key
                           /\ block'[b].func = block[b].func
                           /\ block'[b].hot2 => block[b].hot2
                           /\ t2c.at = "publish" /\ block'[b].invalidated =>
                                block[b].invalidated,
         \/ jit_cache' = jit_cache
         \/ t2c.at # "publish" /\ jit_cache'.entry = 0,
         main'.at = "flush" /\ main'.step \in {"key", "even"} => jit_cache'.entry = 0,
         \A k \in Keys : \/ inline_cache'[k] \in {0, inline_cache[k]}
                         \/ IsFunc(inline_cache'[k], k),
         main'.at \in {"run", "key", "entry", "again"} => Published >= 1
  PROVE  CountInv' /\ FuncInv' /\ PairInv'
<1>0. cached \subseteq Blocks /\ (t2c.at = "publish" => t2c.blk \in Blocks)
  BY DEF Inv, TypeOK, OwnedInv
<1>1. Published' = Published
  BY DEF Published
<1>2. \A f, k : IsFunc(f, k)' <=> IsFunc(f, k)
  BY DEF IsFunc
<1>3. CountInv'
  BY <1>1 DEF Inv, CountInv
<1>4. FuncInv'
  <2>1. ASSUME NEW b \in cached, block'[b].func # 0
        PROVE  IsFunc(block[b].func, block[b].key)'
    BY <1>0, <2>1 DEF Inv, FuncInv, IsFunc
  <2>2. ASSUME NEW a \in cached, NEW b \in cached, block'[a].func # 0,
               block'[a].func = block'[b].func
        PROVE  a = b
    BY <1>0, <2>2 DEF Inv, FuncInv
  <2>3. t2c.at = "publish" =>
          block'[t2c.blk].func # 0 /\ ~block'[t2c.blk].invalidated
    BY <1>0 DEF Inv, FuncInv
  <2> QED BY <2>1, <2>2, <2>3 DEF FuncInv
<1>5. PairInv'
  <2>0. HalfWritten' = HalfWritten /\ (HalfWritten => t2c.at = "publish")
    BY DEF HalfWritten
  <2>1. ASSUME ~HalfWritten, jit_cache'.entry # 0
        PROVE  IsFunc(jit_cache.entry, jit_cache.key)'
    BY <2>1 DEF Inv, PairInv, IsFunc
  <2>2. HalfWritten => jit_cache'.entry = block'[t2c.blk].func
    BY <1>0, <2>0 DEF Inv, PairInv
  <2>3. ASSUME NEW k \in Keys, inline_cache'[k] # 0
        PROVE  IsFunc(inline_cache[k], k)'
    BY <2>3 DEF Inv, PairInv, IsFunc
  <2> QED BY <2>0, <2>1, <2>2, <2>3 DEF PairInv
<1> QED BY <1>3, <1>4, <1>5

LEMMA InterpretInv ==
  ASSUME Inv, NEW k \in Keys, NEW asks \in BOOLEAN, NEW interp \in BOOLEAN,
         Interpret(k, asks, interp)
  PROVE  CountInv' /\ FuncInv' /\ SeqInv' /\ PairInv' /\ ReadInv'
<1>0. TypeOK /\ SeqInv /\ CountInv /\ PairInv
  BY DEF Inv
<1>1. PICK b \in Found(k) :
        /\ asks => Requested < MaxCompiles
        /\ block' = IF asks THEN [block EXCEPT ![b].compiled = TRUE] ELSE block
        /\ wait_queue' = IF asks THEN Append(wait_queue, k) ELSE wait_queue
  BY DEF Interpret
<1>2. b \in Blocks
  BY <1>0 DEF Found, CachedAt, TypeOK
<1>3. main' = main /\ main.at = "loop" /\ UNCHANGED <<cached, t2c, engines, jit_cache, inline_cache>>
  BY DEF Interpret
<1>4. ASSUME NEW x \in Blocks
      PROVE  /\ block'[x].key = block[x].key
             /\ block'[x].func = block[x].func
             /\ block'[x].hot2 => block[x].hot2
             /\ block'[x].invalidated => block[x].invalidated
  <2>1. block[x] \in BlockFields /\ (\/ block'[x] = block[x]
                                     \/ block'[x] = [block[x] EXCEPT !.compiled = TRUE])
    BY <1>0, <1>1, <1>2 DEF TypeOK
  <2> QED BY <2>1 DEF BlockFields
<1>5. Requested' <= MaxCompiles
  <2>1. Len(wait_queue') = IF asks THEN Len(wait_queue) + 1 ELSE Len(wait_queue)
    BY <1>0, <1>1 DEF TypeOK
  <2>2. Len(wait_queue) \in Nat /\ Len(engines) \in Nat /\ MaxCompiles \in Nat
    BY <1>0, Tier2Assumption DEF TypeOK
  <2>3. Requested \in Int /\ Requested' = Requested + (IF asks THEN 1 ELSE 0)
    <3>1. CASE asks
      BY <1>3, <2>1, <2>2, <3>1 DEF Requested
    <3>2. CASE ~asks
      BY <1>3, <2>1, <2>2, <3>2 DEF Requested
    <3> QED BY <3>1, <3>2
  <2>4. Requested <= MaxCompiles
    BY <1>0 DEF CountInv
  <2> QED BY <1>1, <2>2, <2>3, <2>4
<1>6. CountInv' /\ FuncInv' /\ PairInv'
  BY <1>3, <1>4, <1>5, MainFrame
<1>7. SeqInv'
  BY <1>0, <1>3, LoopSeq
<1>8. ReadInv'
  BY <1>3 DEF ReadInv, Reading
<1> QED BY <1>6, <1>7, <1>8

LEMMA TranslateFailsInv ==
  ASSUME Inv, NEW k \in Keys, NEW b \in Blocks, TranslateFails(k, b)
  PROVE  CountInv' /\ FuncInv' /\ SeqInv' /\ PairInv' /\ ReadInv'
<1>0. TypeOK /\ SeqInv /\ CountInv
  BY DEF Inv
<1>1. /\ main' = main /\ main.at = "loop"
      /\ UNCHANGED <<block, cached, wait_queue, t2c, engines, jit_cache, inline_cache>>
  BY DEF TranslateFails
<1>2. Requested' <= MaxCompiles
  BY <1>0, <1>1 DEF Requested, CountInv
<1>3. CountInv' /\ FuncInv' /\ PairInv'
  BY <1>1, <1>2, MainFrame
<1>4. SeqInv'
  BY <1>0, <1>1, LoopSeq
<1> QED BY <1>1, <1>3, <1>4 DEF ReadInv, Reading

LEMMA FenceInv ==
  ASSUME Inv,
         \/ \E p \in Pages : SfencePage(p)
         \/ \E changed \in SUBSET Pages : FenceAll(changed)
  PROVE  CountInv' /\ FuncInv' /\ SeqInv' /\ PairInv' /\ ReadInv'
<1>0. TypeOK /\ SeqInv /\ CountInv /\ PairInv /\ ReadInv
  BY DEF Inv
<1>1. /\ main' = Fenced /\ main.at \in {"loop", "run"} /\ ~Locked
      /\ UNCHANGED <<cached, t2c, engines, wait_queue>>
  BY DEF SfencePage, FenceAll, MayFence
<1>10. main'.at = main.at /\ main'.func = main.func /\ main'.target = main.target
  BY <1>0, <1>1 DEF Fenced, TypeOK, Mains
<1>11. main'.at = "run" => Published >= 1
  BY <1>0, <1>10 DEF CountInv
<1>2. ASSUME NEW x \in Blocks
      PROVE  /\ block'[x].key = block[x].key
             /\ block'[x].func = block[x].func
             /\ block'[x].hot2 => block[x].hot2
  <2>1. block[x] \in BlockFields
        /\ (\/ block'[x] = block[x]
            \/ block'[x] = [block[x] EXCEPT !.invalidated = TRUE, !.hot2 = FALSE])
    BY <1>0 DEF TypeOK, SfencePage, FenceAll
  <2> QED BY <2>1 DEF BlockFields
<1>3. \/ jit_cache' = jit_cache
      \/ jit_cache'.entry = 0 /\ jit_cache'.seq = Plus(jit_cache.seq, 2)
  <2>1. jit_cache' = jit_cache \/ jit_cache' = Slot(0, 0)
    BY DEF SfencePage, FenceAll
  <2> QED BY <2>1 DEF Slot
<1>4. \A k \in Keys : inline_cache'[k] \in {0, inline_cache[k]}
  BY DEF SfencePage, FenceAll, InlineWithout
<1>5. Requested' <= MaxCompiles
  BY <1>0, <1>1 DEF Requested, CountInv
<1>6. t2c.at # "publish"
  BY <1>1 DEF Locked
<1>7. CountInv' /\ FuncInv' /\ PairInv'
  BY <1>1, <1>2, <1>3, <1>4, <1>5, <1>6, <1>10, <1>11, MainFrame
<1>8. SeqInv'
  <2>1. main.at # "flush" /\ main'.at # "flush"
    BY <1>1, <1>10
  <2> QED BY <1>0, <1>1, <1>3, <2>1, LoopSeq
<1>9. ReadInv'
  BY <1>0, <1>1, <1>10 DEF ReadInv, Reading, IsFunc
<1> QED BY <1>7, <1>8, <1>9

(* A step of compiled code, or of a reader of the slot: it writes at most  *)
(* one function into the inline cache.                                     *)
LEMMA LookFrame ==
  ASSUME Inv,
         UNCHANGED <<block, cached, t2c, engines, wait_queue, jit_cache>>,
         main.at # "flush", main'.at # "flush",
         \A k \in Keys : \/ inline_cache'[k] \in {0, inline_cache[k]}
                         \/ IsFunc(inline_cache'[k], k),
         main'.at \in {"run", "key", "entry", "again"} => Published >= 1
  PROVE  CountInv' /\ FuncInv' /\ SeqInv' /\ PairInv'
<1>1. TypeOK /\ SeqInv /\ CountInv
  BY DEF Inv
<1>2. Requested' <= MaxCompiles
  BY <1>1 DEF Requested, CountInv
<1>3. CountInv' /\ FuncInv' /\ PairInv'
  BY <1>2, MainFrame
<1> QED BY <1>1, <1>3, LoopSeq

LEMMA RunInv ==
  ASSUME Inv, NEW k \in Keys, RunTier2(k)
  PROVE  CountInv' /\ FuncInv' /\ SeqInv' /\ PairInv' /\ ReadInv'
<1>1. main.at = "loop" /\ UNCHANGED <<block, cached, t2c, engines, wait_queue, jit_cache, inline_cache>>
  BY DEF RunTier2
<1>2. PICK b \in Found(k) : block[b].hot2 /\ block[b].func # 0 /\ Call(block[b].func, k)
  BY DEF RunTier2
<1>3. b \in cached /\ b \in Blocks /\ block[b].key = k
  BY DEF Found, CachedAt, Inv, TypeOK
<1>4. IsFunc(block[b].func, k) /\ Published >= 1
  BY <1>2, <1>3 DEF Inv, FuncInv, CountInv
<1>5. main'.at = "run" /\ main'.func = block[b].func /\ main'.target = k
  BY <1>2 DEF Call, Looping
<1>6. CountInv' /\ FuncInv' /\ SeqInv' /\ PairInv'
  BY <1>1, <1>4, <1>5, LookFrame
<1>7. IsFunc(main.func, main.target)'
  BY <1>1, <1>4, <1>5 DEF IsFunc
<1> QED BY <1>5, <1>6, <1>7 DEF ReadInv, Reading

LEMMA JumpInv ==
  ASSUME Inv, NEW k \in Keys, Jump(k)
  PROVE  CountInv' /\ FuncInv' /\ SeqInv' /\ PairInv' /\ ReadInv'
<1>1. /\ main.at = "run"
      /\ UNCHANGED <<block, cached, t2c, engines, wait_queue, jit_cache, inline_cache>>
      /\ Published >= 1 /\ Published' = Published
  BY DEF Jump, blockVars, fenceVars, Inv, CountInv, Published
<1>2. CASE inline_cache[k] # 0
  <2>1. main'.at = "run" /\ main'.func = inline_cache[k] /\ main'.target = k
    BY <1>2 DEF Jump, Call, Looping
  <2>2. CountInv' /\ FuncInv' /\ SeqInv' /\ PairInv'
    BY <1>1, <2>1, LookFrame
  <2>3. IsFunc(main.func, main.target)'
    BY <1>1, <1>2, <2>1 DEF IsFunc, Inv, PairInv
  <2> QED BY <2>1, <2>2, <2>3 DEF ReadInv, Reading
<1>3. CASE inline_cache[k] = 0 /\ main' = Looping
  <2>1. main'.at = "loop"
    BY <1>3 DEF Looping
  <2>2. CountInv' /\ FuncInv' /\ SeqInv' /\ PairInv'
    BY <1>1, <2>1, LookFrame
  <2> QED BY <2>1, <2>2 DEF ReadInv, Reading
<1>4. CASE /\ jit_cache.seq % 2 = 0
           /\ main' = [Looping EXCEPT !.at = "key", !.target = k, !.seq = jit_cache.seq,
                                      !.pubs = Published]
  <2>1. main'.at = "key" /\ main'.target = k /\ main'.seq = jit_cache.seq
        /\ main'.pubs = Published
    BY <1>4 DEF Looping
  <2>2. CountInv' /\ FuncInv' /\ SeqInv' /\ PairInv'
    BY <1>1, <2>1, LookFrame
  <2>3. t2c.seq \in 0 .. SeqMod - 1 /\ jit_cache.seq \in 0 .. SeqMod - 1
        /\ Published \in Int /\ SeqMod \in Nat
    BY Tier2Assumption DEF Inv, TypeOK, Compilers, Slots, Published
  <2>4. ~Updating'
    <3>1. Updating => jit_cache.seq % 2 = 1
      BY <2>3, Parity DEF Inv, SeqInv
    <3> QED BY <1>1, <1>4, <3>1 DEF Updating
  <2>5. BaseSeq' \in Ahead(main'.seq, Published' - main'.pubs)
    BY <1>1, <2>1, <2>3, <2>4 DEF BaseSeq, Ahead
  <2>6. main'.pubs \in 1 .. Published'
    BY <1>1, <2>1, <2>3
  <2> QED BY <1>4, <2>1, <2>2, <2>5, <2>6 DEF ReadInv, Reading
<1> QED BY <1>2, <1>3, <1>4 DEF Jump

LEMMA ReadKeyInv ==
  ASSUME Inv, ReadKey \/ ReadEntry \/ Return
  PROVE  CountInv' /\ FuncInv' /\ SeqInv' /\ PairInv' /\ ReadInv'
<1>1. /\ main.at \in {"run", "key", "entry"}
      /\ UNCHANGED <<block, cached, t2c, engines, wait_queue, jit_cache, inline_cache>>
      /\ Published >= 1 /\ Published' = Published
  BY DEF ReadKey, ReadEntry, Return, blockVars, fenceVars, Inv, CountInv, Published
<1>2. CASE main' = Looping
  <2>1. main'.at = "loop"
    BY <1>2 DEF Looping
  <2>2. CountInv' /\ FuncInv' /\ SeqInv' /\ PairInv'
    BY <1>1, <2>1, LookFrame
  <2> QED BY <2>1, <2>2 DEF ReadInv, Reading
<1>3. CASE main' # Looping
  <2>1. /\ Reading /\ main'.target = main.target /\ main'.seq = main.seq
        /\ main'.pubs = main.pubs
        /\ \/ main'.at = "entry" /\ jit_cache.key = main.target
           \/ main.at = "entry" /\ main'.at = "again" /\ main'.func = jit_cache.entry
    <3>1. main \in Mains
      BY DEF Inv, TypeOK
    <3> QED BY <1>3, <3>1 DEF Mains, ReadKey, ReadEntry, Return, Reading
  <2>2. CountInv' /\ FuncInv' /\ SeqInv' /\ PairInv'
    BY <1>1, <2>1, LookFrame
  <2>3. BaseSeq' = BaseSeq /\ Untouched' = Untouched
    BY <1>1, <2>1 DEF BaseSeq, Updating, Untouched
  <2>4. ReadInv
    BY DEF Inv
  <2>5. BaseSeq' \in Ahead(main'.seq, Published' - main'.pubs)
    BY <1>1, <2>1, <2>3, <2>4 DEF ReadInv
  <2> QED BY <1>1, <2>1, <2>2, <2>3, <2>4, <2>5 DEF ReadInv, Reading
<1> QED BY <1>2, <1>3

(* The second load accepts only what no update has touched.                *)
LEMMA AcceptedIsFunc ==
  ASSUME Inv, SeqWide, main.at = "again", Accepts
  PROVE  IsFunc(main.func, main.target) /\ main.func = jit_cache.entry
<1>1. /\ TypeOK /\ CountInv /\ SeqInv /\ PairInv /\ ReadInv
      /\ main.func # 0 /\ jit_cache.seq = main.seq
  BY DEF Inv, Accepts
<1>2. /\ main.pubs \in 1 .. Published /\ main.seq % 2 = 0
      /\ BaseSeq \in Ahead(main.seq, Published - main.pubs)
      /\ Untouched => jit_cache.key = main.target /\ jit_cache.entry = main.func
  BY <1>1 DEF ReadInv, Reading
<1>3. /\ t2c.seq \in 0 .. SeqMod - 1 /\ jit_cache.seq \in 0 .. SeqMod - 1
      /\ Len(engines) \in Nat /\ Len(wait_queue) \in Nat /\ SeqMod \in Nat /\ MaxCompiles \in Nat
      /\ main.pubs \in Int
  BY <1>1, Tier2Assumption DEF TypeOK, Compilers, Slots, Mains
<1>4. Published \in Int /\ Published <= MaxCompiles
  BY <1>1, <1>3 DEF CountInv, Requested, Published
<1>5. ~Updating
  <2>1. Updating => jit_cache.seq % 2 = 1
    BY <1>1, <1>3, Parity DEF SeqInv
  <2> QED BY <1>1, <1>2, <2>1
<1>6. Published = main.pubs
  <2> DEFINE n == Published - main.pubs
  <2>1. n \in Nat /\ 2 * n < SeqMod
    BY <1>2, <1>3, <1>4 DEF SeqWide
  <2>2. jit_cache.seq \in {jit_cache.seq + 2 * n, jit_cache.seq + 2 * n - SeqMod}
    BY <1>1, <1>2, <1>5 DEF BaseSeq, Ahead
  <2>3. n = 0
    BY <1>3, <2>1, <2>2
  <2> QED BY <1>3, <1>4, <2>3
<1>7. Untouched
  BY <1>5, <1>6 DEF Untouched
<1>8. ~HalfWritten
  BY <1>5 DEF HalfWritten, Updating, Writing
<1> QED BY <1>1, <1>2, <1>7, <1>8 DEF PairInv

LEMMA ReadAgainInv ==
  ASSUME Inv, SeqWide, ReadAgain
  PROVE  CountInv' /\ FuncInv' /\ SeqInv' /\ PairInv' /\ ReadInv'
<1>1. /\ main.at = "again"
      /\ UNCHANGED <<block, cached, t2c, engines, wait_queue, jit_cache>>
      /\ Published >= 1
  BY DEF ReadAgain, blockVars, fenceVars, Inv, CountInv
<1>2. CASE Accepts
  <2>1. inline_cache' = [inline_cache EXCEPT ![main.target] = main.func]
        /\ Call(main.func, main.target)
    BY <1>2 DEF ReadAgain
  <2>2. IsFunc(main.func, main.target)
    BY <1>1, <1>2, AcceptedIsFunc
  <2>3. main'.at = "run" /\ main'.func = main.func /\ main'.target = main.target
    BY <2>1 DEF Call, Looping
  <2>4. \A k \in Keys : inline_cache'[k] = inline_cache[k] \/ IsFunc(inline_cache'[k], k)
    BY <2>1, <2>2 DEF Inv, TypeOK
  <2>5. CountInv' /\ FuncInv' /\ SeqInv' /\ PairInv'
    BY <1>1, <2>3, <2>4, LookFrame
  <2>6. IsFunc(main.func, main.target)'
    BY <1>1, <2>2, <2>3 DEF IsFunc
  <2> QED BY <2>3, <2>5, <2>6 DEF ReadInv, Reading
<1>3. CASE ~Accepts
  <2>1. main'.at = "loop" /\ inline_cache' = inline_cache
    BY <1>3 DEF ReadAgain, Looping
  <2>2. CountInv' /\ FuncInv' /\ SeqInv' /\ PairInv'
    BY <1>1, <2>1, LookFrame
  <2> QED BY <2>1, <2>2 DEF ReadInv, Reading
<1> QED BY <1>2, <1>3

LEMMA FlushInv ==
  ASSUME Inv, NoFlushRace, FlushBegin \/ FlushStep
  PROVE  CountInv' /\ FuncInv' /\ SeqInv' /\ PairInv' /\ ReadInv'
<1>0. TypeOK /\ CountInv /\ SeqInv /\ PairInv /\ FlushSteps
  BY DEF Inv
<1>1. /\ UNCHANGED <<block, cached, t2c, engines, wait_queue>>
      /\ t2c.at # "publish" /\ ~Updating /\ ~Updating'
  BY <1>0 DEF FlushBegin, FlushStep, blockVars, fenceVars, NoFlushRace, Locked, SeqInv, Updating
<1>2. Requested' <= MaxCompiles
  BY <1>0, <1>1 DEF Requested, CountInv
<1>3. jit_cache.seq \in 0 .. SeqMod - 1 /\ main.seq \in 0 .. SeqMod - 1
  BY <1>0 DEF TypeOK, Slots, Mains
<1>4. CASE FlushBegin
  <2>1. main'.at = "flush" /\ main'.step = "odd" /\ main'.seq = jit_cache.seq
        /\ main.at = "loop" /\ UNCHANGED <<jit_cache, inline_cache>>
    BY <1>4 DEF FlushBegin, Looping, Stepped, NextStore
  <2>2. CountInv' /\ FuncInv' /\ PairInv'
    BY <1>1, <1>2, <2>1, MainFrame
  <2>3. jit_cache.seq % 2 = 0
    BY <1>0, <1>1, <2>1 DEF SeqInv, Clearing
  <2>4. SeqInv'
    BY <1>0, <1>1, <2>1, <2>3 DEF SeqInv, Clearing, Writing
  <2> QED BY <2>1, <2>2, <2>4 DEF ReadInv, Reading
<1>5. ASSUME FlushStep
      PROVE  /\ main.at = "flush" /\ main.step \in {"odd", "entry", "key", "even"}
             /\ jit_cache'.seq = IF main.step = "odd" THEN Plus(main.seq, 1)
                                 ELSE IF main.step = "even" THEN Plus(main.seq, 2)
                                 ELSE jit_cache.seq
             /\ jit_cache'.entry = IF main.step = "entry" THEN 0 ELSE jit_cache.entry
             /\ jit_cache'.key = IF main.step = "key" THEN 0 ELSE jit_cache.key
             /\ main.step \in {"key", "even"} => jit_cache.entry = 0
             /\ main.step \in Writing =>
                  main.seq % 2 = 0 /\ jit_cache.seq = Plus(main.seq, 1)
             /\ main.step = "odd" => main.seq = jit_cache.seq /\ jit_cache.seq % 2 = 0
  <2>1. main.at = "flush" /\ main.step \in {"odd", "entry", "key", "even"}
        /\ jit_cache' = Stored(main.step, main.seq, 0, 0)
    BY <1>0, <1>5 DEF FlushStep, FlushSteps
  <2>2. main.step \in {"key", "even"} => jit_cache.entry = 0
    BY <1>0, <2>1 DEF PairInv
  <2>3. /\ main.step \in Writing => main.seq % 2 = 0 /\ jit_cache.seq = Plus(main.seq, 1)
        /\ main.step = "odd" => main.seq = jit_cache.seq /\ jit_cache.seq % 2 = 0
    BY <1>0, <1>1, <2>1 DEF SeqInv, Clearing, Writing
  <2> QED BY <2>1, <2>2, <2>3 DEF Stored
<1>6. CASE FlushStep /\ main.step = "even"
  <2>1. main'.at = "loop" /\ jit_cache'.entry = 0 /\ jit_cache'.seq = Plus(main.seq, 2)
    BY <1>5, <1>6 DEF FlushStep, Looping
  <2>2. \A k \in Keys : inline_cache'[k] \in {0, inline_cache[k]}
    BY <1>6 DEF FlushStep, InlineWithout
  <2>3. CountInv' /\ FuncInv' /\ PairInv'
    BY <1>1, <1>2, <2>1, <2>2, MainFrame
  <2>4. jit_cache'.seq % 2 = 0
    BY <1>3, <1>5, <1>6, <2>1, Parity DEF Writing
  <2>5. SeqInv'
    BY <1>0, <1>1, <2>1, <2>4 DEF SeqInv, Clearing
  <2> QED BY <2>1, <2>3, <2>5 DEF ReadInv, Reading
<1>7. CASE FlushStep /\ main.step # "even"
  <2>1. main.step \in {"odd", "entry", "key"} /\ UNCHANGED inline_cache /\ main' = Stepped(main)
    BY <1>5, <1>7 DEF FlushStep
  <2>2. main'.at = "flush" /\ main'.step = NextStore[main.step] /\ main'.seq = main.seq
    BY <1>0, <1>5, <1>7, <2>1 DEF Stepped, TypeOK, Mains
  <2>3. /\ main.step = "odd" => main'.step = "entry"
        /\ main.step = "entry" => main'.step = "key"
        /\ main.step = "key" => main'.step = "even"
    BY <2>2 DEF NextStore
  <2>7. FuncInv' /\ CountInv'
    <3>1. FuncInv'
      BY <1>1 DEF Inv, FuncInv, IsFunc
    <3>2. CountInv'
      BY <1>0, <1>1, <1>2, <2>2 DEF CountInv, Published
    <3> QED BY <3>1, <3>2
  <2>8. PairInv'
    <3>1. ~HalfWritten /\ ~HalfWritten'
      BY <1>1 DEF HalfWritten
    <3>2. jit_cache'.entry # 0 => IsFunc(jit_cache.entry, jit_cache.key)'
      BY <1>0, <1>1, <1>5, <1>7, <3>1 DEF PairInv, IsFunc
    <3>3. main'.step \in {"key", "even"} => jit_cache'.entry = 0
      BY <1>5, <1>7, <2>1, <2>3
    <3>4. \A k \in Keys : inline_cache'[k] # 0 => IsFunc(inline_cache[k], k)'
      BY <1>0, <1>1, <2>1 DEF PairInv, IsFunc
    <3> QED BY <3>1, <3>2, <3>3, <3>4 DEF PairInv
  <2>9. SeqInv'
    <3>1. main'.step \in Writing
      BY <2>1, <2>3 DEF Writing
    <3>2. main'.seq % 2 = 0 /\ jit_cache'.seq = Plus(main'.seq, 1)
      BY <1>5, <1>7, <2>1, <2>2 DEF Writing
    <3> QED BY <1>0, <1>1, <2>2, <3>1, <3>2 DEF SeqInv, Clearing, Writing
  <2> QED BY <2>2, <2>7, <2>8, <2>9 DEF ReadInv, Reading
<1> QED BY <1>4, <1>6, <1>7

(* The compiler thread before it publishes.                                *)
LEMMA QuietFrame ==
  ASSUME Inv,
         UNCHANGED <<cached, engines, jit_cache, inline_cache, main>>,
         t2c.at # "publish", t2c'.at # "publish", t2c'.step = "load",
         Requested' <= MaxCompiles,
         \A b \in cached : block'[b].key = block[b].key /\ block'[b].func = block[b].func,
         \A b \in Blocks : block'[b].hot2 => block[b].hot2
  PROVE  CountInv' /\ FuncInv' /\ SeqInv' /\ PairInv' /\ ReadInv'
<1>1. Published' = Published
  BY DEF Published
<1>2. ~Updating /\ ~Updating' /\ ~HalfWritten /\ ~HalfWritten' /\ Clearing' = Clearing
  BY DEF Updating, HalfWritten, Clearing
<1>3. CountInv'
  BY <1>1 DEF Inv, CountInv
<1>4. FuncInv'
  BY DEF Inv, FuncInv, IsFunc
<1>5. SeqInv'
  BY <1>2 DEF Inv, SeqInv
<1>6. PairInv'
  BY <1>2 DEF Inv, PairInv, IsFunc
<1>7. BaseSeq' = BaseSeq /\ Untouched' = Untouched
  BY <1>1, <1>2 DEF BaseSeq, Untouched
<1>8. ReadInv'
  BY <1>1, <1>7 DEF Inv, ReadInv, Reading, IsFunc
<1> QED BY <1>3, <1>4, <1>5, <1>6, <1>8

LEMMA CompileInv ==
  ASSUME Inv, Dequeue \/ CompileBegin \/ CompileDiscard \/ CompileFails
  PROVE  CountInv' /\ FuncInv' /\ SeqInv' /\ PairInv' /\ ReadInv'
<1>0. /\ TypeOK /\ OwnedInv /\ CountInv /\ SeqInv
      /\ Len(wait_queue) \in Nat /\ Len(engines) \in Nat /\ MaxCompiles \in Nat
      /\ Requested <= MaxCompiles /\ cached \subseteq Blocks
  BY Tier2Assumption DEF Inv, TypeOK, CountInv
<1>1. CASE Dequeue
  <2>1. /\ t2c.at = "wait" /\ t2c'.at = "lookup" /\ t2c'.step = "load"
        /\ UNCHANGED <<cached, block, engines, jit_cache, inline_cache, main>>
    BY <1>1 DEF Dequeue, Idle, blockVars, fenceVars
  <2>2. Len(wait_queue') = Len(wait_queue) - 1
    BY <1>0, <1>1 DEF Dequeue, TypeOK
  <2>3. Requested' <= MaxCompiles
    BY <1>0, <2>1, <2>2 DEF Requested
  <2> QED BY <2>1, <2>3, QuietFrame
<1>2. CASE CompileBegin
  <2>0. /\ t2c.at = "lookup" /\ t2c.step = "load"
        /\ UNCHANGED <<cached, wait_queue, engines, jit_cache, inline_cache, main>>
    BY <1>0, <1>2 DEF CompileBegin, SeqInv
  <2>1. CASE t2c' = Idle /\ UNCHANGED block
    <3>1. t2c'.at = "wait" /\ t2c'.step = "load"
      BY <2>1 DEF Idle
    <3>2. Requested' <= MaxCompiles
      BY <1>0, <2>0, <3>1 DEF Requested
    <3> QED BY <2>0, <2>1, <3>1, <3>2, QuietFrame
  <2>2. ASSUME NEW b \in CachedAt(t2c.key),
               block' = [block EXCEPT ![b].is_compiling = TRUE],
               t2c' = [t2c EXCEPT !.at = "compile", !.blk = b,
                  !.code = {<<block[x].key, block[x].version>> : x \in Traced(b)}]
        PROVE  CountInv' /\ FuncInv' /\ SeqInv' /\ PairInv' /\ ReadInv'
    <3>1. t2c'.at = "compile" /\ t2c'.step = "load"
      BY <1>0, <2>0, <2>2 DEF TypeOK, Compilers
    <3>2. b \in Blocks
      BY <1>0 DEF CachedAt
    <3>3. ASSUME NEW x \in Blocks
          PROVE  block'[x].key = block[x].key /\ block'[x].func = block[x].func
                 /\ (block'[x].hot2 => block[x].hot2)
      <4>1. block[x] \in BlockFields /\ (\/ block'[x] = block[x]
                                         \/ block'[x] = [block[x] EXCEPT !.is_compiling = TRUE])
        BY <1>0, <2>2, <3>2 DEF TypeOK
      <4> QED BY <4>1 DEF BlockFields
    <3>4. Requested' <= MaxCompiles
      BY <1>0, <2>0, <3>1 DEF Requested
    <3> QED BY <1>0, <2>0, <3>1, <3>3, <3>4, QuietFrame
  <2> QED BY <1>2, <2>1, <2>2 DEF CompileBegin
<1>3. CASE CompileDiscard \/ CompileFails
  <2>1. /\ t2c.at = "compile" /\ t2c'.at = "wait" /\ t2c'.step = "load"
        /\ UNCHANGED <<cached, wait_queue, engines, jit_cache, inline_cache, main>>
    BY <1>3 DEF CompileDiscard, CompileFails, Idle
  <2>2. t2c.blk \in Blocks /\ (block[t2c.blk].should_free => t2c.blk \notin cached)
    BY <1>0, <2>1 DEF OwnedInv
  <2>3. \A x \in Blocks : \/ block'[x] = block[x]
                          \/ block'[x] = [block[x] EXCEPT !.is_compiling = FALSE]
                          \/ x \notin cached /\ block'[x] = Blank
    BY <1>0, <1>3, <2>2 DEF CompileDiscard, CompileFails, TypeOK
  <2>4. ASSUME NEW x \in Blocks
        PROVE  /\ x \in cached => block'[x].key = block[x].key /\ block'[x].func = block[x].func
               /\ block'[x].hot2 => block[x].hot2
    <3>1. block[x] \in BlockFields
      BY <1>0 DEF TypeOK
    <3>2. CASE block'[x] = block[x]
      BY <3>2
    <3>3. CASE block'[x] = [block[x] EXCEPT !.is_compiling = FALSE]
      BY <3>1, <3>3 DEF BlockFields
    <3>4. CASE x \notin cached /\ block'[x] = Blank
      BY <3>4 DEF Blank
    <3> QED BY <2>3, <3>2, <3>3, <3>4
  <2>5. Requested' <= MaxCompiles
    BY <1>0, <2>1 DEF Requested
  <2> QED BY <1>0, <2>1, <2>4, <2>5, QuietFrame
<1> QED BY <1>1, <1>2, <1>3

LEMMA CompileEndInv ==
  ASSUME Inv, NoFlushRace, CompileEnd
  PROVE  CountInv' /\ FuncInv' /\ SeqInv' /\ PairInv' /\ ReadInv'
<1> DEFINE b == t2c.blk
           n == Len(engines) + 1
<1>0. /\ TypeOK /\ OwnedInv /\ CountInv /\ FuncInv /\ SeqInv /\ PairInv /\ ReadInv
      /\ Len(wait_queue) \in Nat /\ Len(engines) \in Nat /\ MaxCompiles \in Nat
      /\ cached \subseteq Blocks
  BY Tier2Assumption DEF Inv, TypeOK
<1>1. /\ t2c.at = "compile" /\ main.at # "flush"
      /\ ~block[b].should_free /\ ~block[b].invalidated
      /\ UNCHANGED <<cached, wait_queue, jit_cache, inline_cache, main>>
      /\ engines' = Append(engines, [key |-> block[b].key, code |-> t2c.code, live |-> TRUE])
  BY DEF CompileEnd, Discards, NoFlushRace
<1>2. b \in cached /\ b \in Blocks /\ block[b].key \in Keys
  BY <1>0, <1>1 DEF OwnedInv
<1>3. t2c'.at = "publish" /\ t2c'.step = "load" /\ t2c'.blk = b
  BY <1>0, <1>1 DEF CompileEnd, TypeOK, Compilers, SeqInv
<1>4. /\ Len(engines') = n /\ \A i \in 1 .. Len(engines) : engines'[i] = engines[i]
      /\ engines'[n].live /\ engines'[n].key = block[b].key
  BY <1>0, <1>1 DEF TypeOK
<1>5. /\ \A x \in Blocks \ {b} : block'[x] = block[x]
      /\ block'[b].key = block[b].key /\ block'[b].func = n
      /\ block'[b].hot2 = block[b].hot2 /\ block'[b].invalidated = block[b].invalidated
  <2>1. /\ \A x \in Blocks \ {b} : block'[x] = block[x]
        /\ block'[b] = [block[b] EXCEPT !.is_compiling = FALSE, !.func = n]
    BY <1>0, <1>2 DEF CompileEnd, TypeOK
  <2>2. block[b] \in BlockFields
    BY <1>0, <1>2 DEF TypeOK
  <2> QED BY <2>1, <2>2 DEF BlockFields
<1>6. Published' = Published /\ Requested' = Requested
  BY <1>0, <1>1, <1>3, <1>4 DEF Published, Requested
<1>7. CountInv'
  BY <1>0, <1>1, <1>2, <1>5, <1>6 DEF CountInv
<1>8. ASSUME NEW f, NEW k, IsFunc(f, k)
      PROVE  f \in 1 .. Len(engines') /\ engines'[f] = engines[f] /\ f # n
  BY <1>0, <1>4, <1>8 DEF IsFunc
<1>9. FuncInv'
  <2>1. ASSUME NEW x \in cached, block'[x].func # 0
        PROVE  IsFunc(block[x].func, block[x].key)'
    <3>1. CASE x = b
      BY <1>0, <1>2, <1>4, <1>5, <3>1 DEF IsFunc
    <3>2. CASE x # b
      <4>1. block'[x] = block[x] /\ IsFunc(block[x].func, block[x].key)
        BY <1>0, <1>5, <2>1, <3>2 DEF FuncInv
      <4> QED BY <1>8, <4>1 DEF IsFunc
    <3> QED BY <3>1, <3>2
  <2>2. ASSUME NEW x \in cached, x # b, block[x].func # 0 PROVE block[x].func # n
    BY <1>0, <1>8, <2>2 DEF FuncInv
  <2>3. ASSUME NEW x \in cached, NEW y \in cached, block'[x].func # 0,
               block'[x].func = block'[y].func
        PROVE  x = y
    BY <1>0, <1>5, <2>2, <2>3 DEF FuncInv
  <2>4. block'[b].func # 0 /\ ~block'[b].invalidated
    BY <1>0, <1>1, <1>5
  <2> QED BY <1>1, <1>3, <2>1, <2>3, <2>4 DEF FuncInv
<1>10. ~Updating /\ ~Updating' /\ ~HalfWritten /\ ~HalfWritten' /\ ~Clearing /\ ~Clearing'
  BY <1>1, <1>3 DEF Updating, HalfWritten, Clearing, Writing
<1>11. SeqInv'
  BY <1>0, <1>1, <1>3, <1>10 DEF SeqInv
<1>12. PairInv'
  <2>1. jit_cache'.entry # 0 => IsFunc(jit_cache.entry, jit_cache.key)'
    BY <1>0, <1>1, <1>8, <1>10 DEF PairInv, IsFunc
  <2>2. \A k \in Keys : inline_cache'[k] # 0 => IsFunc(inline_cache[k], k)'
    BY <1>0, <1>1, <1>8 DEF PairInv, IsFunc
  <2> QED BY <1>1, <1>10, <2>1, <2>2 DEF PairInv
<1>13. ReadInv'
  <2>1. main.at = "run" => IsFunc(main.func, main.target)'
    BY <1>0, <1>1, <1>8 DEF ReadInv, IsFunc
  <2>2. BaseSeq' = BaseSeq /\ Untouched' = Untouched
    BY <1>1, <1>6, <1>10 DEF BaseSeq, Untouched
  <2> QED BY <1>0, <1>1, <1>6, <2>1, <2>2 DEF ReadInv, Reading
<1> QED BY <1>7, <1>9, <1>11, <1>12, <1>13

LEMMA AheadNext ==
  ASSUME NEW s \in 0 .. SeqMod - 1, NEW n \in Nat, NEW t \in Ahead(s, n),
         NEW u \in 0 .. SeqMod - 1, u \in {t + 2, t + 2 - SeqMod},
         2 * (n + 1) < SeqMod
  PROVE  u \in Ahead(s, n + 1)
  BY Tier2Assumption DEF Ahead

LEMMA PublishInv ==
  ASSUME Inv, SeqWide, Publish
  PROVE  CountInv' /\ FuncInv' /\ SeqInv' /\ PairInv' /\ ReadInv'
<1> DEFINE b == t2c.blk
<1>0. /\ TypeOK /\ OwnedInv /\ CountInv /\ FuncInv /\ SeqInv /\ PairInv /\ ReadInv
      /\ Len(wait_queue) \in Nat /\ Len(engines) \in Nat
      /\ MaxCompiles \in Nat /\ SeqMod \in Nat
      /\ cached \subseteq Blocks /\ jit_cache.seq \in 0 .. SeqMod - 1
      /\ t2c.seq \in 0 .. SeqMod - 1
  BY Tier2Assumption DEF Inv, TypeOK, Slots, Compilers
<1>1. /\ t2c.at = "publish" /\ main.at # "flush" /\ main'.at # "flush"
      /\ UNCHANGED <<cached, wait_queue, engines, inline_cache, main>>
      /\ b \in cached /\ b \in Blocks
  BY <1>0 DEF Publish, SeqInv, OwnedInv
<1>2. /\ IsFunc(block[b].func, block[b].key) /\ ~block[b].invalidated
      /\ block[b].func # 0
      /\ Len(engines) >= 1
  BY <1>0, <1>1 DEF FuncInv, IsFunc
<1>3. CASE t2c.step = "done"
  <2>1. t2c'.at = "wait" /\ t2c'.step = "load" /\ UNCHANGED jit_cache
    BY <1>3 DEF Publish, Idle
  <2>2. ASSUME NEW x \in Blocks
        PROVE  block'[x].key = block[x].key /\ block'[x].func = block[x].func
    <3>1. block[x] \in BlockFields /\ (\/ block'[x] = block[x]
                                       \/ block'[x] = [block[x] EXCEPT !.hot2 = TRUE])
      BY <1>0, <1>1, <1>3 DEF Publish, TypeOK
    <3> QED BY <3>1 DEF BlockFields
  <2>3. Published' = Published /\ Published >= 1 /\ Requested' = Requested
    BY <1>0, <1>1, <1>2, <1>3, <2>1 DEF Published, Requested
  <2>4. CountInv'
    BY <1>0, <1>1, <2>3 DEF CountInv
  <2>5. FuncInv'
    BY <1>0, <1>1, <2>1, <2>2 DEF FuncInv, IsFunc
  <2>6. ~Updating /\ ~Updating' /\ ~HalfWritten /\ ~HalfWritten' /\ ~Clearing /\ ~Clearing'
    BY <1>1, <1>3, <2>1 DEF Updating, HalfWritten, Clearing, Writing
  <2>7. SeqInv'
    BY <1>0, <1>1, <2>1, <2>6 DEF SeqInv
  <2>8. PairInv'
    BY <1>0, <1>1, <2>1, <2>6 DEF PairInv, IsFunc
  <2>9. BaseSeq' = BaseSeq /\ Untouched' = Untouched
    BY <1>1, <2>1, <2>3, <2>6 DEF BaseSeq, Untouched
  <2>10. ReadInv'
    BY <1>0, <1>1, <2>1, <2>3, <2>9 DEF ReadInv, Reading, IsFunc
  <2> QED BY <2>4, <2>5, <2>7, <2>8, <2>10
<1>4. CASE t2c.step # "done"
  <2>1. /\ jit_cache' = Stored(t2c.step, t2c.seq, block[b].key, block[b].func)
        /\ t2c' = Stepped(t2c) /\ UNCHANGED block
    BY <1>4 DEF Publish
  <2>2. /\ t2c'.at = "publish" /\ t2c'.step = NextStore[t2c.step] /\ t2c'.blk = b
        /\ t2c'.seq = IF t2c.step = "load" THEN jit_cache.seq ELSE t2c.seq
        /\ t2c.step \in Stores \ {"done"}
    BY <1>0, <1>1, <1>4, <2>1 DEF Stepped, TypeOK, Compilers
  <2>3. /\ t2c.step = "load" => t2c'.step = "odd"
        /\ t2c.step = "odd" => t2c'.step = "entry"
        /\ t2c.step = "entry" => t2c'.step = "key"
        /\ t2c.step = "key" => t2c'.step = "even"
        /\ t2c.step = "even" => t2c'.step = "done"
    BY <2>2 DEF NextStore
  <2>4. /\ jit_cache'.seq = IF t2c.step = "odd" THEN Plus(t2c.seq, 1)
                            ELSE IF t2c.step = "even" THEN Plus(t2c.seq, 2)
                            ELSE jit_cache.seq
        /\ jit_cache'.entry = IF t2c.step = "entry" THEN block[b].func ELSE jit_cache.entry
        /\ jit_cache'.key = IF t2c.step = "key" THEN block[b].key ELSE jit_cache.key
    BY <2>1 DEF Stored
  <2>5. t2c.step \in {"load", "odd", "entry", "key", "even"}
    BY <2>2 DEF Stores
  <2>6. Published' = (IF t2c.step = "even" THEN Published + 1 ELSE Published)
        /\ Published \in Int /\ Published' <= MaxCompiles /\ Requested' = Requested
    <3>1. Published = Len(engines) - 1 /\ Len(engines) <= MaxCompiles
      BY <1>0, <1>1, <1>4 DEF Published, Requested, CountInv
    <3>2. Published' = IF t2c'.step = "done" THEN Len(engines) ELSE Len(engines) - 1
      <4>1. CASE t2c'.step = "done"
        BY <1>0, <1>1, <2>2, <4>1 DEF Published
      <4>2. CASE t2c'.step # "done"
        BY <1>0, <1>1, <2>2, <4>2 DEF Published
      <4> QED BY <4>1, <4>2
    <3>3. Requested' = Requested
      BY <1>0, <1>1, <2>2 DEF Requested
    <3> QED BY <1>0, <2>3, <2>5, <3>1, <3>2, <3>3
  <2>7. CountInv'
    BY <1>0, <1>1, <2>1, <2>6 DEF CountInv
  <2>8. FuncInv'
    BY <1>0, <1>1, <2>1, <2>2 DEF FuncInv, IsFunc
  <2>9. ~Clearing /\ ~Clearing'
        /\ (Updating <=> t2c.step \in Writing) /\ (Updating' <=> t2c'.step \in Writing)
    BY <1>1, <2>2 DEF Clearing, Updating
  <2>10. t2c.step \in {"load", "odd"} => jit_cache.seq % 2 = 0
    BY <1>0, <2>9 DEF SeqInv, Writing
  <2>11. SeqInv'
    <3>1. t2c'.step \in {"odd", "done"} => jit_cache'.seq % 2 = 0
      BY <1>0, <1>1, <2>3, <2>4, <2>5, <2>9, <2>10, Parity DEF SeqInv, Writing
    <3>2. t2c'.step = "odd" => t2c'.seq = jit_cache'.seq
      BY <2>2, <2>3, <2>4, <2>5
    <3>3. t2c'.step \in Writing => t2c'.seq % 2 = 0 /\ jit_cache'.seq = Plus(t2c'.seq, 1)
      BY <1>0, <1>1, <2>2, <2>3, <2>4, <2>5, <2>9, <2>10 DEF SeqInv, Writing
    <3>4. t2c'.step \in {"odd", "entry", "key", "even", "done"}
      BY <2>3, <2>5
    <3> QED BY <1>1, <2>2, <2>9, <3>1, <3>2, <3>3, <3>4 DEF SeqInv, Writing
  <2>12. PairInv'
    <3>1. (HalfWritten <=> t2c.step = "key") /\ (HalfWritten' <=> t2c'.step = "key")
      BY <1>1, <2>2 DEF HalfWritten
    <3>2. HalfWritten' => jit_cache'.entry = block[b].func
      BY <2>3, <2>4, <2>5, <3>1
    <3>3. ~HalfWritten' /\ jit_cache'.entry # 0 => IsFunc(jit_cache'.entry, jit_cache'.key)
      BY <1>0, <1>2, <2>3, <2>4, <2>5, <3>1 DEF PairInv
    <3>4. ~HalfWritten' /\ jit_cache'.entry # 0 => IsFunc(jit_cache.entry, jit_cache.key)'
      BY <1>1, <3>3 DEF IsFunc
    <3>5. \A k \in Keys : inline_cache'[k] # 0 => IsFunc(inline_cache[k], k)'
      BY <1>0, <1>1 DEF PairInv, IsFunc
    <3> QED BY <1>1, <2>1, <2>2, <3>2, <3>4, <3>5 DEF PairInv
  <2>13. ReadInv'
    <3>1. main.at = "run" => IsFunc(main.func, main.target)'
      BY <1>0, <1>1 DEF ReadInv, IsFunc
    <3>2. ASSUME Reading
          PROVE  /\ main.pubs \in 1 .. Published'
                 /\ BaseSeq' \in Ahead(main.seq, Published' - main.pubs)
                 /\ Untouched' => Untouched /\ jit_cache'.key = jit_cache.key
                                  /\ jit_cache'.entry = jit_cache.entry
      <4>0. /\ main.pubs \in 1 .. Published
            /\ BaseSeq \in Ahead(main.seq, Published - main.pubs)
            /\ main.seq \in 0 .. SeqMod - 1 /\ main.pubs \in Int
        BY <1>0, <3>2 DEF ReadInv, TypeOK, Mains
      <4>1. main.pubs \in 1 .. Published'
        BY <2>6, <4>0
      <4>2. CASE t2c.step # "even"
        <5>1. BaseSeq' = BaseSeq
          BY <1>0, <1>1, <2>2, <2>3, <2>4, <2>5, <2>9, <4>2 DEF BaseSeq, SeqInv, Writing
        <5>2. Untouched' => Untouched /\ t2c.step = "load"
          BY <1>1, <2>3, <2>5, <2>6, <2>9, <4>2 DEF Untouched, Writing
        <5> QED BY <2>4, <2>6, <4>0, <4>1, <4>2, <5>1, <5>2
      <4>3. CASE t2c.step = "even"
        <5>1. /\ BaseSeq = t2c.seq /\ BaseSeq' = jit_cache'.seq
              /\ jit_cache'.seq \in {t2c.seq + 2, t2c.seq + 2 - SeqMod}
              /\ jit_cache'.seq \in 0 .. SeqMod - 1
          <6>1. t2c.seq % 2 = 0 /\ t2c'.step = "done"
            BY <1>0, <2>3, <2>9, <4>3 DEF SeqInv, Writing
          <6>2. jit_cache'.seq = Plus(t2c.seq, 2)
            BY <2>4, <4>3
          <6>3. Updating /\ ~Updating'
            BY <2>9, <4>3, <6>1 DEF Writing
          <6>4. Plus(t2c.seq, 2) \in {t2c.seq + 2, t2c.seq + 2 - SeqMod}
            BY <1>0, <6>1, Parity
          <6>5. Plus(t2c.seq, 2) \in 0 .. SeqMod - 1
            <7>1. t2c.seq \in Nat
              BY <1>0
            <7> QED BY <7>1, PlusType
          <6> QED BY <6>2, <6>3, <6>4, <6>5 DEF BaseSeq
        <5>2. 2 * (Published' - main.pubs) < SeqMod
          BY <1>0, <2>6, <4>0, <4>1 DEF SeqWide
        <5>3. BaseSeq' \in Ahead(main.seq, Published' - main.pubs)
          <6>0. Published' = Published + 1 /\ Published \in Int
            BY <2>6, <4>3
          <6>1. Published - main.pubs \in Nat
                /\ Published' - main.pubs = (Published - main.pubs) + 1
            BY <4>0, <6>0
          <6> QED BY <4>0, <5>1, <5>2, <6>1, AheadNext
        <5>4. ~Untouched'
          BY <1>1, <2>6, <4>0, <4>3 DEF Untouched
        <5> QED BY <4>1, <5>3, <5>4
      <4> QED BY <4>2, <4>3
    <3> QED BY <1>0, <1>1, <3>1, <3>2 DEF ReadInv, Reading
  <2> QED BY <2>7, <2>8, <2>11, <2>12, <2>13
<1> QED BY <1>3, <1>4

LEMMA StepInv ==
  ASSUME Inv, NoFlushRace, SeqWide, [Next]_vars
  PROVE  Inv'
<1>1. TypeOK' /\ OwnedInv' /\ FlushSteps'
  BY StepType, StepOwned, StepFlush DEF Inv
<1>2. CASE Main
  <2>1. ASSUME NEW k \in Keys, NEW b \in Blocks, NEW old \in SUBSET cached,
               NEW interp \in BOOLEAN, Translate(k, b, old, interp)
        PROVE  Inv'
    BY <1>1, <2>1, TranslateInv DEF Inv
  <2>2. ASSUME NEW k \in Keys, NEW asks \in BOOLEAN, NEW interp \in BOOLEAN,
               Interpret(k, asks, interp)
        PROVE  Inv'
    BY <1>1, <2>2, InterpretInv DEF Inv
  <2>3. ASSUME NEW k \in Keys, RunTier2(k) PROVE Inv'
    BY <1>1, <2>3, RunInv DEF Inv
  <2>4. ASSUME NEW k \in Keys, Jump(k) PROVE Inv'
    BY <1>1, <2>4, JumpInv DEF Inv
  <2>5. CASE Return \/ ReadKey \/ ReadEntry
    BY <1>1, <2>5, ReadKeyInv DEF Inv
  <2>6. CASE ReadAgain
    BY <1>1, <2>6, ReadAgainInv DEF Inv
  <2>7. CASE \/ \E p \in Pages : SfencePage(p)
            \/ \E changed \in SUBSET Pages : FenceAll(changed)
    BY <1>1, <2>7, FenceInv DEF Inv
  <2>8. CASE FlushBegin \/ FlushStep
    BY <1>1, <2>8, FlushInv DEF Inv
  <2>9. ASSUME NEW k \in Keys, NEW b \in Blocks, TranslateFails(k, b) PROVE Inv'
    BY <1>1, <2>9, TranslateFailsInv DEF Inv
  <2>10. MainSteps
    BY <1>2, MainCases DEF Inv
  <2> QED BY <2>1, <2>2, <2>3, <2>4, <2>5, <2>6, <2>7, <2>8, <2>9, <2>10 DEF MainSteps
<1>3. CASE Compiler
  <2>1. CASE Dequeue \/ CompileBegin \/ CompileDiscard \/ CompileFails
    BY <1>1, <2>1, CompileInv DEF Inv
  <2>2. CASE CompileEnd
    BY <1>1, <2>2, CompileEndInv DEF Inv
  <2>3. CASE Publish
    BY <1>1, <2>3, PublishInv DEF Inv
  <2> QED BY <1>3, <2>1, <2>2, <2>3 DEF Compiler
<1>4. CASE UNCHANGED vars
  BY <1>1, <1>4 DEF vars, blockVars, fenceVars, Inv, CountInv, Requested, Published, FuncInv, IsFunc,
    SeqInv, Updating, Clearing, PairInv, HalfWritten, ReadInv, Reading, BaseSeq, Untouched
<1> QED BY <1>2, <1>3, <1>4 DEF Next

(* The functions that run are live and belong to the block asked for.      *)
LEMMA InvIsSafe == Inv => LiveCode /\ JumpLands
  BY DEF Inv, ReadInv, IsFunc, LiveCode, JumpLands

(* When no flush overlaps a publication, and the slot's sequence number    *)
(* (32 bits in jit_cache) is too wide to come round inside one read, code  *)
(* that runs through hot2, the jit_cache or the inline cache belongs to an *)
(* engine that no eviction has disposed of - for any pool, any capacity    *)
(* and whatever block the cache chooses to evict.                          *)
THEOREM Tier2LiveCode ==
  ASSUME NoFlushRace, SeqWide PROVE Spec => []LiveCode
<1>1. Inv /\ [Next]_vars => Inv'
  BY StepInv
<1> QED BY <1>1, InitInv, InvIsSafe, PTL DEF Spec

(* Under the same hypotheses it is the function of the block asked for:    *)
(* the odd and even sequence numbers of jit_cache_update are enough for a  *)
(* reader that takes no lock to see matching pairs of key and entry.       *)
THEOREM Tier2JumpLands ==
  ASSUME NoFlushRace, SeqWide PROVE Spec => []JumpLands
<1>1. Inv /\ [Next]_vars => Inv'
  BY StepInv
<1> QED BY <1>1, InitInv, InvIsSafe, PTL DEF Spec

----------------------------------------------------------------------------
(* The code that runs is fresh.                                            *)

LEMMA InitFresh == Init => FreshInv
<1> SUFFICES ASSUME Init PROVE FreshInv
  OBVIOUS
<1>1. cached = {} /\ recent = {} /\ main.at = "loop" /\ t2c.at = "wait"
      /\ jit_cache.entry = 0 /\ \A k \in Keys : inline_cache[k] = 0
  BY DEF Init, Looping, Idle
<1>2. \A p \in Pages : version[p] >= floor[p]
  BY DEF Init
<1> QED BY <1>1, <1>2 DEF FreshInv, BlocksFresh, SameBlocks, ValidBlocks, RecentBlocks, Links,
  CompileFresh, FuncsFresh, CachesFresh

(* Steps that leave the blocks' code, the functions and the map alone.     *)
LEMMA BlocksFrame ==
  ASSUME BlocksFresh,
         UNCHANGED <<version, floor, recent, cached, chain>>,
         \A b \in cached : /\ block'[b].key = block[b].key
                           /\ block'[b].version = block[b].version
                           /\ block'[b].invalidated <=> block[b].invalidated
  PROVE  BlocksFresh'
<1>1. SameBlocks' /\ ValidBlocks'
  BY DEF BlocksFresh, SameBlocks, ValidBlocks
<1>2. RecentBlocks'
  BY DEF BlocksFresh, RecentBlocks
<1>3. Links'
  BY DEF BlocksFresh, Links
<1> QED BY <1>1, <1>2, <1>3 DEF BlocksFresh

LEMMA CodeFrame ==
  ASSUME Inv, CompileFresh, FuncsFresh,
         UNCHANGED <<version, floor, cached, engines, t2c>>,
         \A b \in Blocks : /\ block'[b].key = block[b].key
                           /\ block'[b].func = block[b].func
                           /\ block'[b].should_free <=> block[b].should_free
                           /\ block'[b].invalidated <=> block[b].invalidated
  PROVE  CompileFresh' /\ FuncsFresh'
<1>1. cached \subseteq Blocks /\ (t2c.at = "compile" => t2c.blk \in Blocks)
  BY DEF Inv, TypeOK, OwnedInv
<1>2. CompileFresh'
  BY <1>1 DEF CompileFresh, Discards
<1>4. FuncsFresh'
  BY <1>1 DEF FuncsFresh
<1> QED BY <1>2, <1>4

(* The chaining of rv_step.                                                *)
LEMMA LinkFresh ==
  ASSUME Inv, BlocksFresh, NEW k \in Keys, Found(k) # {},
         UNCHANGED <<version, floor, recent, cached>>, chain' = Linked(chain, prev, k),
         \A b \in cached : /\ block'[b].key = block[b].key
                           /\ block'[b].version = block[b].version
                           /\ block'[b].invalidated <=> block[b].invalidated
  PROVE  BlocksFresh'
<1>1. \A x \in cached : block[x].key = k => ~block[x].invalidated /\ x \in recent
  <2>1. PICK y \in cached : block[y].key = k /\ ~block[y].invalidated
    BY DEF Found, CachedAt
  <2>2. \A x \in cached : block[x].key = k => x = y
    BY <2>1 DEF BlocksFresh, SameBlocks
  <2>3. y \in recent
    BY <2>1 DEF BlocksFresh, ValidBlocks
  <2> QED BY <2>1, <2>2, <2>3
<1>2. SameBlocks' /\ ValidBlocks'
  BY DEF BlocksFresh, SameBlocks, ValidBlocks
<1>3. RecentBlocks'
  BY DEF BlocksFresh, RecentBlocks
<1>4. \A b \in cached : \A j \in chain'[b] : j \in chain[b] \/ j = k
  <2>1. chain \in [Blocks -> SUBSET Keys] /\ cached \subseteq Blocks
    BY DEF Inv, TypeOK
  <2>2. chain' = chain \/ (prev \in Blocks /\ chain' = [chain EXCEPT ![prev] = @ \cup {k}])
    BY DEF Linked, Inv, TypeOK
  <2> QED BY <2>1, <2>2
<1>5. Links'
  <2> SUFFICES ASSUME NEW b \in cached, NEW j \in chain'[b], NEW x \in cached,
                      block[x].key = j
               PROVE  /\ ~block[b].invalidated /\ PageOf[j] = PageOf[block[b].key] =>
                           ~block[x].invalidated
                      /\ b \in recent => x \in recent
    BY DEF Links
  <2>1. CASE j \in chain[b]
    BY <2>1 DEF BlocksFresh, Links
  <2>2. CASE j = k
    BY <1>1, <2>2
  <2> QED BY <1>4, <2>1, <2>2
<1> QED BY <1>2, <1>3, <1>5 DEF BlocksFresh

LEMMA InterpretFresh ==
  ASSUME Inv, FreshInv, NEW k \in Keys, NEW asks \in BOOLEAN,
         NEW interp \in BOOLEAN, Interpret(k, asks, interp)
  PROVE  FreshInv'
<1>1. PICK b \in Found(k) :
        block' = IF asks THEN [block EXCEPT ![b].compiled = TRUE] ELSE block
  BY DEF Interpret
<1>2. b \in Blocks /\ cached \subseteq Blocks
  BY DEF Found, CachedAt, Inv, TypeOK
<1>3. /\ main' = main
      /\ UNCHANGED <<version, floor, recent, cached, t2c, engines, jit_cache, inline_cache>>
      /\ chain' = Linked(chain, prev, k)
  BY DEF Interpret, fenceVars
<1>4. ASSUME NEW x \in Blocks
      PROVE  /\ block'[x].key = block[x].key
             /\ block'[x].func = block[x].func
             /\ block'[x].version = block[x].version
             /\ block'[x].should_free <=> block[x].should_free
             /\ block'[x].invalidated <=> block[x].invalidated
  <2>1. block[x] \in BlockFields /\ (\/ block'[x] = block[x]
                                     \/ block'[x] = [block[x] EXCEPT !.compiled = TRUE])
    BY <1>1, <1>2 DEF TypeOK, Inv
  <2> QED BY <2>1 DEF BlockFields
<1>5. BlocksFresh'
  BY <1>1, <1>2, <1>3, <1>4, LinkFresh DEF FreshInv
<1>6. CompileFresh' /\ FuncsFresh'
  BY <1>3, <1>4, CodeFrame DEF FreshInv
<1>7. CachesFresh'
  BY <1>3 DEF FreshInv, CachesFresh
<1> QED BY <1>5, <1>6, <1>7 DEF FreshInv

LEMMA RunFresh ==
  ASSUME Inv, FreshInv, NEW k \in Keys, RunTier2(k)
  PROVE  FreshInv'
<1>1. PICK b \in Found(k) : block[b].func # 0 /\ Call(block[b].func, k)
  BY DEF RunTier2
<1>2. /\ UNCHANGED <<version, floor, recent, block, cached, t2c, engines, jit_cache,
                     inline_cache>>
      /\ chain' = Linked(chain, prev, k)
  BY DEF RunTier2, fenceVars
<1>3. main'.at = "run" /\ main'.func = block[b].func
  BY <1>1 DEF Call, Looping
<1>4. BlocksFresh'
  BY <1>1, <1>2, LinkFresh DEF FreshInv
<1>5. CompileFresh' /\ FuncsFresh'
  BY <1>2, CodeFrame DEF FreshInv
<1>6. FreshFunc(version, floor, engines[block[b].func])
  BY <1>1 DEF FreshInv, FuncsFresh, Found, CachedAt
<1>7. CachesFresh'
  BY <1>2, <1>3, <1>6 DEF FreshInv, CachesFresh
<1> QED BY <1>4, <1>5, <1>7 DEF FreshInv

LEMMA LookFresh ==
  ASSUME Inv, FreshInv, SeqWide,
         \/ \E k \in Keys : Jump(k)
         \/ Return \/ ReadKey \/ ReadEntry \/ ReadAgain \/ FlushBegin \/ FlushStep
  PROVE  FreshInv'
<1>1. UNCHANGED <<version, floor, recent, block, cached, chain, t2c, engines>>
  BY DEF Jump, Return, ReadKey, ReadEntry, ReadAgain, FlushBegin, FlushStep, blockVars, fenceVars
<1>2. BlocksFresh' /\ CompileFresh' /\ FuncsFresh'
  BY <1>1, BlocksFrame, CodeFrame DEF FreshInv
<1>3. jit_cache'.entry \in {0, jit_cache.entry}
  <2>1. \/ jit_cache' = jit_cache
        \/ jit_cache' = Stored(main.step, main.seq, 0, 0)
    BY DEF Jump, Return, ReadKey, ReadEntry, ReadAgain, FlushBegin, FlushStep
  <2> QED BY <2>1 DEF Stored
<1>4. ASSUME NEW k \in Keys, inline_cache'[k] # 0
      PROVE  FreshFunc(version, floor, engines[inline_cache'[k]])
  <2>1. \/ inline_cache'[k] \in {0, inline_cache[k]}
        \/ ReadAgain /\ Accepts /\ inline_cache'[k] = main.func
    BY DEF Jump, Return, ReadKey, ReadEntry, ReadAgain, FlushBegin, FlushStep, InlineWithout,
      Inv, TypeOK
  <2>2. CASE inline_cache'[k] = inline_cache[k]
    BY <1>4, <2>2 DEF FreshInv, CachesFresh
  <2>3. CASE ReadAgain /\ Accepts /\ inline_cache'[k] = main.func
    <3>1. main.func = jit_cache.entry /\ main.func # 0
      BY <2>3, AcceptedIsFunc DEF ReadAgain, Accepts
    <3> QED BY <2>3, <3>1 DEF FreshInv, CachesFresh
  <2> QED BY <1>4, <2>1, <2>2, <2>3
<1>5. ASSUME main'.at = "run" PROVE FreshFunc(version, floor, engines[main'.func])
  <2>1. \/ \E k \in Keys : inline_cache[k] # 0 /\ Call(inline_cache[k], k)
        \/ ReadAgain /\ Accepts /\ Call(main.func, main.target)
    <3>1. main \in Mains /\ Looping.at = "loop"
      BY DEF Inv, TypeOK, Looping
    <3>2. CASE \E k \in Keys : Jump(k)
      <4>1. PICK k \in Keys : Jump(k)
        BY <3>2
      <4>2. inline_cache[k] # 0
        <5>1. inline_cache[k] = 0 =>
                \/ main' = Looping
                \/ main' = [Looping EXCEPT !.at = "key", !.target = k, !.seq = jit_cache.seq,
                                           !.pubs = Published]
          BY <4>1 DEF Jump
        <5>2. main' # Looping
          BY <1>5, <3>1
        <5>3. main' # [Looping EXCEPT !.at = "key", !.target = k, !.seq = jit_cache.seq,
                                      !.pubs = Published]
          BY <1>5 DEF Looping
        <5> QED BY <5>1, <5>2, <5>3
      <4> QED BY <4>1, <4>2 DEF Jump
    <3>3. ~(Return \/ ReadKey \/ ReadEntry)
      BY <1>5, <3>1 DEF Return, ReadKey, ReadEntry, Mains
    <3>4. ~FlushBegin /\ ~FlushStep
      <4>1. Stepped(main).at = main.at /\ Stepped([Looping EXCEPT !.at = "flush"]).at = "flush"
        BY <3>1 DEF Stepped, Looping, Mains
      <4> QED BY <1>5, <3>1, <4>1 DEF FlushBegin, FlushStep
    <3>5. CASE ReadAgain
      BY <1>5, <3>1, <3>5 DEF ReadAgain
    <3> QED BY <3>2, <3>3, <3>4, <3>5
  <2>2. CASE \E k \in Keys : inline_cache[k] # 0 /\ Call(inline_cache[k], k)
    <3>1. PICK k \in Keys : inline_cache[k] # 0 /\ Call(inline_cache[k], k)
      BY <2>2
    <3>2. main'.func = inline_cache[k]
      BY <3>1 DEF Call, Looping
    <3> QED BY <3>1, <3>2 DEF FreshInv, CachesFresh
  <2>3. CASE ReadAgain /\ Accepts /\ Call(main.func, main.target)
    <3>1. main.func = jit_cache.entry /\ main.func # 0
      BY <2>3, AcceptedIsFunc DEF ReadAgain, Accepts
    <3>2. main'.func = main.func
      BY <2>3 DEF Call, Looping
    <3> QED BY <3>1, <3>2 DEF FreshInv, CachesFresh
  <2> QED BY <2>1, <2>2, <2>3
<1>6. CachesFresh'
  BY <1>1, <1>3, <1>4, <1>5 DEF FreshInv, CachesFresh
<1> QED BY <1>2, <1>6 DEF FreshInv

LEMMA TranslateFailsFresh ==
  ASSUME Inv, FreshInv, NEW k \in Keys, NEW b \in Blocks, TranslateFails(k, b)
  PROVE  FreshInv'
<1>1. UNCHANGED <<version, floor, recent, block, cached, chain, t2c, engines, jit_cache,
                  inline_cache, main>>
  BY DEF TranslateFails, fenceVars
<1>2. BlocksFresh' /\ CompileFresh' /\ FuncsFresh'
  BY <1>1, BlocksFrame, CodeFrame DEF FreshInv
<1>3. CachesFresh'
  BY <1>1 DEF FreshInv, CachesFresh
<1> QED BY <1>2, <1>3 DEF FreshInv

LEMMA TranslateFresh ==
  ASSUME Inv, Inv', FreshInv, NEW k \in Keys, NEW b \in Blocks,
         NEW old \in SUBSET cached, NEW interp \in BOOLEAN, Translate(k, b, old, interp)
  PROVE  FreshInv'
<1> DEFINE gone == {block[o].key : o \in old}
           freed == {o \in old : FreesAtOnce(o)}
           kept == IF prev \in old THEN NoBlock ELSE prev
           links == [x \in Blocks |-> IF x \in freed \cup {b} THEN {} ELSE chain[x] \ gone]
           fs == {block[o].func : o \in freed}
<1>0. /\ TypeOK /\ b \notin cached /\ b \notin old /\ cached \subseteq Blocks
      /\ cached' = (cached \ old) \cup {b} /\ recent' = (recent \ old) \cup {b}
      /\ UNCHANGED <<version, floor, t2c, main>> /\ main.at = "loop" /\ t2c.at # "publish"
      /\ engines' = Disposed(fs) /\ chain' = Linked(links, kept, k)
      /\ Found(k) = {} /\ old \in Replaced(k)
  BY DEF Translate, OwnedInv, Inv, TypeOK, Locked
<1>1. /\ block'[b] = Fresh(k)
      /\ \A x \in Blocks \ (old \cup {b}) : block'[x] = block[x]
  BY DEF Translate
<1>2. block'[b].key = k /\ ~block'[b].invalidated /\ block'[b].func = 0
      /\ block'[b].version = version[PageOf[k]]
  BY <1>1 DEF Fresh
<1>3. \A x \in cached \ old : block'[x] = block[x] /\ x \in Blocks /\ x # b
  BY <1>0, <1>1
<1>4. \A x \in cached \ old : block[x].key # k
  BY <1>0 DEF Replaced, CachedAt
<1>5. \A x \in cached' : x = b \/ x \in cached \ old
  BY <1>0
<1>6. BlocksFresh'
  <2>1. SameBlocks'
    BY <1>2, <1>3, <1>4, <1>5 DEF FreshInv, BlocksFresh, SameBlocks
  <2>2. ValidBlocks'
    BY <1>0, <1>2, <1>3, <1>5 DEF FreshInv, BlocksFresh, ValidBlocks
  <2>3. RecentBlocks'
    <3>1. recent \subseteq cached /\ PageOf[k] \in Pages
      BY Tier2Assumption DEF FreshInv, BlocksFresh, RecentBlocks
    <3>2. \A x \in recent' : block'[x].version >= floor[PageOf[block'[x].key]]
      BY <1>0, <1>2, <1>3, <3>1 DEF FreshInv, BlocksFresh, RecentBlocks
    <3>3. recent' \subseteq cached'
      BY <1>0, <3>1
    <3> QED BY <1>0, <3>2, <3>3 DEF FreshInv, BlocksFresh, RecentBlocks
  <2>4. ASSUME NEW x \in cached', NEW j \in chain'[x]
        PROVE  x = b \/ j \in chain[x] \/ j = k
    <3>1. links \in [Blocks -> SUBSET Keys] /\ x \in Blocks
      BY <1>0 DEF TypeOK
    <3>2. chain' = links \/ chain' = [links EXCEPT ![kept] = @ \cup {k}]
      BY <1>0 DEF Linked
    <3>3. j \in links[x] \/ j = k
      <4> HIDE DEF links, kept
      <4>1. chain'[x] \subseteq links[x] \cup {k}
        BY <3>1, <3>2
      <4> QED BY <2>4, <4>1
    <3> QED BY <1>0, <1>5, <3>1, <3>3
  <2>5. chain'[b] = {}
    <3>1. links[b] = {} /\ links \in [Blocks -> SUBSET Keys] /\ kept # b
      <4>1. prev # b
        BY <1>0, Tier2Assumption DEF Inv, OwnedInv
      <4>2. kept # b
        BY <4>1, Tier2Assumption
      <4> QED BY <1>0, <4>2 DEF TypeOK
    <3>2. chain' = links \/ chain' = [links EXCEPT ![kept] = @ \cup {k}]
      BY <1>0 DEF Linked
    <3> QED BY <3>1, <3>2
  <2>6. Links'
    <3> SUFFICES ASSUME NEW y \in cached', NEW j \in chain'[y], NEW x \in cached',
                        block'[x].key = j
                 PROVE  /\ ~block'[y].invalidated /\ PageOf[j] = PageOf[block'[y].key] =>
                             ~block'[x].invalidated
                        /\ y \in recent' => x \in recent'
      BY DEF Links
    <3>1. y # b /\ y \in cached \ old /\ block'[y] = block[y]
      BY <1>3, <1>5, <2>5
    <3>2. CASE x = b
      BY <1>0, <1>2, <3>2
    <3>3. CASE x # b
      <4>1. x \in cached \ old /\ block'[x] = block[x] /\ j # k /\ j \in chain[y]
        BY <1>3, <1>4, <1>5, <2>4, <3>1, <3>3
      <4>2. /\ ~block[y].invalidated /\ PageOf[j] = PageOf[block[y].key] =>
                 ~block[x].invalidated
            /\ y \in recent => x \in recent
        BY <3>1, <4>1 DEF FreshInv, BlocksFresh, Links
      <4> QED BY <1>0, <3>1, <4>1, <4>2
    <3> QED BY <3>2, <3>3
  <2> QED BY <2>1, <2>2, <2>3, <2>6 DEF BlocksFresh
<1>7. CompileFresh'
  <2>1. ASSUME t2c.at = "compile", ~block'[t2c.blk].should_free, ~block'[t2c.blk].invalidated
        PROVE  FreshAt(version, floor, t2c.code, block'[t2c.blk].key)
    <3>1. t2c.blk \in Blocks /\ t2c.blk # b /\ block[t2c.blk].is_compiling
      BY <2>1 DEF Inv, OwnedInv, Translate
    <3>2. t2c.blk \notin old
      <4>1. t2c.blk \in old => block'[t2c.blk] = [block[t2c.blk] EXCEPT !.should_free = TRUE]
        BY <3>1 DEF Translate, FreesAtOnce
      <4>2. block[t2c.blk] \in BlockFields
        BY <1>0, <3>1 DEF TypeOK
      <4> QED BY <2>1, <4>1, <4>2 DEF BlockFields
    <3>3. block'[t2c.blk] = block[t2c.blk]
      BY <1>1, <3>1, <3>2
    <3> QED BY <2>1, <3>3 DEF FreshInv, CompileFresh, Discards
  <2> QED BY <1>0, <2>1 DEF CompileFresh, Discards
<1>8. Len(engines') = Len(engines) /\ Len(engines) \in Nat
  BY <1>0, DisposedType DEF TypeOK
<1>9. ASSUME NEW f, NEW j, IsFunc(f, j)' PROVE engines'[f] = engines[f]
  <2>1. f \in 1 .. Len(engines) /\ engines'[f].live
    BY <1>8, <1>9 DEF IsFunc
  <2> QED BY <1>0, <2>1 DEF Disposed, Gone
<1>10. FuncsFresh'
  <2> SUFFICES ASSUME NEW x \in cached', ~block'[x].invalidated, block'[x].func # 0
               PROVE  FreshFunc(version, floor, engines'[block'[x].func])
    BY <1>0 DEF FuncsFresh
  <2>1. x \in cached \ old /\ block'[x] = block[x]
    BY <1>2, <1>3, <1>5
  <2>2. engines'[block'[x].func] = engines[block'[x].func]
    <3>1. IsFunc(block[x].func, block[x].key)'
      BY DEF Inv, FuncInv
    <3> QED BY <1>8, <3>1, <1>0 DEF IsFunc, Disposed, Gone
  <2> QED BY <2>1, <2>2 DEF FreshInv, FuncsFresh
<1>11. CachesFresh'
  <2>1. ASSUME jit_cache'.entry # 0
        PROVE  FreshFunc(version, floor, engines'[jit_cache'.entry])
    <3>1. jit_cache' = jit_cache
      BY <2>1 DEF Translate, Slot
    <3>2. ~HalfWritten'
      BY <1>0 DEF HalfWritten
    <3>3. jit_cache'.entry \in 1 .. Len(engines) /\ engines'[jit_cache'.entry].live
      BY <1>8, <2>1, <3>2 DEF Inv, PairInv, IsFunc
    <3>4. engines'[jit_cache'.entry] = engines[jit_cache'.entry]
      BY <1>0, <3>3 DEF Disposed, Gone
    <3> QED BY <2>1, <3>1, <3>4 DEF FreshInv, CachesFresh
  <2>2. ASSUME NEW j \in Keys, inline_cache'[j] # 0
        PROVE  FreshFunc(version, floor, engines'[inline_cache'[j]])
    <3>1. inline_cache'[j] = inline_cache[j]
      BY <2>2 DEF Translate, InlineWithout
    <3>2. inline_cache'[j] \in 1 .. Len(engines) /\ engines'[inline_cache'[j]].live
      BY <1>8, <2>2 DEF Inv, PairInv, IsFunc
    <3>3. engines'[inline_cache'[j]] = engines[inline_cache'[j]]
      BY <1>0, <3>2 DEF Disposed, Gone
    <3> QED BY <2>2, <3>1, <3>3 DEF FreshInv, CachesFresh
  <2> QED BY <1>0, <2>1, <2>2 DEF CachesFresh
<1> QED BY <1>6, <1>7, <1>10, <1>11 DEF FreshInv

(* A fence of page p leaves the functions of keys on other pages fresh.    *)
LEMMA OtherPage ==
  ASSUME TypeOK, NEW p \in Pages, NEW ver,
         \A q \in Pages \ {p} : ver[q] = version[q],
         NEW code \in Code, NEW k \in Keys, PageOf[k] # p,
         FreshAt(version, floor, code, k)
  PROVE  FreshAt(ver, floor, code, k)
<1>1. PageOf \in [Keys -> Pages] /\ \A c \in code : c[1] \in Keys
  BY Tier2Assumption DEF Code
<1>2. ver[PageOf[k]] = version[PageOf[k]]
  BY <1>1
<1>3. (\A c \in code : PageOf[c[1]] = PageOf[k]) =>
        \A c \in code : c[2] = ver[PageOf[c[1]]]
  BY <1>2 DEF FreshAt
<1> QED BY <1>2, <1>3 DEF FreshAt

LEMMA SfenceFresh ==
  ASSUME Inv, FreshInv, NEW p \in Pages, SfencePage(p)
  PROVE  FreshInv'
<1>0. /\ TypeOK /\ cached \subseteq Blocks /\ version \in [Pages -> Nat]
      /\ floor \in [Pages -> Nat] /\ PageOf \in [Keys -> Pages]
      /\ UNCHANGED <<floor, recent, cached, chain, t2c, engines>>
      /\ main.at \in {"loop", "run"} /\ main' = Fenced /\ t2c.at # "publish"
      /\ version' = [version EXCEPT ![p] = @ + 1]
  BY Tier2Assumption DEF Inv, TypeOK, SfencePage, MayFence, Locked
<1>1. /\ \A q \in Pages \ {p} : version'[q] = version[q]
      /\ \A q \in Pages : version'[q] >= version[q]
      /\ \A q \in Pages : version'[q] \in Nat
  BY <1>0
<1>2. ASSUME NEW b \in Blocks
      PROVE  /\ block'[b].key = block[b].key
             /\ block'[b].version = block[b].version
             /\ block'[b].func = block[b].func
             /\ block'[b].should_free <=> block[b].should_free
             /\ ~block'[b].invalidated <=>
                  ~block[b].invalidated /\ (b \in cached => PageOf[block[b].key] # p)
  <2>1. block[b] \in BlockFields
    BY <1>0 DEF TypeOK
  <2>2. CASE b \in cached /\ PageOf[block[b].key] = p
    <3>1. block'[b] = [block[b] EXCEPT !.invalidated = TRUE, !.hot2 = FALSE]
      BY <2>2 DEF SfencePage
    <3> QED BY <2>1, <2>2, <3>1 DEF BlockFields
  <2>3. CASE ~(b \in cached /\ PageOf[block[b].key] = p)
    <3>1. block'[b] = block[b]
      BY <2>3 DEF SfencePage
    <3> QED BY <2>3, <3>1
  <2> QED BY <2>2, <2>3
<1>3. \A b \in cached : block[b].key \in Keys /\ b \in Blocks
  BY <1>0 DEF Inv, OwnedInv
<1>4. BlocksFresh'
  <2>1. SameBlocks'
    BY <1>0, <1>2, <1>3 DEF FreshInv, BlocksFresh, SameBlocks
  <2>2. ValidBlocks'
    <3> SUFFICES ASSUME NEW b \in cached, ~block'[b].invalidated
                 PROVE  block'[b].version = version'[PageOf[block'[b].key]] /\ b \in recent
      BY <1>0 DEF ValidBlocks
    <3>1. PageOf[block[b].key] \in Pages \ {p} /\ ~block[b].invalidated
      BY <1>0, <1>2, <1>3
    <3> QED BY <1>1, <1>2, <1>3, <3>1 DEF FreshInv, BlocksFresh, ValidBlocks
  <2>3. RecentBlocks'
    <3>1. \A q \in Pages : version'[q] >= floor[q]
      <4> SUFFICES ASSUME NEW q \in Pages PROVE version'[q] >= floor[q]
        OBVIOUS
      <4>1. version[q] >= floor[q]
        BY DEF FreshInv, BlocksFresh, RecentBlocks
      <4>2. version'[q] >= version[q] /\ version'[q] \in Nat /\ version[q] \in Nat
            /\ floor[q] \in Nat
        BY <1>0, <1>1
      <4> QED BY <4>1, <4>2
    <3>2. recent \subseteq cached
          /\ \A b \in recent : block[b].version >= floor[PageOf[block[b].key]]
      BY DEF FreshInv, BlocksFresh, RecentBlocks
    <3>3. \A b \in recent : block'[b].version >= floor[PageOf[block'[b].key]]
      BY <1>2, <1>3, <3>2
    <3> QED BY <1>0, <3>1, <3>2, <3>3 DEF RecentBlocks
  <2>4. Links'
    <3> SUFFICES ASSUME NEW b \in cached, NEW k \in chain[b], NEW x \in cached,
                        block'[x].key = k
                 PROVE  /\ ~block'[b].invalidated /\ PageOf[k] = PageOf[block'[b].key] =>
                             ~block'[x].invalidated
                        /\ b \in recent => x \in recent
      BY <1>0 DEF Links
    <3>1. block[x].key = k /\ block'[b].key = block[b].key
      BY <1>2, <1>3
    <3>2. /\ ~block[b].invalidated /\ PageOf[k] = PageOf[block[b].key] => ~block[x].invalidated
          /\ b \in recent => x \in recent
      BY <3>1 DEF FreshInv, BlocksFresh, Links
    <3> QED BY <1>2, <1>3, <3>1, <3>2
  <2> QED BY <2>1, <2>2, <2>3, <2>4 DEF BlocksFresh
<1>5. \A i \in 1 .. Len(engines) : engines[i].code \in Code
  <2>1. \A i \in 1 .. Len(engines) : engines[i] \in Engines
    BY <1>0 DEF TypeOK
  <2> QED BY <2>1 DEF Engines
<1>6. ASSUME NEW f, NEW k \in Keys, IsFunc(f, k), PageOf[k] # p,
             FreshFunc(version, floor, engines[f])
      PROVE  FreshFunc(version', floor, engines[f])
  <2>1. engines[f].code \in Code /\ engines[f].key = k
    BY <1>5, <1>6 DEF IsFunc
  <2>2. FreshAt(version, floor, engines[f].code, k)
    BY <1>6, <2>1 DEF FreshFunc
  <2>3. FreshAt(version', floor, engines[f].code, k)
    BY <1>0, <1>1, <1>6, <2>1, <2>2, OtherPage
  <2> QED BY <2>1, <2>3 DEF FreshFunc
<1>7. CompileFresh'
  <2>1. ASSUME t2c.at = "compile", ~block'[t2c.blk].should_free, ~block'[t2c.blk].invalidated
        PROVE  FreshAt(version', floor, t2c.code, block'[t2c.blk].key)
    <3>1. t2c.blk \in Blocks /\ t2c.blk \notin pool /\ t2c.blk \notin lost
      BY <2>1 DEF Inv, OwnedInv
    <3>2. ~block[t2c.blk].should_free /\ ~block[t2c.blk].invalidated
      BY <1>2, <2>1, <3>1
    <3>3. t2c.blk \in cached
      BY <3>1, <3>2 DEF Inv, OwnedInv
    <3>4. block[t2c.blk].key \in Keys /\ PageOf[block[t2c.blk].key] # p /\ t2c.code \in Code
      BY <1>0, <1>2, <1>3, <2>1, <3>1, <3>3 DEF TypeOK, Compilers
    <3>5. FreshAt(version, floor, t2c.code, block[t2c.blk].key)
      BY <2>1, <3>2 DEF FreshInv, CompileFresh, Discards
    <3>6. FreshAt(version', floor, t2c.code, block[t2c.blk].key)
      BY <1>0, <1>1, <3>4, <3>5, OtherPage
    <3> QED BY <1>2, <3>1, <3>6
  <2> QED BY <1>0, <2>1 DEF CompileFresh, Discards
<1>8. FuncsFresh'
  <2>1. ASSUME NEW b \in cached, ~block'[b].invalidated, block'[b].func # 0
        PROVE  FreshFunc(version', floor, engines[block'[b].func])
    <3>1. /\ IsFunc(block[b].func, block[b].key) /\ PageOf[block[b].key] # p
          /\ FreshFunc(version, floor, engines[block[b].func])
      BY <1>2, <1>3, <2>1 DEF Inv, FuncInv, FreshInv, FuncsFresh
    <3> QED BY <1>2, <1>3, <1>6, <3>1
  <2> QED BY <1>0, <2>1 DEF FuncsFresh
<1>9. CachesFresh'
  <2>1. ASSUME jit_cache'.entry # 0
        PROVE  FreshFunc(version', floor, engines[jit_cache'.entry])
    <3>0. Slot(0, 0).entry = 0
      BY DEF Slot
    <3>1. jit_cache' = jit_cache /\ (jit_cache.key = 0 \/ PageOf[jit_cache.key] # p)
      BY <2>1, <3>0 DEF SfencePage
    <3>2. ~HalfWritten
      BY <1>0 DEF HalfWritten
    <3>3. IsFunc(jit_cache.entry, jit_cache.key) /\ jit_cache.key \in Keys
      BY <2>1, <3>1, <3>2 DEF Inv, PairInv, IsFunc
    <3>4. jit_cache.key # 0
      BY <3>3, Tier2Assumption
    <3>5. FreshFunc(version, floor, engines[jit_cache.entry])
      BY <2>1, <3>1 DEF FreshInv, CachesFresh
    <3> QED BY <1>6, <3>1, <3>3, <3>4, <3>5
  <2>2. ASSUME NEW j \in Keys, inline_cache'[j] # 0
        PROVE  FreshFunc(version', floor, engines[inline_cache'[j]])
    <3>1. inline_cache'[j] = inline_cache[j] /\ PageOf[j] # p
      BY <2>2 DEF SfencePage, InlineWithout
    <3>2. IsFunc(inline_cache[j], j) /\ FreshFunc(version, floor, engines[inline_cache[j]])
      BY <2>2, <3>1 DEF Inv, PairInv, FreshInv, CachesFresh
    <3> QED BY <1>6, <3>1, <3>2
  <2>3. main'.at = "run" => main'.fenced
    BY <1>0 DEF Fenced, TypeOK, Mains
  <2> QED BY <1>0, <2>1, <2>2, <2>3 DEF CachesFresh
<1> QED BY <1>4, <1>7, <1>8, <1>9 DEF FreshInv

(* A fence of everything.                                                  *)
LEMMA FenceAllFresh ==
  ASSUME Inv, FreshInv, NEW changed \in SUBSET Pages, FenceAll(changed)
  PROVE  FreshInv'
<1>0. /\ TypeOK /\ cached \subseteq Blocks /\ version \in [Pages -> Nat]
      /\ UNCHANGED <<cached, chain, t2c, engines>>
      /\ floor' = version' /\ recent' = {}
      /\ version' = [q \in Pages |-> IF q \in changed THEN version[q] + 1 ELSE version[q]]
      /\ main.at \in {"loop", "run"} /\ main' = Fenced /\ t2c.at # "publish"
  BY DEF Inv, TypeOK, FenceAll, MayFence, Locked
<1>1. ASSUME NEW b \in Blocks
      PROVE  /\ block'[b].key = block[b].key
             /\ block'[b].should_free <=> block[b].should_free
             /\ b \in cached => block'[b].invalidated
  <2>1. /\ block[b] \in BlockFields
        /\ block'[b] = IF b \in cached
                       THEN [block[b] EXCEPT !.invalidated = TRUE, !.hot2 = FALSE]
                       ELSE block[b]
    BY <1>0 DEF TypeOK, FenceAll
  <2> QED BY <2>1 DEF BlockFields
<1>2. BlocksFresh'
  <2>1. \A b \in cached : block'[b].key = block[b].key /\ block'[b].invalidated
    BY <1>0, <1>1
  <2>2. SameBlocks' /\ ValidBlocks' /\ Links'
    BY <1>0, <2>1 DEF FreshInv, BlocksFresh, SameBlocks, ValidBlocks, Links
  <2>3. \A q \in Pages : version'[q] \in Nat
    BY <1>0
  <2>4. RecentBlocks'
    BY <1>0, <2>3 DEF RecentBlocks
  <2> QED BY <2>2, <2>4 DEF BlocksFresh
<1>3. CompileFresh'
  <2>1. t2c.at = "compile" => block'[t2c.blk].should_free \/ block'[t2c.blk].invalidated
    BY <1>1 DEF Inv, OwnedInv
  <2> QED BY <1>0, <2>1 DEF CompileFresh, Discards
<1>5. FuncsFresh'
  BY <1>0, <1>1 DEF FuncsFresh
<1>6. CachesFresh'
  <2>1. jit_cache'.entry = 0 /\ \A k \in Keys : inline_cache'[k] = 0
    BY DEF FenceAll, Slot, InlineWithout
  <2>2. main'.at = "run" => main'.fenced
    BY <1>0 DEF Fenced, TypeOK, Mains
  <2> QED BY <1>0, <2>1, <2>2 DEF CachesFresh
<1> QED BY <1>2, <1>3, <1>5, <1>6 DEF FreshInv

(* The trace of a block that is not invalidated reaches recent blocks      *)
(* only, and if it stays on the block's page, valid ones only.             *)
LEMMA TracedFresh ==
  ASSUME Inv, FreshInv, NEW b \in cached, ~block[b].invalidated
  PROVE  /\ b \in Traced(b) /\ Traced(b) \subseteq recent
         /\ (\A x \in Traced(b) : PageOf[block[x].key] = PageOf[block[b].key]) =>
              \A x \in Traced(b) : ~block[x].invalidated
<1>0. b \in Traced(b) /\ Traced(b) \subseteq cached
  BY DEF Traced
<1>1. Traced(b) \subseteq recent
  <2>1. recent \in SUBSET cached /\ b \in recent
    BY DEF FreshInv, BlocksFresh, ValidBlocks, RecentBlocks
  <2>2. \A y \in recent, k \in Keys : k \in chain[y] => CachedAt(k) \subseteq recent
    BY <2>1 DEF FreshInv, BlocksFresh, Links, CachedAt
  <2> QED BY <2>1, <2>2 DEF Traced
<1>2. \A y \in Traced(b), k \in Keys : k \in chain[y] => CachedAt(k) \subseteq Traced(b)
  <2> SUFFICES ASSUME NEW y \in Traced(b), NEW k \in Keys, k \in chain[y], NEW z \in CachedAt(k)
               PROVE  z \in Traced(b)
    OBVIOUS
  <2>1. ASSUME NEW S \in SUBSET cached, b \in S,
               \A u \in S, j \in Keys : j \in chain[u] => CachedAt(j) \subseteq S
        PROVE  z \in S
    <3>1. y \in S
      BY <2>1 DEF Traced
    <3> QED BY <2>1, <3>1
  <2>2. z \in cached
    BY DEF CachedAt
  <2> QED BY <2>1, <2>2 DEF Traced
<1>3. ASSUME \A x \in Traced(b) : PageOf[block[x].key] = PageOf[block[b].key]
      PROVE  \A x \in Traced(b) : ~block[x].invalidated
  <2> DEFINE S == {y \in Traced(b) : ~block[y].invalidated}
  <2>1. S \in SUBSET cached /\ b \in S
    BY <1>0
  <2>2. ASSUME NEW y \in S, NEW k \in Keys, k \in chain[y], NEW z \in CachedAt(k)
        PROVE  z \in S
    <3>1. z \in Traced(b) /\ z \in cached /\ block[z].key = k /\ y \in cached
      BY <1>0, <1>2, <2>2 DEF CachedAt
    <3>2. PageOf[k] = PageOf[block[y].key]
      BY <1>3, <3>1
    <3>3. ~block[z].invalidated
      BY <2>2, <3>1, <3>2 DEF FreshInv, BlocksFresh, Links
    <3> QED BY <3>1, <3>3
  <2>3. \A x \in Traced(b) : x \in S
    <3>1. \A y \in S, k \in Keys : k \in chain[y] => CachedAt(k) \subseteq S
      BY <2>2
    <3> HIDE DEF S
    <3> QED BY <2>1, <3>1 DEF Traced
  <2> QED BY <2>3
<1> QED BY <1>0, <1>1, <1>3

LEMMA TracedCode ==
  ASSUME Inv, FreshInv, NEW b \in cached, ~block[b].invalidated
  PROVE  FreshAt(version, floor, {<<block[x].key, block[x].version>> : x \in Traced(b)},
                 block[b].key)
<1> DEFINE code == {<<block[x].key, block[x].version>> : x \in Traced(b)}
<1>1. <<block[b].key, version[PageOf[block[b].key]]>> \in code
  <2>1. block[b].version = version[PageOf[block[b].key]] /\ b \in Traced(b)
    BY TracedFresh DEF FreshInv, BlocksFresh, ValidBlocks
  <2> QED BY <2>1
<1>2. \A c \in code : c[2] >= floor[PageOf[c[1]]]
  <2>1. \A x \in Traced(b) : block[x].version >= floor[PageOf[block[x].key]]
    BY TracedFresh DEF FreshInv, BlocksFresh, RecentBlocks
  <2> QED BY <2>1
<1>3. ASSUME \A c \in code : PageOf[c[1]] = PageOf[block[b].key]
      PROVE  \A c \in code : c[2] = version[PageOf[c[1]]]
  <2>1. ASSUME NEW x \in Traced(b) PROVE PageOf[block[x].key] = PageOf[block[b].key]
    <3>1. <<block[x].key, block[x].version>> \in code
      OBVIOUS
    <3>2. <<block[x].key, block[x].version>>[1] = block[x].key
      OBVIOUS
    <3> HIDE DEF code
    <3> QED BY <1>3, <3>1, <3>2
  <2>2. \A x \in Traced(b) : ~block[x].invalidated /\ x \in cached
    BY <2>1, TracedFresh DEF Traced
  <2>3. \A x \in Traced(b) : block[x].version = version[PageOf[block[x].key]]
    BY <2>2 DEF FreshInv, BlocksFresh, ValidBlocks
  <2> QED BY <2>3
<1> HIDE DEF code
<1>4. FreshAt(version, floor, code, block[b].key)
  BY <1>1, <1>2, <1>3 DEF FreshAt
<1> QED BY <1>4 DEF code

LEMMA CompileFreshStep ==
  ASSUME Inv, FreshInv, Dequeue \/ CompileBegin \/ CompileDiscard \/ CompileFails
  PROVE  FreshInv'
<1>0. /\ TypeOK /\ OwnedInv /\ cached \subseteq Blocks
      /\ UNCHANGED <<version, floor, recent, cached, engines, jit_cache, inline_cache, main>>
  BY DEF Inv, TypeOK, Dequeue, CompileBegin, CompileDiscard, CompileFails, blockVars, fenceVars
<1>1. CachesFresh'
  BY <1>0 DEF FreshInv, CachesFresh
<1>2. ASSUME NEW x \in cached
      PROVE  /\ block'[x].key = block[x].key
             /\ block'[x].version = block[x].version
             /\ block'[x].func = block[x].func
             /\ block'[x].invalidated <=> block[x].invalidated
             /\ chain'[x] = chain[x]
  <2>0. x \in Blocks /\ block[x] \in BlockFields /\ ~block[x].should_free
    BY <1>0 DEF TypeOK, OwnedInv
  <2>1. CASE block'[x] = block[x] /\ chain'[x] = chain[x]
    BY <2>1
  <2>2. CASE /\ chain'[x] = chain[x]
             /\ \/ block'[x] = [block[x] EXCEPT !.is_compiling = TRUE]
                \/ block'[x] = [block[x] EXCEPT !.is_compiling = FALSE]
    BY <2>0, <2>2 DEF BlockFields
  <2>3. CASE Dequeue
    BY <2>1, <2>3 DEF Dequeue, blockVars, fenceVars
  <2>4. CASE CompileBegin
    <3>1. chain' = chain
      BY <2>4 DEF CompileBegin
    <3>2. block' = block \/ \E b \in Blocks : block' = [block EXCEPT ![b].is_compiling = TRUE]
      BY <1>0, <2>4 DEF CompileBegin, CachedAt
    <3>3. block'[x] = block[x] \/ block'[x] = [block[x] EXCEPT !.is_compiling = TRUE]
      BY <1>0, <2>0, <3>2 DEF TypeOK
    <3> QED BY <2>1, <2>2, <3>1, <3>3
  <2>5. CASE CompileDiscard \/ CompileFails
    <3>1. t2c.blk \in Blocks
      BY <1>0, <2>5 DEF CompileDiscard, CompileFails, OwnedInv
    <3>2. chain'[x] = chain[x]
      BY <1>0, <2>0, <2>5, <3>1 DEF CompileDiscard, CompileFails, TypeOK
    <3>3. block'[x] = block[x] \/ block'[x] = [block[x] EXCEPT !.is_compiling = FALSE]
      BY <1>0, <2>0, <2>5, <3>1 DEF CompileDiscard, CompileFails, TypeOK
    <3> QED BY <2>1, <2>2, <3>2, <3>3
  <2> QED BY <2>3, <2>4, <2>5
<1>3. BlocksFresh'
  <2>1. SameBlocks' /\ ValidBlocks'
    BY <1>0, <1>2 DEF FreshInv, BlocksFresh, SameBlocks, ValidBlocks
  <2>2. RecentBlocks'
    BY <1>0, <1>2 DEF FreshInv, BlocksFresh, RecentBlocks
  <2>3. Links'
    BY <1>0, <1>2 DEF FreshInv, BlocksFresh, Links
  <2> QED BY <2>1, <2>2, <2>3 DEF BlocksFresh
<1>4. FuncsFresh'
  BY <1>0, <1>2 DEF FreshInv, FuncsFresh
<1>5. CompileFresh'
  <2>1. CASE Dequeue
    BY <2>1 DEF Dequeue, Idle, CompileFresh
  <2>2. CASE CompileDiscard \/ CompileFails
    BY <2>2 DEF CompileDiscard, CompileFails, Idle, CompileFresh
  <2>3. CASE CompileBegin /\ t2c' = Idle
    BY <2>3 DEF Idle, CompileFresh
  <2>4. ASSUME NEW b \in CachedAt(t2c.key),
               t2c' = [t2c EXCEPT !.at = "compile", !.blk = b,
                  !.code = {<<block[x].key, block[x].version>> : x \in Traced(b)}]
        PROVE  CompileFresh'
    <3> DEFINE code == {<<block[x].key, block[x].version>> : x \in Traced(b)}
    <3>1. t2c'.blk = b /\ t2c'.code = code /\ b \in cached
      BY <1>0, <2>4 DEF TypeOK, Compilers, CachedAt
    <3>2. ~block[b].invalidated => FreshAt(version, floor, code, block[b].key)
      BY <3>1, TracedCode
    <3>3. ~Discards(t2c.blk)' => ~block[b].invalidated
      BY <1>2, <3>1 DEF Discards
    <3> HIDE DEF code
    <3> QED BY <1>0, <1>2, <3>1, <3>2, <3>3 DEF CompileFresh
  <2>5. CASE CompileBegin
    BY <2>3, <2>4, <2>5 DEF CompileBegin
  <2> QED BY <2>1, <2>2, <2>5
<1> QED BY <1>1, <1>3, <1>4, <1>5 DEF FreshInv

LEMMA CompileEndFresh ==
  ASSUME Inv, FreshInv, CompileEnd
  PROVE  FreshInv'
<1> DEFINE b == t2c.blk
           n == Len(engines) + 1
<1>0. /\ TypeOK /\ OwnedInv /\ Len(engines) \in Nat /\ cached \subseteq Blocks
      /\ t2c.at = "compile" /\ ~Discards(b)
      /\ UNCHANGED <<version, floor, recent, cached, chain, jit_cache, inline_cache, main>>
      /\ engines' = Append(engines, [key |-> block[b].key, code |-> t2c.code, live |-> TRUE])
  BY DEF Inv, TypeOK, CompileEnd, fenceVars
<1>1. b \in Blocks /\ b \in cached /\ t2c'.at = "publish"
  BY <1>0 DEF OwnedInv, Discards, CompileEnd, TypeOK, Compilers
<1>2. /\ \A x \in Blocks \ {b} : block'[x] = block[x]
      /\ block'[b].key = block[b].key /\ block'[b].func = n
      /\ block'[b].version = block[b].version
      /\ block'[b].invalidated <=> block[b].invalidated
  <2>1. /\ \A x \in Blocks \ {b} : block'[x] = block[x]
        /\ block'[b] = [block[b] EXCEPT !.is_compiling = FALSE, !.func = n]
    BY <1>0, <1>1 DEF CompileEnd, TypeOK
  <2>2. block[b] \in BlockFields
    BY <1>0, <1>1 DEF TypeOK
  <2> QED BY <2>1, <2>2 DEF BlockFields
<1>3. /\ Len(engines') = n /\ \A i \in 1 .. Len(engines) : engines'[i] = engines[i]
      /\ engines'[n] = [key |-> block[b].key, code |-> t2c.code, live |-> TRUE]
  BY <1>0 DEF TypeOK
<1>4. FreshFunc(version, floor, engines'[n])
  <2>1. FreshAt(version, floor, t2c.code, block[b].key)
    BY <1>0 DEF FreshInv, CompileFresh
  <2>2. engines'[n].code = t2c.code /\ engines'[n].key = block[b].key
    BY <1>3
  <2> QED BY <2>1, <2>2 DEF FreshFunc
<1>5. BlocksFresh'
  <2>1. \A x \in cached : /\ block'[x].key = block[x].key
                          /\ block'[x].version = block[x].version
                          /\ block'[x].invalidated <=> block[x].invalidated
    BY <1>0, <1>2
  <2> QED BY <1>0, <2>1, BlocksFrame DEF FreshInv
<1>6. CompileFresh'
  BY <1>1 DEF CompileFresh
<1>8. FuncsFresh'
  <2>1. ASSUME NEW x \in cached, ~block'[x].invalidated, block'[x].func # 0
        PROVE  FreshFunc(version, floor, engines'[block'[x].func])
    <3>1. CASE x = b
      BY <1>2, <1>4, <3>1
    <3>2. CASE x # b
      <4>1. block'[x] = block[x] /\ block[x].func \in 1 .. Len(engines)
        BY <1>0, <1>2, <2>1, <3>2 DEF Inv, FuncInv, IsFunc
      <4> QED BY <1>3, <2>1, <4>1 DEF FreshInv, FuncsFresh
    <3> QED BY <3>1, <3>2
  <2> QED BY <1>0, <2>1 DEF FuncsFresh
<1>9. CachesFresh'
  <2>0. ~HalfWritten
    BY <1>0 DEF HalfWritten
  <2>1. jit_cache.entry # 0 => engines'[jit_cache.entry] = engines[jit_cache.entry]
    BY <1>3, <2>0 DEF Inv, PairInv, IsFunc
  <2>2. \A k \in Keys : inline_cache[k] # 0 =>
          engines'[inline_cache[k]] = engines[inline_cache[k]]
    BY <1>3 DEF Inv, PairInv, IsFunc
  <2>3. main.at = "run" => engines'[main.func] = engines[main.func]
    BY <1>3 DEF Inv, ReadInv, IsFunc
  <2> QED BY <1>0, <2>1, <2>2, <2>3 DEF FreshInv, CachesFresh
<1> QED BY <1>5, <1>6, <1>8, <1>9 DEF FreshInv

LEMMA PublishFresh ==
  ASSUME Inv, FreshInv, Publish
  PROVE  FreshInv'
<1> DEFINE b == t2c.blk
<1>0. /\ TypeOK /\ cached \subseteq Blocks /\ b \in cached /\ t2c.at = "publish"
      /\ UNCHANGED <<version, floor, recent, cached, chain, engines, inline_cache, main>>
      /\ block[b].func # 0 /\ ~block[b].invalidated
  BY DEF Inv, TypeOK, OwnedInv, FuncInv, Publish, fenceVars
<1>1. ASSUME NEW x \in Blocks
      PROVE  /\ block'[x].key = block[x].key
             /\ block'[x].func = block[x].func
             /\ block'[x].version = block[x].version
             /\ block'[x].invalidated <=> block[x].invalidated
  <2>1. block[x] \in BlockFields /\ (\/ block'[x] = block[x]
                                     \/ block'[x] = [block[x] EXCEPT !.hot2 = TRUE])
    BY <1>0 DEF TypeOK, Publish
  <2> QED BY <2>1 DEF BlockFields
<1>2. BlocksFresh'
  BY <1>0, <1>1, BlocksFrame DEF FreshInv
<1>3. CompileFresh'
  <2>1. t2c'.at # "compile"
    <3>1. t2c \in Compilers /\ (t2c' = Idle \/ t2c' = Stepped(t2c))
      BY <1>0 DEF Publish, TypeOK
    <3>2. Idle.at = "wait" /\ Stepped(t2c).at = t2c.at
      BY <3>1 DEF Idle, Stepped, Compilers
    <3> QED BY <1>0, <3>1, <3>2
  <2> QED BY <2>1 DEF CompileFresh
<1>5. FuncsFresh'
  BY <1>0, <1>1 DEF FreshInv, FuncsFresh
<1>6. CachesFresh'
  <2>1. jit_cache'.entry \in {jit_cache.entry, block[b].func}
    <3>1. \/ jit_cache' = jit_cache
          \/ jit_cache' = Stored(t2c.step, t2c.seq, block[b].key, block[b].func)
      BY DEF Publish
    <3> QED BY <3>1 DEF Stored
  <2>2. FreshFunc(version, floor, engines[block[b].func])
    BY <1>0 DEF FreshInv, FuncsFresh
  <2> QED BY <1>0, <2>1, <2>2 DEF FreshInv, CachesFresh
<1> QED BY <1>2, <1>3, <1>5, <1>6 DEF FreshInv

LEMMA StepFresh ==
  ASSUME Inv, Inv', FreshInv, SeqWide, [Next]_vars
  PROVE  FreshInv'
<1>1. CASE Main
  <2>1. ASSUME NEW k \in Keys, NEW b \in Blocks, NEW old \in SUBSET cached,
               NEW interp \in BOOLEAN, Translate(k, b, old, interp)
        PROVE  FreshInv'
    BY <2>1, TranslateFresh
  <2>2. ASSUME NEW k \in Keys, NEW asks \in BOOLEAN, NEW interp \in BOOLEAN,
               Interpret(k, asks, interp)
        PROVE  FreshInv'
    BY <2>2, InterpretFresh
  <2>3. ASSUME NEW k \in Keys, RunTier2(k) PROVE FreshInv'
    BY <2>3, RunFresh
  <2>4. CASE \/ \E k \in Keys : Jump(k)
             \/ Return \/ ReadKey \/ ReadEntry \/ ReadAgain \/ FlushBegin \/ FlushStep
    BY <2>4, LookFresh
  <2>5. ASSUME NEW p \in Pages, SfencePage(p) PROVE FreshInv'
    BY <2>5, SfenceFresh
  <2>6. ASSUME NEW changed \in SUBSET Pages, FenceAll(changed) PROVE FreshInv'
    BY <2>6, FenceAllFresh
  <2>7. ASSUME NEW k \in Keys, NEW b \in Blocks, TranslateFails(k, b) PROVE FreshInv'
    BY <2>7, TranslateFailsFresh
  <2>8. MainSteps
    BY <1>1, MainCases DEF Inv
  <2> QED BY <2>1, <2>2, <2>3, <2>4, <2>5, <2>6, <2>7, <2>8 DEF MainSteps
<1>2. CASE Compiler
  BY <1>2, CompileFreshStep, CompileEndFresh, PublishFresh DEF Compiler
<1>3. CASE UNCHANGED vars
  <2>1. UNCHANGED <<version, floor, recent, block, cached, chain, t2c, engines, jit_cache,
                    inline_cache, main>>
    BY <1>3 DEF vars, blockVars, fenceVars
  <2>2. BlocksFresh' /\ CompileFresh' /\ FuncsFresh'
    BY <2>1, BlocksFrame, CodeFrame DEF FreshInv
  <2>3. CachesFresh'
    BY <2>1 DEF FreshInv, CachesFresh
  <2> QED BY <2>2, <2>3 DEF FreshInv
<1> QED BY <1>1, <1>2, <1>3 DEF Next

(* Under the same hypotheses, wherever the blocks' branches go: a function *)
(* that is called holds the code of its own block that is mapped since the *)
(* last fence, all its code is up to date if it lies on one page, and none *)
(* is older than the last fence of everything.  A block invalidated while  *)
(* it is compiled is not published, links lead from blocks that survived a *)
(* fence to blocks that did, and the fence of a page reaches every cache   *)
(* that leads to its own blocks (t2c_compile, jit_cache_clear_page,        *)
(* cache_invalidate_va).                                                   *)
THEOREM Tier2FreshCode ==
  ASSUME NoFlushRace, SeqWide PROVE Spec => []FreshCode
<1>1. Init => Inv /\ FreshInv
  BY InitInv, InitFresh
<1>2. Inv /\ FreshInv /\ [Next]_vars => (Inv /\ FreshInv)'
  BY StepInv, StepFresh
<1>3. Inv /\ FreshInv => FreshCode
  BY DEF FreshInv, CachesFresh, FreshFunc, FreshAt, FreshCode
<1> QED BY <1>1, <1>2, <1>3, PTL DEF Spec
=============================================================================
