------------------------------- MODULE Tier2 -------------------------------
(***************************************************************************)
(* The block cache and the tier-2 compiler thread of the JIT build with    *)
(* virtual memory (JIT, T2C, SYSTEM, BLOCK_CHAINING).  The main thread     *)
(* runs rv_step: it looks blocks up, translates and evicts them, fences,   *)
(* and runs compiled code, which resolves indirect jumps through the       *)
(* inline cache and the jit_cache.  The compiler thread takes keys from    *)
(* the wait queue and compiles a block without holding cache_lock.  What   *)
(* the main thread does under cache_lock is one step here: the compiler    *)
(* thread touches nothing shared without the lock.  The stores of its last *)
(* section are steps of their own: the main thread reads, and              *)
(* code_cache_flush writes, the jit_cache without the lock.                *)
(*                                                                         *)
(* One address space; the keys of the model share one jit_cache slot.      *)
(***************************************************************************)
EXTENDS Integers, Sequences, FiniteSets

CONSTANTS
  Keys,         \* block addresses, positive
  Pages, PageOf,\* pages, and the page of each key
  Succ,         \* keys a block's last, direct branch may go to, or the one
                \* after it where the end of the page ended it
  Blocks,       \* the block pool
  NoBlock,
  Capacity,     \* of the block cache
  FlushRaces,   \* bound: whether a flush may overlap a publication
  FenceChanges, \* bound: which pages change before a fence of everything
  MaxLost,      \* bound: translations that fail
  Hot,          \* bound: keys that run often enough to be compiled
  SeqMod,       \* bound: width of the slot's sequence number
  MaxCompiles,  \* bound: functions compiled or requested
  MaxRemaps     \* bound: no code changes once a page changed this often

ASSUME Tier2Assumption ==
  /\ Keys \subseteq Nat \ {0} /\ PageOf \in [Keys -> Pages]
  /\ Succ \in [Keys -> SUBSET Keys] /\ Hot \subseteq Keys
  /\ FenceChanges \subseteq SUBSET Pages
  /\ NoBlock \notin Blocks
  /\ Capacity \in Nat \ {0} /\ FlushRaces \in BOOLEAN
  /\ SeqMod \in Nat \ {0} /\ SeqMod % 2 = 0
  /\ MaxCompiles \in Nat /\ MaxRemaps \in Nat /\ MaxLost \in Nat

VARIABLES
  version,      \* per page: which code is mapped there
  floor,        \* history: version at the last fence of everything
  recent,       \* history: cached blocks translated since that fence
  pool,         \* free blocks (mpool; it grows, Blocks bounds how far)
  lost,         \* history: blocks a failed translation left behind
  block,        \* per block: its fields
  cached,       \* the live blocks of the cache
  chain,        \* per block: keys its last branch is linked to
  prev,         \* the block interpreted last if it may be linked, or NoBlock
  wait_queue,   \* keys waiting for the compiler thread
  t2c,          \* the compiler thread: where it is, and its locals
  engines,      \* every function compiled so far: key, code, live
  jit_cache,    \* the slot: seq, key, entry
  inline_cache, \* per key: an entry, 0 when there is none
  main          \* the main thread: where it is, and its locals

fenceVars == <<version, floor, recent>>
blockVars == <<pool, lost, block, cached, chain, prev>>
vars == <<fenceVars, blockVars, wait_queue, t2c, engines, jit_cache, inline_cache, main>>

Fresh(k) == [key |-> k, version |-> version[PageOf[k]], invalidated |-> FALSE,
             hot2 |-> FALSE, compiled |-> FALSE, is_compiling |-> FALSE,
             should_free |-> FALSE, func |-> 0]

Idle == [at |-> "wait", key |-> 0, blk |-> NoBlock, code |-> {},
         step |-> "load", seq |-> 0]
Looping == [at |-> "loop", func |-> 0, target |-> 0, step |-> "load", seq |-> 0,
            pubs |-> 0,       \* history: what was Published when seq was loaded
            fenced |-> FALSE] \* history: a fence since the function was called

(* A free block; its contents do not matter.                               *)
Blank == [key |-> 0, version |-> 0, invalidated |-> FALSE, hot2 |-> FALSE,
          compiled |-> FALSE, is_compiling |-> FALSE, should_free |-> FALSE,
          func |-> 0]

Init ==
  /\ version = [p \in Pages |-> 0] /\ floor = version
  /\ recent = {}
  /\ pool = Blocks /\ lost = {}
  /\ block = [b \in Blocks |-> Blank]
  /\ cached = {}
  /\ chain = [b \in Blocks |-> {}]
  /\ prev = NoBlock
  /\ wait_queue = <<>>
  /\ t2c = Idle
  /\ engines = <<>>
  /\ jit_cache = [seq |-> 0, key |-> 0, entry |-> 0]
  /\ inline_cache = [k \in Keys |-> 0]
  /\ main = Looping

----------------------------------------------------------------------------
(* The jit_cache slot.                                                     *)

Plus(s, n) == (s + n) % SeqMod

(* A whole jit_cache_update, by a thread that nobody can interrupt.        *)
Slot(key, entry) == [seq |-> Plus(jit_cache.seq, 2), key |-> key, entry |-> entry]

(* jit_cache_update and jit_cache_clear, store by store: the step after    *)
(* step, and the slot after it, for a writer that loaded seq.              *)
NextStore == [load |-> "odd", odd |-> "entry", entry |-> "key", key |-> "even",
              even |-> "done"]

Stored(step, seq, key, entry) ==
  [seq   |-> IF step = "odd" THEN Plus(seq, 1)
             ELSE IF step = "even" THEN Plus(seq, 2) ELSE jit_cache.seq,
   entry |-> IF step = "entry" THEN entry ELSE jit_cache.entry,
   key   |-> IF step = "key" THEN key ELSE jit_cache.key]

(* A writer w (a thread with its locals step and seq) after its next step. *)
Stepped(w) == [w EXCEPT !.step = NextStore[w.step],
                        !.seq = IF w.step = "load" THEN jit_cache.seq ELSE @]

(* cache_lock is held by the compiler thread between two steps.            *)
Locked == t2c.at = "publish"

(* Functions whose announcement in the slot is complete.                   *)
Published ==
  Len(engines) - IF t2c.at = "publish" /\ t2c.step # "done" THEN 1 ELSE 0

----------------------------------------------------------------------------
(* The block cache.                                                        *)

CachedAt(k) == {b \in cached : block[b].key = k}

(* What block_find_or_translate finds: invalidated blocks do not count.    *)
Found(k) == {b \in CachedAt(k) : ~block[b].invalidated}

(* cache_put of a block for k: what it may replace - the block with the    *)
(* same key, or any one of a full cache (which one, the use counts say).   *)
Replaced(k) ==
  IF CachedAt(k) # {} THEN {CachedAt(k)}
  ELSE IF Cardinality(cached) = Capacity THEN {{v} : v \in cached} ELSE {{}}

FreesAlways(b) == TRUE

(* Whether an evicted block is freed by the evicting thread: not when the  *)
(* compiler thread uses it.                                                *)
FreesAtOnce(b) == ~block[b].is_compiling

(* LLVMDisposeExecutionEngine.                                             *)
Gone == [key |-> 0, code |-> {}, live |-> FALSE]
Disposed(fs) == [i \in 1 .. Len(engines) |-> IF i \in fs THEN Gone ELSE engines[i]]

KeepsInline(ks) == inline_cache

(* inline_cache_clear_key.                                                 *)
InlineWithout(ks) == [k \in Keys |-> IF k \in ks THEN 0 ELSE inline_cache[k]]

(* The chaining of rv_step: p, the block interpreted last, is linked to k. *)
Linked(links, p, k) ==
  IF p # NoBlock /\ ~block[p].invalidated /\ k \in Succ[block[p].key]
  THEN [links EXCEPT ![p] = @ \cup {k}] ELSE links

(* Block b of key k after its interpretation, if it may be linked.         *)
Linkable(b, k) == IF Succ[k] # {} THEN b ELSE NoBlock

(* block_find_or_translate on a miss: the free block b replaces the blocks *)
(* old, under cache_lock.  Then it runs, in the interpreter or in tier 1   *)
(* (interp).                                                               *)
Translate(k, b, old, interp) ==
  LET gone == {block[o].key : o \in old}
      freed == {o \in old : FreesAtOnce(o)}
      had  == {o \in old : block[o].func # 0}
      kept == IF prev \in old THEN NoBlock ELSE prev
      links == [x \in Blocks |-> IF x \in freed \cup {b} THEN {} ELSE chain[x] \ gone]
  IN  /\ main.at = "loop" /\ ~Locked
      /\ Found(k) = {} /\ b \in pool /\ old \in Replaced(k)
      /\ block' = [x \in Blocks |->
            IF x = b THEN Fresh(k)
            ELSE IF x \in freed THEN Blank
            ELSE IF x \in old THEN [block[x] EXCEPT !.should_free = TRUE]
            ELSE block[x]]
      /\ cached' = (cached \ old) \cup {b}
      /\ pool' = (pool \ {b}) \cup freed
      /\ chain' = Linked(links, kept, k)
      /\ prev' = IF interp THEN Linkable(b, k) ELSE NoBlock
      /\ jit_cache' = IF had = {} THEN jit_cache
                      ELSE Slot(CHOOSE g \in gone : TRUE, 0)
      /\ inline_cache' = InlineWithout(gone)
      /\ engines' = Disposed({block[o].func : o \in freed})
      /\ recent' = (recent \ old) \cup {b}
      /\ UNCHANGED <<version, floor, lost, wait_queue, t2c, main>>

(* ... and where the first instruction cannot be fetched or decoded: the   *)
(* trap is taken, and the block that was allocated is given back neither   *)
(* to the pool nor to the cache.                                           *)
TranslateFails(k, b) ==
  /\ main.at = "loop"
  /\ Found(k) = {} /\ b \in pool /\ Cardinality(lost) < MaxLost
  /\ pool' = pool \ {b} /\ lost' = lost \cup {b}
  /\ prev' = NoBlock
  /\ UNCHANGED <<fenceVars, block, cached, chain, wait_queue, t2c, engines, jit_cache,
                 inline_cache, main>>

----------------------------------------------------------------------------
(* rv_step.                                                                *)

(* Compilations begun or waiting.                                          *)
Requested == Len(engines) + Len(wait_queue)
               + IF t2c.at \in {"lookup", "compile"} THEN 1 ELSE 0

(* The blocks reached from b along links whose keys are in the cache.      *)
Traced(b) ==
  {x \in cached : \A S \in SUBSET cached :
     /\ b \in S
     /\ \A y \in S, k \in Keys : k \in chain[y] => CachedAt(k) \subseteq S
     => x \in S}

(* A cached block that is not hot2 runs in the interpreter, which follows  *)
(* the links, or in tier 1; if it ran often enough (asks) and has not been *)
(* requested, it is.                                                       *)
Interpret(k, asks, interp) ==
  /\ main.at = "loop"
  /\ \E b \in Found(k) :
       /\ ~block[b].hot2
       /\ asks => k \in Hot /\ ~block[b].compiled /\ Requested < MaxCompiles
       /\ block' = IF asks THEN [block EXCEPT ![b].compiled = TRUE] ELSE block
       /\ wait_queue' = IF asks THEN Append(wait_queue, k) ELSE wait_queue
       /\ IF interp THEN \E x \in Traced(b) : prev' = Linkable(x, block[x].key)
                    ELSE prev' = NoBlock
  /\ chain' = Linked(chain, prev, k)
  /\ UNCHANGED <<fenceVars, pool, lost, cached, t2c, engines, jit_cache, inline_cache, main>>

Call(f, k) == main' = [Looping EXCEPT !.at = "run", !.func = f, !.target = k]

(* A hot2 block: its compiled function is called.                          *)
RunTier2(k) ==
  /\ main.at = "loop"
  /\ \E b \in Found(k) : block[b].hot2 /\ block[b].func # 0 /\ Call(block[b].func, k)
  /\ chain' = Linked(chain, prev, k)
  /\ prev' = NoBlock
  /\ UNCHANGED <<fenceVars, pool, lost, block, cached, wait_queue, t2c, engines,
                 jit_cache, inline_cache>>

(* The function returns to rv_step.                                        *)
Return ==
  /\ main.at = "run"
  /\ main' = Looping
  /\ UNCHANGED <<fenceVars, blockVars, wait_queue, t2c, engines, jit_cache, inline_cache>>

(* An indirect jump of compiled code: the inline cache, or the slot.       *)
Jump(k) ==
  /\ main.at = "run"
  /\ IF inline_cache[k] # 0 THEN Call(inline_cache[k], k)
     ELSE main' = IF jit_cache.seq % 2 = 0
                  THEN [Looping EXCEPT !.at = "key", !.target = k,
                                       !.seq = jit_cache.seq,
                                       !.pubs = Published]
                  ELSE Looping
  /\ UNCHANGED <<fenceVars, blockVars, wait_queue, t2c, engines, jit_cache, inline_cache>>

ReadKey ==
  /\ main.at = "key"
  /\ main' = IF jit_cache.key = main.target THEN [main EXCEPT !.at = "entry"]
                                            ELSE Looping
  /\ UNCHANGED <<fenceVars, blockVars, wait_queue, t2c, engines, jit_cache, inline_cache>>

ReadEntry ==
  /\ main.at = "entry"
  /\ main' = [main EXCEPT !.at = "again", !.func = jit_cache.entry]
  /\ UNCHANGED <<fenceVars, blockVars, wait_queue, t2c, engines, jit_cache, inline_cache>>

AcceptsAny == main.func # 0

(* The second load of seq decides.                                         *)
Accepts == main.func # 0 /\ jit_cache.seq = main.seq

ReadAgain ==
  /\ main.at = "again"
  /\ IF Accepts THEN /\ inline_cache' = [inline_cache EXCEPT ![main.target] = main.func]
                     /\ Call(main.func, main.target)
     ELSE /\ main' = Looping
          /\ UNCHANGED inline_cache
  /\ UNCHANGED <<fenceVars, blockVars, wait_queue, t2c, engines, jit_cache>>

MayRemap == \A p \in Pages : version[p] < MaxRemaps

(* Fences run in rv_step, and also in the guest's handler of a load or     *)
(* store fault, which compiled code calls from inside (mmu_translate,      *)
(* trap_handler): the handler is interpreted, translates nothing, and      *)
(* returns to the compiled code.  (A handler nested in a translation or in *)
(* an interpreted block fences as if it did so before the block.)          *)
MayFence == main.at \in {"loop", "run"} /\ ~Locked
Fenced == [main EXCEPT !.fenced = (main.at = "run")]

(* SFENCE.VMA for an address of page p, after the guest changed what is    *)
(* mapped there.                                                           *)
SfencePage(p) ==
  /\ MayFence /\ MayRemap
  /\ version' = [version EXCEPT ![p] = @ + 1]
  /\ block' = [b \in Blocks |->
        IF b \in cached /\ PageOf[block[b].key] = p
        THEN [block[b] EXCEPT !.invalidated = TRUE, !.hot2 = FALSE] ELSE block[b]]
  /\ jit_cache' = IF jit_cache.key # 0 /\ PageOf[jit_cache.key] = p
                  THEN Slot(0, 0) ELSE jit_cache
  /\ inline_cache' = InlineWithout({k \in Keys : PageOf[k] = p})
  /\ prev' = NoBlock
  /\ main' = Fenced
  /\ UNCHANGED <<floor, recent, pool, lost, cached, chain, wait_queue, t2c, engines>>

(* SFENCE.VMA of everything, and FENCE.I, after any changes.               *)
FenceAll(changed) ==
  /\ MayFence /\ (changed # {} => MayRemap)
  /\ version' = [p \in Pages |-> IF p \in changed THEN version[p] + 1 ELSE version[p]]
  /\ floor' = version' /\ recent' = {}
  /\ block' = [b \in Blocks |->
        IF b \in cached
        THEN [block[b] EXCEPT !.invalidated = TRUE, !.hot2 = FALSE] ELSE block[b]]
  /\ jit_cache' = Slot(0, 0)
  /\ inline_cache' = InlineWithout(Keys)
  /\ prev' = NoBlock
  /\ main' = Fenced
  /\ UNCHANGED <<pool, lost, cached, chain, wait_queue, t2c, engines>>

(* code_cache_flush, when tier 1 finds its buffer full: the slot is        *)
(* cleared store by store, without cache_lock, then the inline cache.  The *)
(* block tier 1 translates has been linked and leaves no prev.             *)
FlushBegin ==
  /\ main.at = "loop" /\ prev = NoBlock
  /\ FlushRaces \/ ~Locked
  /\ main' = Stepped([Looping EXCEPT !.at = "flush"])
  /\ UNCHANGED <<fenceVars, blockVars, wait_queue, t2c, engines, jit_cache, inline_cache>>

FlushStep ==
  /\ main.at = "flush"
  /\ jit_cache' = Stored(main.step, main.seq, 0, 0)
  /\ IF main.step = "even"
     THEN inline_cache' = InlineWithout(Keys) /\ main' = Looping
     ELSE main' = Stepped(main) /\ UNCHANGED inline_cache
  /\ UNCHANGED <<fenceVars, blockVars, wait_queue, t2c, engines>>

----------------------------------------------------------------------------
(* The compiler thread: t2c_runloop and t2c_compile.                       *)

Dequeue ==
  /\ t2c.at = "wait" /\ wait_queue # <<>>
  /\ t2c' = [Idle EXCEPT !.at = "lookup", !.key = Head(wait_queue)]
  /\ wait_queue' = Tail(wait_queue)
  /\ UNCHANGED <<fenceVars, blockVars, engines, jit_cache, inline_cache, main>>

(* Under cache_lock: the block may be gone, or compiled already (or memory *)
(* is short).  Otherwise its code and that of the linked blocks, valid or  *)
(* not, is translated (t2c_trace_ebb), and the lock given up.              *)
CompileBegin ==
  /\ t2c.at = "lookup"
  /\ \/ /\ t2c' = Idle
        /\ UNCHANGED block
     \/ \E b \in CachedAt(t2c.key) :
          /\ ~block[b].hot2
          /\ block' = [block EXCEPT ![b].is_compiling = TRUE]
          /\ t2c' = [t2c EXCEPT !.at = "compile", !.blk = b,
                !.code = {<<block[x].key, block[x].version>> : x \in Traced(b)}]
  /\ UNCHANGED <<fenceVars, pool, lost, cached, chain, prev, wait_queue, engines, jit_cache,
                 inline_cache, main>>

DiscardsEvicted(b) == block[b].should_free

(* Whether the compiled function must be thrown away.                      *)
Discards(b) == block[b].should_free \/ block[b].invalidated

(* The lock is taken again.  A block evicted meanwhile is freed here; the  *)
(* function of an invalidated one is thrown away (also when LLVM returned  *)
(* none).                                                                  *)
CompileDiscard ==
  LET b == t2c.blk
  IN  /\ t2c.at = "compile"
      /\ Discards(b)
      /\ IF block[b].should_free
         THEN /\ block' = [block EXCEPT ![b] = Blank]
              /\ chain' = [chain EXCEPT ![b] = {}]
              /\ pool' = pool \cup {b}
         ELSE /\ block' = [block EXCEPT ![b].is_compiling = FALSE]
              /\ UNCHANGED <<chain, pool>>
      /\ t2c' = Idle
      /\ UNCHANGED <<fenceVars, lost, cached, prev, wait_queue, engines, jit_cache,
                     inline_cache, main>>

(* LLVM returned no function.                                              *)
CompileFails ==
  LET b == t2c.blk
  IN  /\ t2c.at = "compile"
      /\ ~Discards(b)
      /\ block' = [block EXCEPT ![b].is_compiling = FALSE]
      /\ t2c' = Idle
      /\ UNCHANGED <<fenceVars, pool, lost, cached, chain, prev, wait_queue, engines,
                     jit_cache, inline_cache, main>>

(* Otherwise the function becomes the block's.                             *)
CompileEnd ==
  LET b == t2c.blk
  IN  /\ t2c.at = "compile"
      /\ ~Discards(b)
      /\ FlushRaces \/ main.at # "flush"
      /\ engines' = Append(engines, [key |-> block[b].key, code |-> t2c.code,
                                     live |-> TRUE])
      /\ block' = [block EXCEPT ![b].is_compiling = FALSE,
                                ![b].func = Len(engines) + 1]
      /\ t2c' = [t2c EXCEPT !.at = "publish", !.code = {}]
      /\ UNCHANGED <<fenceVars, pool, lost, cached, chain, prev, wait_queue, jit_cache,
                     inline_cache, main>>

(* And is announced: jit_cache_update, then hot2, then the unlock.         *)
Publish ==
  LET b == t2c.blk
  IN  /\ t2c.at = "publish"
      /\ IF t2c.step = "done"
         THEN /\ block' = [block EXCEPT ![b].hot2 = TRUE]
              /\ t2c' = Idle
              /\ UNCHANGED jit_cache
         ELSE /\ jit_cache' = Stored(t2c.step, t2c.seq, block[b].key, block[b].func)
              /\ t2c' = Stepped(t2c)
              /\ UNCHANGED block
      /\ UNCHANGED <<fenceVars, pool, lost, cached, chain, prev, wait_queue, engines,
                     inline_cache, main>>

----------------------------------------------------------------------------
Main ==
  \/ \E k \in Keys :
       \/ \E b \in pool, old \in Replaced(k), interp \in BOOLEAN :
            Translate(k, b, old, interp)
       \/ \E b \in pool : TranslateFails(k, b)
       \/ \E asks, interp \in BOOLEAN : Interpret(k, asks, interp)
       \/ RunTier2(k) \/ Jump(k)
  \/ Return \/ ReadKey \/ ReadEntry \/ ReadAgain
  \/ \E p \in Pages : SfencePage(p)
  \/ \E changed \in FenceChanges : FenceAll(changed)
  \/ FlushBegin \/ FlushStep

Compiler ==
  Dequeue \/ CompileBegin \/ CompileDiscard \/ CompileFails \/ CompileEnd \/ Publish

Next == Main \/ Compiler

Spec == Init /\ [][Next]_vars

----------------------------------------------------------------------------
(* Properties.                                                             *)

(* Every block is free, or in the cache, or evicted and left to the        *)
(* compiler thread, or was allocated for a translation that failed -       *)
(* exactly one of them: no block is used after it was freed, freed twice,  *)
(* or lost in another way, however evictions and compilations overlap      *)
(* (is_compiling, should_free).                                            *)
Deferred == IF t2c.at = "compile" /\ block[t2c.blk].should_free THEN {t2c.blk} ELSE {}

BlocksAccounted ==
  /\ pool \cap cached = {} /\ Deferred \cap (pool \cup cached) = {}
  /\ lost \cap (pool \cup cached \cup Deferred) = {}
  /\ pool \cup cached \cup Deferred \cup lost = Blocks
  /\ t2c.blk # NoBlock => t2c.blk \notin pool
  /\ prev # NoBlock => prev \in cached

(* Compiled code that runs, through hot2, the jit_cache or the inline      *)
(* cache, belongs to an engine that is not disposed.                       *)
LiveCode == main.at = "run" => engines[main.func].live

(* It is the function of the block that was asked for: the reader of the   *)
(* slot sees matching pairs of key and entry.                              *)
JumpLands == main.at = "run" => engines[main.func].key = main.target

(* At its call a function holds the code of its own block that is mapped   *)
(* since the last fence, and with the blocks traced into it it is          *)
(*  - all up to date if they lie on one page,                              *)
(*  - as of the last fence of everything if they lie on several: blocks    *)
(*    that end with their page are linked to the next page's, and the      *)
(*    fence of a page invalidates its blocks and not the functions of      *)
(*    other pages they were traced into (the comment of sfencevma says     *)
(*    that it invalidates every compiled block with stale mappings).       *)
(* A fence by a nested handler leaves the running function as it is.       *)
FreshCode ==
  main.at = "run" /\ ~main.fenced =>
    LET e == engines[main.func]
    IN  /\ <<e.key, version[PageOf[e.key]]>> \in e.code
        /\ (\A c \in e.code : PageOf[c[1]] = PageOf[e.key]) =>
             \A c \in e.code : c[2] = version[PageOf[c[1]]]
        /\ \A c \in e.code : c[2] >= floor[PageOf[c[1]]]
=============================================================================
