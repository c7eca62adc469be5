------------------------------ MODULE P4Chain ------------------------------
(***************************************************************************)
(* The block-chaining globals of the interpreter (prev, is_branch_taken)   *)
(* under the dual-core scheduler of P4Smp.  rv_step links the block it is  *)
(* about to run to prev; the globals assume one hart, so rv_step keeps a   *)
(* copy per hart and swaps it in after the poll, while trap handlers of    *)
(* both harts, run inside the poll, write the globals themselves.  A block *)
(* is represented by the hart it belongs to, is_branch_taken by its last   *)
(* writer.  last_pc is saved, restored and reset together with prev.       *)
(*                                                                         *)
(* A handler that __trap_handler pauses (trap_budget) leaves is_trapped    *)
(* set.  rv_step then runs blocks of that hart which RVOP_NO_NEXT cuts     *)
(* after one instruction, whose branches leave is_branch_taken alone, and  *)
(* which become prev all the same.                                         *)
(***************************************************************************)
EXTENDS P4Smp

Handler == 3     \* is_branch_taken was last written inside a trap handler

VARIABLES
  prev, taken,                   \* prev, is_branch_taken
  smp_cur, smp_prev, smp_taken,  \* the saved per-hart copies
  trapped, \* rv->is_trapped outside of __trap_handler: a paused handler
  moved,   \* history: since the hart was unwound, a trap handler changed
           \* where it continues
  cut,     \* history: the hart's last block ran with is_trapped set
  crossed  \* history: handlers of the hart since its last block, see Crossed

chainVars == <<prev, taken, smp_cur, smp_prev, smp_taken>>
histVars == <<moved, cut, crossed>>
allVars == <<vars, chainVars, trapped, histVars>>

ChainInit ==
  /\ Init
  /\ prev = None /\ taken = Handler
  /\ smp_cur = None
  /\ smp_prev = [h \in Harts |-> None]
  /\ smp_taken = [h \in Harts |-> Handler]
  /\ trapped = [h \in Harts |-> FALSE]
  /\ moved = [h \in Harts |-> FALSE] /\ cut = [h \in Harts |-> FALSE]
  /\ crossed = [h \in Harts |-> "none"]

----------------------------------------------------------------------------
(* A handler of hart h ran while its own copy of the globals was loaded,   *)
(* or only while it was saved away and the other hart's was loaded.        *)
Crossed(h) == IF smp_cur = h \/ crossed[h] = "loaded" THEN "loaded" ELSE "saved"

(* Branches of a handler do not write is_branch_taken, except for c.beqz   *)
(* and c.bnez.                                                             *)
HandlerMayWrite == taken' \in {taken, Handler}

HandlerEndsKeepingPrev(h, away, paused) ==
  /\ HandlerMayWrite
  /\ trapped' = [trapped EXCEPT ![h] = paused]
  /\ moved' = [moved EXCEPT ![h] = next_insn[h] /\ (@ \/ away \/ paused)]
  /\ crossed' = [crossed EXCEPT ![h] = Crossed(h)]
  /\ UNCHANGED <<prev, smp_cur, smp_prev, smp_taken, cut>>

(* __trap_handler ran the handler of hart h instruction by instruction, to *)
(* its mret or to the pause of trap_budget, and reset prev.  away: the     *)
(* hart does not go on at the interrupted place (a task switch).           *)
HandlerEnds(h, away, paused) ==
  /\ HandlerMayWrite
  /\ prev' = None
  /\ trapped' = [trapped EXCEPT ![h] = paused]
  /\ moved' = [moved EXCEPT ![h] = next_insn[h] /\ (@ \/ away \/ paused)]
  /\ crossed' = [crossed EXCEPT ![h] = Crossed(h)]
  /\ UNCHANGED <<smp_cur, smp_prev, smp_taken, cut>>

(* smp_cur # smp_hi: save the old hart's globals, load the new hart's.     *)
Swap ==
  IF smp_cur = cur THEN UNCHANGED chainVars
  ELSE /\ smp_prev' = IF smp_cur = None THEN smp_prev
                      ELSE [smp_prev EXCEPT ![smp_cur] = prev]
       /\ smp_taken' = IF smp_cur = None THEN smp_taken
                       ELSE [smp_taken EXCEPT ![smp_cur] = taken]
       /\ prev' = smp_prev[cur]
       /\ taken' = smp_taken[cur]
       /\ smp_cur' = cur

(* prev = block after a block, prev = NULL after a resumed one.            *)
BlockBecomesPrev ==
  /\ prev' = IF phase = "exec" THEN cur ELSE None
  /\ moved' = [moved EXCEPT ![cur] = FALSE]
  /\ crossed' = [crossed EXCEPT ![cur] = "none"]
  /\ UNCHANGED <<smp_cur, smp_prev, smp_taken>>

(* The block ran to its last instruction, whose outcome it recorded (only  *)
(* a conditional branch does, and only its successor is linked by it).     *)
BlockEnds ==
  /\ BlockBecomesPrev
  /\ ~trapped[cur]
  /\ taken' = cur
  /\ cut' = [cut EXCEPT ![cur] = FALSE]
  /\ UNCHANGED trapped

(* impl returned true with is_trapped set: a handler is paused, or was     *)
(* paused inside the block's ecall.  At most one instruction of the        *)
(* handler ran; after its mret is_trapped is clear.                        *)
BlockEndsTrapped(paused) ==
  /\ BlockBecomesPrev
  /\ trapped[cur] \/ paused
  /\ taken' \in {taken, cur, Handler}
  /\ trapped' = [trapped EXCEPT ![cur] = paused]
  /\ cut' = [cut EXCEPT ![cur] = TRUE]

(* The block was left half-way; with is_trapped set it would have ended.   *)
BlockYields ==
  /\ BlockBecomesPrev
  /\ ~trapped[cur]
  /\ cut' = [cut EXCEPT ![cur] = FALSE]
  /\ UNCHANGED <<taken, trapped>>

(* A handler ran instead of the end of the block (impl returned false) or  *)
(* because translating it trapped; it may have been paused.                *)
BlockTraps(paused) ==
  /\ prev' = None
  /\ HandlerMayWrite
  /\ trapped' = [trapped EXCEPT ![cur] = paused]
  /\ moved' = [moved EXCEPT ![cur] = FALSE]
  /\ crossed' = [crossed EXCEPT ![cur] = "loaded"]
  /\ UNCHANGED <<smp_cur, smp_prev, smp_taken, cut>>

----------------------------------------------------------------------------
Unchained ==
  \/ StepBegin \/ StepEnd \/ Target \/ Memory \/ HostHalt \/ Stopped
  \/ Untranslatable /\ ~trapped[cur]
  \/ \E h \in Harts : PollQuiet(h) \/ PollDeliver(h)

ChainNext ==
  \/ Unchained /\ UNCHANGED <<chainVars, trapped, histVars>>
  \/ \E h \in Harts, n \in 1 .. MaxCost, away, paused \in BOOLEAN :
        IsrEnd(h, n) /\ HandlerEnds(h, away, paused)
  \/ Dispatch /\ Swap /\ UNCHANGED <<trapped, histVars>>
  \/ \E n \in 1 .. MaxCost :
        \/ EndBlock(n) /\ BlockEnds
        \/ Yield(n) /\ BlockYields
        \/ \E paused \in BOOLEAN :
              \/ EndBlock(n) /\ BlockEndsTrapped(paused)
              \/ EndBlock(n) /\ phase = "exec" /\ BlockTraps(paused)
              \/ BlockFails(n) /\ BlockTraps(paused)

ChainSpec == ChainInit /\ [][ChainNext]_allVars

----------------------------------------------------------------------------
(* When rv_step may link the block it runs to prev, prev is a block of the *)
(* same hart, whichever hart's handlers reset the globals in between;      *)
(* is_branch_taken is what that block left, unless the block was cut short *)
(* by a paused handler; and no handler of the hart has run since while its *)
(* globals were loaded.  The two exceptions are real: a cut block is       *)
(* linked by an outcome that is not its own, and a handler that ran while  *)
(* the hart's copy was saved away resets the other hart's prev, so that    *)
(* the block before the trap is linked to the one after it.                *)
ChainOwn ==
  phase = "exec" /\ prev # None =>
    /\ prev = cur
    /\ taken = cur \/ cut[cur]
    /\ crossed[cur] # "loaded"

(* The rv_step comment "Resume from saved instruction after stack unwind": *)
(* the saved instruction is still what the hart has to execute next.       *)
ResumeInPlace == phase = "resume" => ~moved[cur]
=============================================================================
