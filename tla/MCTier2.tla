------------------------------ MODULE MCTier2 ------------------------------
(***************************************************************************)
(* Instances of Tier2 for TLC: a block that branches to another on its     *)
(* page, which ends with the page and goes on to a block of the next.      *)
(***************************************************************************)
EXTENDS Tier2, TLC

CONSTANTS b1, b2, b3

TwoBlocks == {b1, b2}
ThreeBlocks == TwoBlocks \cup {b3}
AnyOfTwo == Permutations(TwoBlocks)
AnyOfThree == Permutations(ThreeBlocks)

MCPageOf == [k \in Keys |-> IF k = 3 THEN 1 ELSE 0]

(* A branch inside a page, then the end of the page; or none.              *)
OverPageEnd == [k \in Keys |-> CASE k = 1 -> {2} [] k = 2 -> {3} [] OTHER -> {}]
NoBranch == [k \in Keys |-> {}]
=============================================================================
