---- MODULE BlockClock ----
(***************************************************************************)
(* What a contract reads with self.env().block_number(): every message of  *)
(* a block sees the same number, and no message changes it.                *)
(***************************************************************************)
EXTENDS FiniteSets, Integers, Sequences

CONSTANT MaxBlock    \* bound: the last block of a behaviour

ASSUME ChainConstants == MaxBlock \in Nat

VARIABLE block

ChainInit == block = 1

\* Block production, which no contract controls.
NextBlock ==
    /\ block < MaxBlock
    /\ block' = block + 1
====
