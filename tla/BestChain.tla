----------------------------- MODULE BestChain ------------------------------
(***************************************************************************)
(* What a node promises about the ledger it serves: at every moment one     *)
(* fully valid chain and exactly its unspent outputs, and the only way to   *)
(* another ledger is a valid chain with strictly more cumulative work.  How *)
(* blocks arrive, wait and are reorganised is not visible here.             *)
(***************************************************************************)
EXTENDS Integers, Sequences

CONSTANTS
  Blocks, Blk, Genesis,  \* as in Ledger
  UtxosOf(_),            \* the unspent outputs of a chain
  ValidBranch(_, _)      \* a chain passes validation at a time

VARIABLES
  best,   \* the chain served
  coins,  \* its unspent outputs
  clock   \* the local time blocks are judged by

served == <<best, coins>>

Init ==
  /\ best = <<Genesis>>
  /\ coins = UtxosOf(<<Genesis>>)
  /\ clock = 0

Adopt(b) ==
  /\ Blk[b].chainWork > Blk[best[Len(best)]].chainWork
  /\ best' = Blk[b].branch
  /\ ValidBranch(best', clock)
  /\ coins' = UtxosOf(best')
  /\ UNCHANGED clock

Pass ==
  /\ clock' \in Nat
  /\ clock' >= clock
  /\ UNCHANGED served

Next == (\E b \in Blocks : Adopt(b)) \/ Pass

Spec == Init /\ [][Next]_<<best, coins, clock>>
=============================================================================
