------------------------------ MODULE MCReorg -------------------------------
(***************************************************************************)
(* A small block tree for Blockchain: two competing branches that spend the *)
(* same premined coin, a heavier branch that double-spends, a block that is *)
(* ahead of the clock, and a block this node can mine itself.               *)
(*                                                                         *)
(*        +-- a1 <<t1, t3>> --- a2 <<>>                                     *)
(*   g0 --+                 \-- m2 <<>>   (found by this node)              *)
(*        +-- b1 <<t2>> --- b2 <<>> --- b3 <<t1>>  (double spend of g1)     *)
(*                      \-- f2 <<t4>>     (its time is ahead, more work)    *)
(***************************************************************************)
EXTENDS Blockchain, TLC

\* a2 and b2 have the same coinbase: same height, miner and reward.
MCValue ==
     "g1" :> 10 @@ "g2" :> 10
  @@ "o1" :> 9  @@ "o2" :> 8 @@ "o3" :> 8 @@ "o4" :> 9
  @@ "ca1" :> 7 @@ "cb1" :> 7 @@ "c2" :> 5 @@ "cm2" :> 5 @@ "cb3" :> 5 @@ "cf2" :> 6

MCOutpoints == DOMAIN MCValue

Transfer(ins, outs) ==
  [ins |-> ins, outs |-> outs, vsize |-> 1000, wellFormed |-> TRUE, standard |-> TRUE,
   rbf |-> TRUE, lockHeight |-> 0, lockTime |-> 0]

MCTx ==
     "t1" :> Transfer({"g1"}, {"o1"})
  @@ "t2" :> Transfer({"g1"}, {"o2"})
  @@ "t3" :> Transfer({"o1"}, {"o3"})
  @@ "t4" :> Transfer({"g2"}, {"o4"})

MCTxs == DOMAIN MCTx

Found(branch, body, coinbase, time, chainWork) ==
  [prev |-> IF Len(branch) > 1 THEN branch[Len(branch) - 1] ELSE branch[1],
   height |-> Len(branch) - 1, body |-> body, coinbase |-> coinbase, time |-> time,
   headerOk |-> TRUE, powOk |-> TRUE, subsidy |-> 5,
   chainWork |-> chainWork, branch |-> branch]

\* f2 was found at a lower target: it weighs as much as two other blocks.
MCBlk ==
     "g0" :> Found(<<"g0">>, <<>>, {"g1", "g2"}, 0, 1)
  @@ "a1" :> Found(<<"g0", "a1">>, <<"t1", "t3">>, {"ca1"}, 0, 2)
  @@ "a2" :> Found(<<"g0", "a1", "a2">>, <<>>, {"c2"}, 0, 3)
  @@ "m2" :> Found(<<"g0", "a1", "m2">>, <<>>, {"cm2"}, 1, 3)
  @@ "b1" :> Found(<<"g0", "b1">>, <<"t2">>, {"cb1"}, 0, 2)
  @@ "b2" :> Found(<<"g0", "b1", "b2">>, <<>>, {"c2"}, 0, 3)
  @@ "b3" :> Found(<<"g0", "b1", "b2", "b3">>, <<"t1">>, {"cb3"}, 0, 4)
  @@ "f2" :> Found(<<"g0", "b1", "f2">>, <<"t4">>, {"cf2"}, 2, 4)

MCBlocks == DOMAIN MCBlk

MCSubmitted == MCTxs
NoPackages == {}
=============================================================================
