------------------------------ MODULE MCStore -------------------------------
(***************************************************************************)
(* A block tree for ChainStore: a chain of four blocks, a shorter branch of *)
(* more work that spends the same coin, and a block that overspends.        *)
(*                                                                         *)
(*   g0 --- a1 <<t1>> --- a2 <<t2>> --- a3 <<>>                             *)
(*    |        \--- x2 <<t3>>   (spends the coin of t1 again)               *)
(*     \--- b1 <<t3>> --- b2 <<>>   (more work than a3)                     *)
(***************************************************************************)
EXTENDS ChainStore, TLC

MCValue ==
     "g1" :> 10 @@ "o1" :> 9 @@ "o2" :> 9 @@ "o3" :> 8
  @@ "ca1" :> 5 @@ "ca2" :> 5 @@ "ca3" :> 5 @@ "cx2" :> 5 @@ "cb1" :> 5 @@ "cb2" :> 5

MCOutpoints == DOMAIN MCValue

Pay(in, out) ==
  [ins |-> {in}, outs |-> {out}, vsize |-> 1000, wellFormed |-> TRUE, standard |-> TRUE,
   rbf |-> FALSE, lockHeight |-> 0, lockTime |-> 0]

MCTx == "t1" :> Pay("g1", "o1") @@ "t2" :> Pay("o1", "o2") @@ "t3" :> Pay("g1", "o3")

MCTxs == DOMAIN MCTx

Found(branch, txs, coinbase, chainWork) ==
  [prev |-> IF Len(branch) > 1 THEN branch[Len(branch) - 1] ELSE branch[1],
   height |-> Len(branch) - 1, body |-> txs, coinbase |-> {coinbase}, time |-> 0,
   headerOk |-> TRUE, powOk |-> TRUE, subsidy |-> 5,
   chainWork |-> chainWork, branch |-> branch]

\* b1 and b2 were found at a lower target.
MCBlk ==
     "g0" :> Found(<<"g0">>, <<>>, "g1", 1)
  @@ "a1" :> Found(<<"g0", "a1">>, <<"t1">>, "ca1", 2)
  @@ "a2" :> Found(<<"g0", "a1", "a2">>, <<"t2">>, "ca2", 3)
  @@ "a3" :> Found(<<"g0", "a1", "a2", "a3">>, <<>>, "ca3", 4)
  @@ "x2" :> Found(<<"g0", "a1", "x2">>, <<"t3">>, "cx2", 6)
  @@ "b1" :> Found(<<"g0", "b1">>, <<"t3">>, "cb1", 3)
  @@ "b2" :> Found(<<"g0", "b1", "b2">>, <<>>, "cb2", 5)

MCBlocks == DOMAIN MCBlk
=============================================================================
