----------------------------- MODULE MCMempool ------------------------------
(***************************************************************************)
(* Few blocks and a varied set of transactions: a parent too cheap to be    *)
(* relayed with a child that pays for it, a replaceable payment with a      *)
(* child and two competitors, one of which pays too little for the relay,   *)
(* a transaction that spends a confirmed and an unconfirmed output, and a   *)
(* payment that is locked until height 2.  The packages are a good one, one *)
(* in the wrong order and one in conflict with itself.                      *)
(***************************************************************************)
EXTENDS Blockchain, TLC

MCValue ==
     "g1" :> 10 @@ "g2" :> 10 @@ "g3" :> 10
  @@ "oP" :> 10 @@ "oC" :> 6 @@ "oR" :> 9 @@ "oX" :> 7 @@ "oB" :> 4 @@ "oN" :> 7
  @@ "oL" :> 8  @@ "oJ" :> 16
  @@ "ca" :> 5 @@ "cb" :> 6 @@ "cm" :> 5

MCOutpoints == DOMAIN MCValue

Payment(ins, outs, vsize, rbf) ==
  [ins |-> ins, outs |-> outs, vsize |-> vsize, wellFormed |-> TRUE, standard |-> TRUE,
   rbf |-> rbf, lockHeight |-> 0, lockTime |-> 0]

MCTx ==
     "parent"  :> Payment({"g1"}, {"oP"}, 1000, FALSE)            \* fee 0
  @@ "child"   :> Payment({"oP"}, {"oC"}, 1000, FALSE)            \* fee 4
  @@ "pay"     :> Payment({"g2"}, {"oR"}, 1000, TRUE)             \* fee 1
  @@ "respend" :> Payment({"oR"}, {"oX"}, 400, TRUE)              \* fee 2
  @@ "bump"    :> Payment({"g2"}, {"oB"}, 2000, TRUE)             \* fee 6
  @@ "nudge"   :> Payment({"g2"}, {"oN"}, 1000, TRUE)             \* fee 3
  @@ "locked"  :> [Payment({"g3"}, {"oL"}, 1000, FALSE) EXCEPT !.lockHeight = 2]
  @@ "join"    :> Payment({"g3", "oR"}, {"oJ"}, 1000, TRUE)       \* fee 3

MCTxs == DOMAIN MCTx

Found(branch, body, coinbase, time, chainWork) ==
  [prev |-> IF Len(branch) > 1 THEN branch[Len(branch) - 1] ELSE branch[1],
   height |-> Len(branch) - 1, body |-> body, coinbase |-> coinbase, time |-> time,
   headerOk |-> TRUE, powOk |-> TRUE, subsidy |-> 5,
   chainWork |-> chainWork, branch |-> branch]

\* m1 is what this node mines from a pool that holds the payment alone.
MCBlk ==
     "g0" :> Found(<<"g0">>, <<>>, {"g1", "g2", "g3"}, 0, 1)
  @@ "a1" :> Found(<<"g0", "a1">>, <<>>, {"ca"}, 0, 2)
  @@ "m1" :> Found(<<"g0", "m1">>, <<"pay">>, {"cb"}, 0, 2)
  @@ "a2" :> Found(<<"g0", "a1", "a2">>, <<"parent">>, {"cm"}, 0, 3)

MCBlocks == DOMAIN MCBlk

MCSubmitted == MCTxs
MCPackages == {<<"parent", "child">>, <<"child", "parent">>, <<"pay", "bump">>}
=============================================================================
