----------------------------- MODULE MCConverge -----------------------------
(***************************************************************************)
(* A block tree for the progress of Blockchain and of nodes that ask one     *)
(* another: an equal-work fork, one hard block that outweighs easy ones,    *)
(* a heavier branch that becomes valid only when time passes, and a heaviest*)
(* one that double-spends and never does.  A behaviour is about one node    *)
(* that is offered everything, or about nodes that relay and ask.           *)
(*                                                                         *)
(*   g0 --+-- a1 <<t1>> --- h2 <<>>  (hard)                                 *)
(*        +-- b1 <<t2>> --- f2 <<>>  (ahead of the clock)                   *)
(*                      \-- b2 <<>> --- b3 <<t1>>  (double spend)           *)
(***************************************************************************)
EXTENDS Blockchain, NodeSync, TLC

VARIABLE load

MCValue ==
     "g1" :> 10 @@ "o1" :> 9  @@ "o2" :> 8
  @@ "ca1" :> 6 @@ "cb1" :> 7 @@ "cf2" :> 5 @@ "cb2" :> 4 @@ "cb3" :> 5 @@ "ch" :> 5

MCOutpoints == DOMAIN MCValue

Transfer(ins, outs) ==
  [ins |-> ins, outs |-> outs, vsize |-> 1000, wellFormed |-> TRUE, standard |-> TRUE,
   rbf |-> FALSE, lockHeight |-> 0, lockTime |-> 0]

MCTx == "t1" :> Transfer({"g1"}, {"o1"}) @@ "t2" :> Transfer({"g1"}, {"o2"})
MCTxs == DOMAIN MCTx

Found(branch, body, coinbase, time, chainWork) ==
  [prev |-> IF Len(branch) > 1 THEN branch[Len(branch) - 1] ELSE branch[1],
   height |-> Len(branch) - 1, body |-> body, coinbase |-> coinbase, time |-> time,
   headerOk |-> TRUE, powOk |-> TRUE, subsidy |-> 5,
   chainWork |-> chainWork, branch |-> branch]

MCBlk ==
     "g0" :> Found(<<"g0">>, <<>>, {"g1"}, 0, 1)
  @@ "a1" :> Found(<<"g0", "a1">>, <<"t1">>, {"ca1"}, 0, 2)
  @@ "b1" :> Found(<<"g0", "b1">>, <<"t2">>, {"cb1"}, 0, 2)
  @@ "b2" :> Found(<<"g0", "b1", "b2">>, <<>>, {"cb2"}, 0, 3)
  @@ "b3" :> Found(<<"g0", "b1", "b2", "b3">>, <<"t1">>, {"cb3"}, 0, 7)
  @@ "f2" :> Found(<<"g0", "b1", "f2">>, <<>>, {"cf2"}, 2, 6)
  @@ "h2" :> Found(<<"g0", "a1", "h2">>, <<>>, {"ch"}, 0, 5)

MCBlocks == DOMAIN MCBlk

NoTxs == {}
NoPackages == {}

OneWay == "n1" :> {"n2"} @@ "n2" :> {}
BothWays == "n1" :> {"n2"} @@ "n2" :> {"n1"}
MCTopologies == {OneWay, BothWays}

ConvergeInit == load \in {"one", "ask", "net"} /\ Init /\ NetInit /\ (load = "net" <=> peers = BothWays)

\* One node asks another for up to four blocks that nobody brings it ...
AskLoad ==
  /\ load = "ask" /\ NetNext /\ UNCHANGED <<load, vars>>
  /\ Cardinality(found') <= 4 /\ \A b \in Blocks : <<"n1", b>> \notin mail'
\* ... or both relay and ask, for two.
NetLoad == load = "net" /\ NetNext /\ Cardinality(found') <= 2 /\ UNCHANGED <<load, vars>>

ConvergeNext ==
  \/ load = "one" /\ Next /\ UNCHANGED <<load, netVars>>
  \/ AskLoad
  \/ NetLoad

\* FairSpec and NetFairness, of the behaviours they are about.
ConvergeFairness ==
  /\ WF_vars(load = "one" /\ Tick) /\ \A b \in Blocks : WF_vars(load = "one" /\ AddBlock(b))
  /\ \A n \in Nodes : WF_netVars(load # "one" /\ PassStep(n))

ConvergeSpec == ConvergeInit /\ [][ConvergeNext]_<<load, vars, netVars>> /\ ConvergeFairness

\* The node that is offered every block again and again ends on the heaviest
\* branch that becomes valid (chain.py:1287-1373).
OfferedConverges == load = "one" => Converges
=============================================================================
