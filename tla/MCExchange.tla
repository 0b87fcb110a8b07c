------------------------------ MODULE MCExchange ------------------------------
(***************************************************************************)
(* Small instances of ExchangeDeposits.  Two branches leave the genesis     *)
(* block: a short one and a longer one that orphans it, and on top of the   *)
(* latter nothing more.  Each deposit's transaction is mined in both, at a  *)
(* different height in each.                                                *)
(***************************************************************************)
EXTENDS ExchangeDeposits

CONSTANTS d1, d2, alice, bob, g, a1, a2, b1, b2, b3

MCOwner == [d \in Deposits |-> IF d = d1 THEN alice ELSE bob]

MCChains == {<<g>>, <<g, a1>>, <<g, a1, a2>>, <<g, b1, b2, b3>>}

\* The genesis block alone, and one block on it.
MCFirst == <<g>>
MCMined == <<g, a1>>

\* Both deposits are mined on the short branch and the first one again, later,
\* on the long one.
MCMinedIn == [d \in Deposits |-> IF d = d1 THEN {a1, b3} ELSE {a1}]

MCAllReports == [block : BOOLEAN, height : BOOLEAN]
MCWithBlock == {[block |-> TRUE, height |-> h] : h \in BOOLEAN}
MCNoHeight == {[block |-> TRUE, height |-> FALSE]}
=============================================================================
