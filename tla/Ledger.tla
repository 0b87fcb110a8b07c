------------------------------- MODULE Ledger -------------------------------
(***************************************************************************)
(* The consensus rules of netcoin/chain.py as pure operators: which         *)
(* transaction is valid on a set of unspent outputs, which block extends a  *)
(* prefix, which branch is a valid chain, and what its UTXO set is.         *)
(*                                                                         *)
(* Blocks and transactions are content-addressed in the code (a hash names  *)
(* one value for ever), so they are constants here: Blocks and Txs are the  *)
(* sets of hashes and txids, Blk and Tx give the content behind each one.   *)
(* A UTXO set is a set of outpoints; amount and creation height of an       *)
(* outpoint are functions of the outpoint.                                  *)
(***************************************************************************)
EXTENDS Integers, Sequences, FiniteSets, Functions

CONSTANTS
  Outpoints,        \* "txid:vout" keys of outputs with a positive amount
  Value,            \* amount of each outpoint
  Txs, Tx,          \* regular transactions: txids and their content
  Blocks, Blk,      \* blocks: hashes and their content
  Genesis,          \* create_genesis_block(allocation).hash()
  CoinbaseMaturity, \* params.COINBASE_MATURITY
  MaxFutureDrift    \* the two hours a block may be ahead of the local clock

\* What the rules read of a transaction.  wellFormed stands for the checks that
\* look at the transaction alone (not a coinbase, distinct inputs, positive
\* output total within MAX_MONEY, signatures of its inputs); standard for
\* check_standard_transaction_shape.
TxContent ==
  [ins : SUBSET Outpoints, outs : SUBSET Outpoints, vsize : Nat \ {0},
   wellFormed : BOOLEAN, standard : BOOLEAN, rbf : BOOLEAN,
   lockHeight : Nat, lockTime : Nat]

\* What the rules read of a block.  headerOk stands for the checks on the block
\* and its fixed ancestors: checkpoint, median time, bits, merkle root, witness
\* commitment, weight and the position of the coinbase.  subsidy is subsidy() at
\* the block's height on its own prefix, chainWork the cumulative work of the
\* branch that ends in it, and branch that branch.
BlockContent ==
  [prev : Blocks, height : Nat, body : Seq(Txs), coinbase : SUBSET Outpoints,
   time : Nat, headerOk : BOOLEAN, powOk : BOOLEAN, subsidy : Nat,
   chainWork : Nat, branch : Seq(Blocks)]

ASSUME CatalogueAssumption ==
  /\ Value \in [Outpoints -> Nat]
  /\ Tx \in [Txs -> TxContent]
  /\ Blk \in [Blocks -> BlockContent]
  /\ Genesis \in Blocks
  /\ CoinbaseMaturity \in Nat
  /\ MaxFutureDrift \in Nat

\* Inputs and outputs are lists.
ASSUME FiniteAssumption ==
  /\ \A t \in Txs : IsFiniteSet(Tx[t].ins) /\ IsFiniteSet(Tx[t].outs)
  /\ \A b \in Blocks : IsFiniteSet(Blk[b].coinbase)

\* A header names one predecessor, so a block has one branch, and block_work
\* is positive, so cumulative work grows along it.
ASSUME BranchAssumption ==
  /\ Blk[Genesis].branch = <<Genesis>>
  /\ Blk[Genesis].height = 0
  /\ Blk[Genesis].body = <<>>
  /\ \A b \in Blocks \ {Genesis} :
       /\ Blk[b].branch = Append(Blk[Blk[b].prev].branch, b)
       /\ Blk[b].chainWork > Blk[Blk[b].prev].chainWork

\* A txid commits to the inputs and outputs, so an outpoint has one creating
\* transaction; a coinbase txid commits to its height
\* (create_coinbase_transaction), so blocks that share one are siblings.
ASSUME OutpointAssumption ==
  /\ \A t \in Txs : Tx[t].ins # {}
  /\ \A t, s \in Txs : t # s => Tx[t].outs \cap Tx[s].outs = {}
  /\ \A t \in Txs, b \in Blocks : Tx[t].outs \cap Blk[b].coinbase = {}
  /\ \A b, c \in Blocks :
       Blk[b].coinbase \cap Blk[c].coinbase # {} => Blk[b].height = Blk[c].height

-----------------------------------------------------------------------------
(* Sums and unions over transactions and blocks *)

Tip(c) == c[Len(c)]
BlocksIn(s) == {s[i] : i \in DOMAIN s}

Ins(t) == Tx[t].ins
Outs(t) == Tx[t].outs

SumValue(S) == SumFunctionOnSet(Value, S)

\* What validate_regular_transaction returns once every input was found.
Fee(t) == SumValue(Ins(t)) - SumValue(Outs(t))

TxsOf(b) == {Blk[b].body[i] : i \in DOMAIN Blk[b].body}
BlockIns(b) == UNION {Ins(t) : t \in TxsOf(b)}
BlockOuts(b) == Blk[b].coinbase \cup UNION {Outs(t) : t \in TxsOf(b)}

Created(s) == UNION {BlockOuts(s[i]) : i \in DOMAIN s}
Spent(s) == UNION {BlockIns(s[i]) : i \in DOMAIN s}
ConfirmedTxs(s) == UNION {TxsOf(s[i]) : i \in DOMAIN s}

\* Faulty variant: a rescan that forgets to remove what was spent.
FaultyUtxosOf(s) == Created(s)

\* The UTXO set of a chain, from scratch: what was created and not spent.
UtxosOf(s) == Created(s) \ Spent(s)

\* Faulty variants: inputs are never deleted, or the block's inputs are deleted
\* before its outputs are added, so that a chain within the block survives.
FaultyApplyKeeps(b, u) == u \cup BlockOuts(b)
FaultyApplyOrder(b, u) == (u \ BlockIns(b)) \cup BlockOuts(b)

\* The UTXO set u after connecting one more block.
ApplyBlock(b, u) == (u \cup BlockOuts(b)) \ BlockIns(b)

\* Faulty variant: the replay adds outputs and never deletes inputs.
FaultyViewBefore(u, txs, i) == u \cup UNION {Outs(txs[j]) : j \in 1..(i - 1)}

\* The temporary UTXO set a transaction list is replayed on, before entry i.
ViewBefore(u, txs, i) ==
  (u \cup UNION {Outs(txs[j]) : j \in 1..(i - 1)})
     \ UNION {Ins(txs[j]) : j \in 1..(i - 1)}

-----------------------------------------------------------------------------
(* Validity *)

CoinbaseHeights(o) == {Blk[b].height : b \in {c \in Blocks : o \in Blk[c].coinbase}}
Mature(o, h) == \A g \in CoinbaseHeights(o) : h - g >= CoinbaseMaturity

LockExpired(t, h, time) == Tx[t].lockHeight <= h /\ Tx[t].lockTime <= time

TxValid(t, view, h, time) ==
  /\ Tx[t].wellFormed
  /\ LockExpired(t, h, time)
  /\ Ins(t) \subseteq view
  /\ \A o \in Ins(t) : Mature(o, h)
  /\ Fee(t) >= 0

\* A transaction list replayed in order on u, as a block body or a mempool is.
ListValid(txs, u, h, time) ==
  \A i \in DOMAIN txs : TxValid(txs[i], ViewBefore(u, txs, i), h, time)

BlockFees(b) == SumFunctionOnSet([t \in TxsOf(b) |-> Fee(t)], TxsOf(b))

NoDuplicates(txs) == \A i, j \in DOMAIN txs : txs[i] = txs[j] => i = j

BlockValid(b, prev, u, time) ==
  /\ Blk[b].prev = prev
  /\ Blk[b].height = Blk[prev].height + 1
  /\ Blk[b].headerOk
  /\ Blk[b].powOk
  /\ Blk[b].time <= time + MaxFutureDrift
  /\ NoDuplicates(Blk[b].body)
  /\ ListValid(Blk[b].body, u, Blk[b].height, time)
  /\ SumValue(Blk[b].coinbase) \in 1..(Blk[b].subsidy + BlockFees(b))

ValidBranch(s, time) ==
  /\ s # <<>>
  /\ s[1] = Genesis
  /\ \A i \in 2..Len(s) :
       BlockValid(s[i], s[i - 1], UtxosOf(SubSeq(s, 1, i - 1)), time)

Position(b, o) == CHOOSE i \in DOMAIN o : o[i] = b

\* Of the stored blocks tips the heaviest, and of equals the one stored first.
\* At most one block.
Best(tips, o) ==
  {b \in tips : \A d \in tips :
    \/ Blk[b].chainWork > Blk[d].chainWork
    \/ Blk[b].chainWork = Blk[d].chainWork /\ Position(b, o) <= Position(d, o)}
=============================================================================
