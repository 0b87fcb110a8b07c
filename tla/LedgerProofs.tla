---------------------------- MODULE LedgerProofs ----------------------------
(***************************************************************************)
(* Facts about the consensus rules of Ledger, for every catalogue of blocks *)
(* and transactions: what one more block does to the UTXO set, that a valid *)
(* branch never creates an outpoint it has already spent, and that it never *)
(* spends one twice.                                                        *)
(***************************************************************************)
EXTENDS Ledger, DataProofs

-----------------------------------------------------------------------------
(* Branches as sequences *)

\* The last block of a branch is the block that names it.
LEMMA BranchTip ==
  ASSUME NEW b \in Blocks
  PROVE  /\ Blk[b].branch \in Seq(Blocks)
         /\ Len(Blk[b].branch) \in Nat \ {0}
         /\ Blk[b].branch[Len(Blk[b].branch)] = b
<1>1. Blk[b].branch \in Seq(Blocks)
  BY CatalogueAssumption DEF BlockContent
<1>2. CASE b = Genesis
  BY <1>1, <1>2, BranchAssumption
<1>3. CASE b # Genesis
  <2> DEFINE p == Blk[Blk[b].prev].branch
  <2>1. Blk[b].prev \in Blocks
    BY CatalogueAssumption DEF BlockContent
  <2>2. p \in Seq(Blocks)
    BY <2>1, CatalogueAssumption DEF BlockContent
  <2>3. Blk[b].branch = Append(p, b)
    BY <1>3, BranchAssumption
  <2> HIDE DEF p
  <2> QED
    BY <1>1, <2>2, <2>3, AppendProperties
<1> QED
  BY <1>2, <1>3

\* What the catalogues promise of one block and of one transaction.
LEMMA BlockTypes ==
  ASSUME NEW b \in Blocks
  PROVE  /\ Blk[b].prev \in Blocks
         /\ Blk[b].height \in Nat
         /\ Blk[b].time \in Nat
         /\ Blk[b].chainWork \in Nat
         /\ Blk[b].coinbase \subseteq Outpoints
         /\ Blk[b].subsidy \in Nat
         /\ Blk[b].body \in Seq(Txs)
         /\ DOMAIN Blk[b].body = 1..Len(Blk[b].body)
         /\ Len(Blk[b].body) \in Nat
         /\ \A i \in 1..Len(Blk[b].body) : Blk[b].body[i] \in Txs
<1>1. Blk[b] \in BlockContent
  BY CatalogueAssumption
<1> QED
  BY <1>1 DEF BlockContent

LEMMA TxTypes ==
  ASSUME NEW t \in Txs
  PROVE  /\ Tx[t].ins \subseteq Outpoints
         /\ Tx[t].outs \subseteq Outpoints
         /\ Tx[t].lockHeight \in Nat
         /\ Tx[t].lockTime \in Nat
         /\ Tx[t].vsize \in Nat \ {0}
BY CatalogueAssumption DEF TxContent

\* A UTXO set is a set of outpoints.
LEMMA UtxosAreOutpoints ==
  ASSUME NEW s \in Seq(Blocks)
  PROVE  UtxosOf(s) \subseteq Outpoints
<1>1. ASSUME NEW b \in Blocks
      PROVE  BlockOuts(b) \subseteq Outpoints
  BY BlockTypes, TxTypes DEF BlockOuts, TxsOf, Outs
<1>2. \A i \in DOMAIN s : s[i] \in Blocks
  OBVIOUS
<1> QED
  BY <1>1, <1>2 DEF UtxosOf, Created

\* Every prefix of a valid branch is a valid branch, and each block of it is
\* valid on the UTXO set of the blocks before it.
LEMMA BranchPrefix ==
  ASSUME NEW s \in Seq(Blocks), NEW time, ValidBranch(s, time),
         NEW n \in 1..Len(s)
  PROVE  /\ SubSeq(s, 1, n) \in Seq(Blocks)
         /\ Len(SubSeq(s, 1, n)) = n
         /\ \A i \in 1..n : SubSeq(s, 1, n)[i] = s[i]
         /\ ValidBranch(SubSeq(s, 1, n), time)
<1> DEFINE p == SubSeq(s, 1, n)
<1>1. n \in Nat /\ 1 <= n /\ n <= Len(s) /\ Len(s) \in Nat
  OBVIOUS
<1>2. p \in Seq(Blocks) /\ Len(p) = n /\ \A i \in 1..n : p[i] = s[i]
  <2>1. \A i \in 1..n : s[i] \in Blocks
    BY <1>1, ElementOfSeq
  <2> QED
    BY <1>1, <2>1, SubSeqProperties
<1>3. ASSUME NEW i \in 2..n
      PROVE  SubSeq(p, 1, i - 1) = SubSeq(s, 1, i - 1)
  <2>1. i - 1 \in 1..(n - 1 + 1) /\ 1 \in 1..(n - 1 + 1) /\ 1 \in 1..Len(s) /\ n \in 1..Len(s)
    BY <1>1
  <2>2. SubSeq(p, 1, i - 1) = SubSeq(s, 1 + 1 - 1, 1 + (i - 1) - 1)
    BY <2>1, SubSeqOfSubSeq
  <2> QED
    BY <1>1, <2>2
<1>4. ValidBranch(p, time)
  <2>1. p # <<>> /\ p[1] = Genesis
    BY <1>1, <1>2 DEF ValidBranch
  <2>2. ASSUME NEW i \in 2..Len(p)
        PROVE  BlockValid(p[i], p[i - 1], UtxosOf(SubSeq(p, 1, i - 1)), time)
    <3>1. i \in 2..n /\ i \in 2..Len(s) /\ i \in 1..n /\ i - 1 \in 1..n
      BY <1>1, <1>2
    <3>2. BlockValid(s[i], s[i - 1], UtxosOf(SubSeq(s, 1, i - 1)), time)
      BY <3>1 DEF ValidBranch
    <3> QED
      BY <1>2, <1>3, <3>1, <3>2
  <2> HIDE DEF p
  <2> QED
    BY <2>1, <2>2 DEF ValidBranch
<1> HIDE DEF p
<1> QED
  BY <1>2, <1>4 DEF p

\* The height in a header is the position in the branch: validation makes it one
\* more than that of the predecessor, from 0 for genesis.
LEMMA HeightIsPosition ==
  ASSUME NEW s \in Seq(Blocks), NEW time, ValidBranch(s, time)
  PROVE  \A i \in 1..Len(s) : Blk[s[i]].height = i - 1
<1> DEFINE wrong == {i \in 1..Len(s) : Blk[s[i]].height # i - 1}
<1>1. SUFFICES ASSUME wrong # {} PROVE FALSE
  OBVIOUS
<1>2. PICK m \in wrong : \A n \in wrong : m <= n
  <2>1. wrong \subseteq Nat
    OBVIOUS
  <2> HIDE DEF wrong
  <2> QED
    BY <1>1, <2>1, LeastElement
<1>3. m # 1
  BY BranchAssumption DEF ValidBranch
<1>4. m \in 2..Len(s) /\ m - 1 \in 1..Len(s)
  BY <1>3
<1>5. Blk[s[m - 1]].height = (m - 1) - 1
  BY <1>2, <1>4
<1>6. Blk[s[m]].height = Blk[s[m - 1]].height + 1
  BY <1>4 DEF ValidBranch, BlockValid
<1> QED
  BY <1>4, <1>5, <1>6

-----------------------------------------------------------------------------
(* What a valid branch creates and spends *)

\* A transaction of a valid list spends what was unspent before the list or is
\* created by an earlier entry, and nothing an earlier entry spends.
LEMMA ListInputs ==
  ASSUME NEW txs, NEW u, NEW h, NEW time, ListValid(txs, u, h, time),
         NEW i \in DOMAIN txs, NEW o \in Ins(txs[i])
  PROVE  /\ \A j \in 1..(i - 1) : o \notin Ins(txs[j])
         /\ o \in u \/ \E j \in 1..(i - 1) : o \in Outs(txs[j])
<1>1. o \in ViewBefore(u, txs, i)
  BY DEF ListValid, TxValid
<1> QED
  BY <1>1 DEF ViewBefore

\* The same for a block: an input is unspent on the prefix or made in the block.
LEMMA BlockInputs ==
  ASSUME NEW b \in Blocks, NEW u, NEW time,
         ListValid(Blk[b].body, u, Blk[b].height, time)
  PROVE  BlockIns(b) \subseteq u \cup BlockOuts(b)
<1> SUFFICES ASSUME NEW o \in BlockIns(b)
             PROVE  o \in u \cup BlockOuts(b)
  OBVIOUS
<1>1. PICK i \in DOMAIN Blk[b].body : o \in Ins(Blk[b].body[i])
  BY DEF BlockIns, TxsOf
<1>2. CASE o \in u
  BY <1>2
<1>3. CASE \E j \in 1..(i - 1) : o \in Outs(Blk[b].body[j])
  <2>1. PICK j \in 1..(i - 1) : o \in Outs(Blk[b].body[j])
    BY <1>3
  <2>2. j \in DOMAIN Blk[b].body
    BY <2>1, BlockTypes
  <2> QED
    BY <2>1, <2>2 DEF BlockOuts, TxsOf
<1> QED
  BY <1>1, <1>2, <1>3, ListInputs

\* A valid branch spends only what it created.
LEMMA SpentWasCreated ==
  ASSUME NEW s \in Seq(Blocks), NEW time, ValidBranch(s, time)
  PROVE  Spent(s) \subseteq Created(s)
<1> SUFFICES ASSUME NEW i \in 1..Len(s)
             PROVE  BlockIns(s[i]) \subseteq Created(s)
  BY DEF Spent
<1>1. CASE i = 1
  <2>1. Blk[s[i]].body = <<>>
    BY <1>1, BranchAssumption DEF ValidBranch
  <2> QED
    BY <2>1 DEF BlockIns, TxsOf
<1>2. CASE i # 1
  <2> DEFINE p == SubSeq(s, 1, i - 1)
  <2>1. i \in 2..Len(s) /\ i - 1 \in 1..Len(s) /\ s[i] \in Blocks
    BY <1>2
  <2>2. ListValid(Blk[s[i]].body, UtxosOf(p), Blk[s[i]].height, time)
    BY <2>1 DEF ValidBranch, BlockValid
  <2>3. BlockIns(s[i]) \subseteq UtxosOf(p) \cup BlockOuts(s[i])
    BY <2>1, <2>2, BlockInputs
  <2>4. UtxosOf(p) \subseteq Created(s)
    <3>1. Len(p) = i - 1 /\ DOMAIN p = 1..(i - 1) /\ \A k \in 1..(i - 1) : p[k] = s[k]
      BY <2>1, BranchPrefix
    <3> HIDE DEF p
    <3> QED
      BY <2>1, <3>1 DEF UtxosOf, Created
  <2>5. BlockOuts(s[i]) \subseteq Created(s)
    BY DEF Created
  <2> QED
    BY <2>3, <2>4, <2>5
<1> QED
  BY <1>1, <1>2

\* An output of a transaction is created nowhere else, and an output of the
\* coinbase of a block above a valid branch not in that branch.
LEMMA Creator ==
  ASSUME NEW s \in Seq(Blocks), NEW t \in Txs, NEW o \in Outs(t), o \in Created(s)
  PROVE  t \in ConfirmedTxs(s)
<1>1. PICK k \in DOMAIN s : o \in BlockOuts(s[k])
  BY DEF Created
<1>2. s[k] \in Blocks
  BY <1>1
<1>3. o \notin Blk[s[k]].coinbase
  BY <1>2, OutpointAssumption DEF Outs
<1>4. PICK r \in TxsOf(s[k]) : o \in Outs(r)
  BY <1>1, <1>3 DEF BlockOuts
<1>5. r \in Txs
  BY <1>2, <1>4, BlockTypes DEF TxsOf
<1>6. r = t
  BY <1>4, <1>5, OutpointAssumption DEF Outs
<1> QED
  BY <1>1, <1>4, <1>6 DEF ConfirmedTxs

LEMMA CoinbaseIsNew ==
  ASSUME NEW s \in Seq(Blocks), NEW time, ValidBranch(s, time),
         NEW b \in Blocks, Blk[b].height = Blk[s[Len(s)]].height + 1
  PROVE  Blk[b].coinbase \cap Created(s) = {}
<1> SUFFICES ASSUME NEW o \in Blk[b].coinbase, o \in Created(s)
             PROVE  FALSE
  OBVIOUS
<1>1. PICK k \in 1..Len(s) : o \in BlockOuts(s[k])
  BY DEF Created
<1>2. s[k] \in Blocks /\ Len(s) \in 1..Len(s)
  BY <1>1
<1>3. CASE o \in Blk[s[k]].coinbase
  <2>1. Blk[s[k]].height = Blk[b].height
    BY <1>2, <1>3, OutpointAssumption
  <2>2. Blk[s[k]].height = k - 1 /\ Blk[s[Len(s)]].height = Len(s) - 1
    BY <1>2, HeightIsPosition
  <2> QED
    BY <2>1, <2>2
<1>4. CASE o \notin Blk[s[k]].coinbase
  <2>1. PICK r \in TxsOf(s[k]) : o \in Outs(r)
    BY <1>1, <1>4 DEF BlockOuts
  <2>2. r \in Txs
    BY <1>2, <2>1, BlockTypes DEF TxsOf
  <2> QED
    BY <2>1, <2>2, OutpointAssumption DEF Outs
<1> QED
  BY <1>3, <1>4

\* No transaction of a list that replays on a valid branch is already confirmed:
\* the first such one would need an input made again by an earlier one of the list.
LEMMA ReplayedAreNew ==
  ASSUME NEW s \in Seq(Blocks), NEW time, ValidBranch(s, time),
         NEW txs \in Seq(Txs), NEW h, NEW t, ListValid(txs, UtxosOf(s), h, t)
  PROVE  \A i \in 1..Len(txs) : txs[i] \notin ConfirmedTxs(s)
<1> DEFINE again == {i \in 1..Len(txs) : txs[i] \in ConfirmedTxs(s)}
<1>1. DOMAIN txs = 1..Len(txs) /\ Len(txs) \in Nat /\ \A i \in 1..Len(txs) : txs[i] \in Txs
  OBVIOUS
<1>2. SUFFICES ASSUME again # {} PROVE FALSE
  OBVIOUS
<1>3. PICK m \in again : \A n \in again : m <= n
  <2>1. again \subseteq Nat
    BY <1>1
  <2> HIDE DEF again
  <2> QED
    BY <1>2, <2>1, LeastElement
<1>4. PICK o : o \in Ins(txs[m])
  BY <1>1, OutpointAssumption DEF Ins
<1>5. o \in Spent(s)
  <2>1. PICK k \in DOMAIN s : txs[m] \in TxsOf(s[k])
    BY DEF ConfirmedTxs
  <2> QED
    BY <1>4, <2>1 DEF Spent, BlockIns
<1>6. o \in Created(s) /\ o \notin UtxosOf(s)
  BY <1>5, SpentWasCreated DEF UtxosOf
<1>7. PICK j \in 1..(m - 1) : o \in Outs(txs[j])
  BY <1>1, <1>4, <1>6, ListInputs
<1>8. j \in 1..Len(txs) /\ j < m
  BY <1>1
<1>9. txs[j] \in ConfirmedTxs(s)
  BY <1>1, <1>6, <1>7, <1>8, Creator
<1> QED
  BY <1>3, <1>8, <1>9

\* So is none of a valid block below it.
LEMMA TransactionsAreNew ==
  ASSUME NEW s \in Seq(Blocks), NEW time, ValidBranch(s, time),
         NEW b \in Blocks, BlockValid(b, s[Len(s)], UtxosOf(s), time)
  PROVE  TxsOf(b) \cap ConfirmedTxs(s) = {}
<1>1. ListValid(Blk[b].body, UtxosOf(s), Blk[b].height, time)
  BY DEF BlockValid
<1>2. Blk[b].body \in Seq(Txs) /\ DOMAIN Blk[b].body = 1..Len(Blk[b].body)
  BY BlockTypes
<1>3. \A i \in 1..Len(Blk[b].body) : Blk[b].body[i] \notin ConfirmedTxs(s)
  BY <1>1, <1>2, ReplayedAreNew
<1> QED
  BY <1>2, <1>3 DEF TxsOf

\* Hence a valid block creates no outpoint the branch below it ever created.
LEMMA OutputsAreNew ==
  ASSUME NEW s \in Seq(Blocks), NEW time, ValidBranch(s, time),
         NEW b \in Blocks, BlockValid(b, s[Len(s)], UtxosOf(s), time)
  PROVE  BlockOuts(b) \cap Created(s) = {}
<1> SUFFICES ASSUME NEW o \in BlockOuts(b), o \in Created(s)
             PROVE  FALSE
  OBVIOUS
<1>1. Blk[b].height = Blk[s[Len(s)]].height + 1
  BY DEF BlockValid
<1>2. o \notin Blk[b].coinbase
  BY <1>1, CoinbaseIsNew
<1>3. PICK t \in TxsOf(b) : o \in Outs(t)
  BY <1>2 DEF BlockOuts
<1>4. t \in Txs
  BY <1>3, BlockTypes DEF TxsOf
<1>5. t \in ConfirmedTxs(s)
  BY <1>3, <1>4, Creator
<1> QED
  BY <1>3, <1>5, TransactionsAreNew

-----------------------------------------------------------------------------
(* Connecting a block *)

\* One more block at the end of a branch.
LEMMA Extended ==
  ASSUME NEW s \in Seq(Blocks), NEW b \in Blocks
  PROVE  /\ Append(s, b) \in Seq(Blocks)
         /\ Len(Append(s, b)) = Len(s) + 1
         /\ \A i \in 1..Len(s) : Append(s, b)[i] = s[i]
         /\ Append(s, b)[Len(s) + 1] = b
         /\ Created(Append(s, b)) = Created(s) \cup BlockOuts(b)
         /\ Spent(Append(s, b)) = Spent(s) \cup BlockIns(b)
<1> DEFINE e == Append(s, b)
<1>1. /\ e \in Seq(Blocks)
      /\ Len(e) = Len(s) + 1 /\ Len(s) \in Nat
      /\ DOMAIN e = 1..(Len(s) + 1) /\ DOMAIN s = 1..Len(s)
      /\ \A i \in 1..Len(s) : e[i] = s[i]
      /\ e[Len(s) + 1] = b
  BY AppendProperties, LenProperties
<1>2. 1..(Len(s) + 1) = 1..Len(s) \cup {Len(s) + 1}
  BY <1>1
<1> HIDE DEF e
<1>3. Created(e) = Created(s) \cup BlockOuts(b)
  BY <1>1, <1>2 DEF Created
<1>4. Spent(e) = Spent(s) \cup BlockIns(b)
  BY <1>1, <1>2 DEF Spent
<1> QED
  BY <1>1, <1>3, <1>4 DEF e

\* The incremental update of the cache is a full rescan of the longer chain.
LEMMA ConnectIsExact ==
  ASSUME NEW s \in Seq(Blocks), NEW time, ValidBranch(s, time),
         NEW b \in Blocks, BlockValid(b, s[Len(s)], UtxosOf(s), time)
  PROVE  ApplyBlock(b, UtxosOf(s)) = UtxosOf(Append(s, b))
<1>1. BlockOuts(b) \cap Spent(s) = {}
  BY OutputsAreNew, SpentWasCreated
<1> QED
  BY <1>1, Extended DEF ApplyBlock, UtxosOf

\* A valid block above a valid branch makes a valid branch.
LEMMA ConnectIsValid ==
  ASSUME NEW s \in Seq(Blocks), NEW time, ValidBranch(s, time),
         NEW b \in Blocks, BlockValid(b, s[Len(s)], UtxosOf(s), time)
  PROVE  ValidBranch(Append(s, b), time)
<1> DEFINE e == Append(s, b)
<1>1. s # <<>> /\ Len(s) \in Nat \ {0}
  BY EmptySeq DEF ValidBranch
<1>2. ASSUME NEW i \in 1..Len(s)
      PROVE  SubSeq(e, 1, i) = SubSeq(s, 1, i)
  <2>1. \A k \in 1..i : e[k] \in Blocks /\ s[k] \in Blocks /\ e[k] = s[k]
    BY Extended, <1>1
  <2>2. /\ SubSeq(e, 1, i) \in Seq(Blocks) /\ Len(SubSeq(e, 1, i)) = i
        /\ \A k \in 1..i : SubSeq(e, 1, i)[k] = e[k]
    <3> HIDE DEF e
    <3> QED
      BY <2>1, SubSeqProperties
  <2>3. /\ SubSeq(s, 1, i) \in Seq(Blocks) /\ Len(SubSeq(s, 1, i)) = i
        /\ \A k \in 1..i : SubSeq(s, 1, i)[k] = s[k]
    BY <2>1, SubSeqProperties
  <2> HIDE DEF e
  <2> QED
    BY <2>1, <2>2, <2>3, SeqEqual
<1>3. e # <<>> /\ e[1] = Genesis
  BY <1>1, Extended, AppendProperties DEF ValidBranch
<1>4. ASSUME NEW i \in 2..Len(e)
      PROVE  BlockValid(e[i], e[i - 1], UtxosOf(SubSeq(e, 1, i - 1)), time)
  <2>1. Len(e) = Len(s) + 1 /\ e[Len(s) + 1] = b /\ \A k \in 1..Len(s) : e[k] = s[k]
    BY Extended
  <2>2. i - 1 \in 1..Len(s)
    BY <1>1, <2>1
  <2>3. SubSeq(e, 1, i - 1) = SubSeq(s, 1, i - 1) /\ e[i - 1] = s[i - 1]
    BY <1>2, <2>1, <2>2
  <2> HIDE DEF e
  <2>4. CASE i = Len(s) + 1
    <3>1. SubSeq(s, 1, i - 1) = s
      BY <1>1, <2>4, SubSeqFull
    <3>2. e[i] = b /\ e[i - 1] = s[Len(s)] /\ SubSeq(e, 1, i - 1) = s
      BY <1>1, <2>1, <2>2, <2>3, <2>4, <3>1
    <3> QED
      BY <3>2
  <2>5. CASE i # Len(s) + 1
    <3>1. i \in 2..Len(s) /\ e[i] = s[i]
      BY <1>1, <2>1, <2>5
    <3> QED
      BY <2>3, <3>1 DEF ValidBranch
  <2> QED
    BY <2>4, <2>5
<1> HIDE DEF e
<1>5. ValidBranch(e, time)
  BY <1>3, <1>4 DEF ValidBranch
<1> QED
  BY <1>5 DEF e

\* Time only makes more blocks and transactions valid.
LEMMA ValidLater ==
  ASSUME NEW s \in Seq(Blocks), NEW t1 \in Nat, NEW t2 \in Nat, t1 <= t2,
         ValidBranch(s, t1)
  PROVE  ValidBranch(s, t2)
<1> SUFFICES ASSUME NEW i \in 2..Len(s)
             PROVE  BlockValid(s[i], s[i - 1], UtxosOf(SubSeq(s, 1, i - 1)), t2)
  BY DEF ValidBranch
<1> DEFINE b == s[i]
           u == UtxosOf(SubSeq(s, 1, i - 1))
<1>1. b \in Blocks
  OBVIOUS
<1>2. BlockValid(b, s[i - 1], u, t1)
  BY DEF ValidBranch
<1> HIDE DEF b, u
<1>3. Blk[b].time <= t2 + MaxFutureDrift
  BY <1>1, <1>2, BlockTypes, CatalogueAssumption DEF BlockValid
<1>4. ListValid(Blk[b].body, u, Blk[b].height, t2)
  <2> SUFFICES ASSUME NEW k \in DOMAIN Blk[b].body
               PROVE  TxValid(Blk[b].body[k], ViewBefore(u, Blk[b].body, k), Blk[b].height, t2)
    BY DEF ListValid
  <2>1. TxValid(Blk[b].body[k], ViewBefore(u, Blk[b].body, k), Blk[b].height, t1)
    BY <1>2 DEF BlockValid, ListValid
  <2>2. Blk[b].body[k] \in Txs
    BY <1>1, BlockTypes
  <2>3. LockExpired(Blk[b].body[k], Blk[b].height, t2)
    BY <2>1, <2>2, TxTypes DEF TxValid, LockExpired
  <2> QED
    BY <2>1, <2>3 DEF TxValid
<1>5. BlockValid(b, s[i - 1], u, t2)
  BY <1>2, <1>3, <1>4 DEF BlockValid
<1> QED
  BY <1>5 DEF b, u

-----------------------------------------------------------------------------
(* Ledgers: a chain and its UTXO set *)

\* A ledger the node may serve at time t: chain c with UTXO set u.
Serves(c, u, t) ==
  /\ c \in Seq(Blocks) \ {<<>>}
  /\ c = Blk[Tip(c)].branch
  /\ ValidBranch(c, t)
  /\ u = UtxosOf(c)

\* A branch that passes validation can be served with its own UTXO set.
LEMMA BranchServes ==
  ASSUME NEW b \in Blocks, NEW t, ValidBranch(Blk[b].branch, t)
  PROVE  /\ Tip(Blk[b].branch) = b
         /\ Serves(Blk[b].branch, UtxosOf(Blk[b].branch), t)
<1>1. Tip(Blk[b].branch) = b
  BY BranchTip DEF Tip
<1>2. Blk[b].branch \in Seq(Blocks) /\ Blk[b].branch # <<>>
  BY BranchTip DEF ValidBranch
<1> QED
  BY <1>1, <1>2 DEF Serves

\* A block that is valid on the tip and the cache leaves a longer ledger that can
\* be served, with the cache updated incrementally.
LEMMA ConnectServes ==
  ASSUME NEW c, NEW u, NEW t, Serves(c, u, t),
         NEW b \in Blocks, BlockValid(b, Tip(c), u, t)
  PROVE  /\ Serves(Append(c, b), ApplyBlock(b, u), t)
         /\ Append(c, b) = Blk[b].branch
         /\ Tip(Append(c, b)) = b
         /\ Blk[b].chainWork > Blk[Tip(c)].chainWork
<1>1. c \in Seq(Blocks) /\ c # <<>> /\ ValidBranch(c, t) /\ u = UtxosOf(c)
  BY DEF Serves
<1>2. BlockValid(b, c[Len(c)], UtxosOf(c), t)
  BY <1>1 DEF Tip
<1>3. Tip(c) \in Blocks /\ Blk[b].prev = Tip(c) /\ Blk[b].height = Blk[Tip(c)].height + 1
  BY <1>1, EmptySeq DEF BlockValid, Tip
<1>4. b # Genesis
  BY <1>3, BranchAssumption, BlockTypes
<1>5. Blk[b].branch = Append(c, b) /\ Blk[b].chainWork > Blk[Tip(c)].chainWork
  BY <1>3, <1>4, BranchAssumption DEF Serves
<1>6. Tip(Append(c, b)) = b /\ Append(c, b) \in Seq(Blocks) \ {<<>>}
  BY <1>1, AppendProperties DEF Tip
<1>7. ValidBranch(Append(c, b), t)
  BY <1>1, <1>2, ConnectIsValid
<1>8. ApplyBlock(b, u) = UtxosOf(Append(c, b))
  BY <1>1, <1>2, ConnectIsExact
<1> QED
  BY <1>5, <1>6, <1>7, <1>8 DEF Serves

-----------------------------------------------------------------------------
(* No double spend *)

\* On a valid branch two different positions of the transaction lists share no
\* input: within a block the later one would not find it, and across blocks
\* the output would have to be created anew.
THEOREM NeverSpentTwice ==
  ASSUME NEW s \in Seq(Blocks), NEW time, ValidBranch(s, time),
         NEW i \in 1..Len(s), NEW k \in DOMAIN Blk[s[i]].body,
         NEW j \in 1..Len(s), NEW l \in DOMAIN Blk[s[j]].body,
         NEW o, o \in Ins(Blk[s[i]].body[k]), o \in Ins(Blk[s[j]].body[l])
  PROVE  i = j /\ k = l
<1>1. ASSUME NEW n \in 1..Len(s), DOMAIN Blk[s[n]].body # {}
      PROVE  /\ n \in 2..Len(s)
             /\ s[n] \in Blocks
             /\ ListValid(Blk[s[n]].body, UtxosOf(SubSeq(s, 1, n - 1)), Blk[s[n]].height, time)
  <2>1. n # 1
    BY <1>1, BranchAssumption DEF ValidBranch
  <2> QED
    BY <2>1 DEF ValidBranch, BlockValid
<1>2. ASSUME NEW m \in 1..Len(s), NEW n \in 1..Len(s), m < n,
             o \in BlockIns(s[m]), o \in BlockIns(s[n])
      PROVE  FALSE
  <2> DEFINE p == SubSeq(s, 1, n - 1)
  <2>1. n \in 2..Len(s) /\ n - 1 \in 1..Len(s) /\ m \in 1..(n - 1) /\ s[n] \in Blocks
    BY <1>2
  <2>2. /\ p \in Seq(Blocks) /\ Len(p) = n - 1 /\ ValidBranch(p, time)
        /\ \A q \in 1..(n - 1) : p[q] = s[q]
    BY <2>1, BranchPrefix
  <2>3. BlockValid(s[n], s[n - 1], UtxosOf(p), time)
    BY <2>1 DEF ValidBranch
  <2>4. BlockValid(s[n], p[Len(p)], UtxosOf(p), time)
    BY <2>1, <2>2, <2>3
  <2> HIDE DEF p
  <2>5. o \in Spent(p)
    BY <1>2, <2>1, <2>2 DEF Spent
  <2>6. o \in BlockOuts(s[n])
    <3>1. o \notin UtxosOf(p)
      BY <2>5 DEF UtxosOf
    <3>2. BlockIns(s[n]) \subseteq UtxosOf(p) \cup BlockOuts(s[n])
      BY <2>1, <2>3, BlockInputs DEF BlockValid
    <3> QED
      BY <1>2, <3>1, <3>2
  <2> QED
    BY <2>1, <2>2, <2>4, <2>5, <2>6, OutputsAreNew, SpentWasCreated
<1>3. o \in BlockIns(s[i]) /\ o \in BlockIns(s[j])
  BY DEF BlockIns, TxsOf
<1>4. i = j
  BY <1>2, <1>3
<1>5. k = l
  <2>1. /\ s[i] \in Blocks
        /\ ListValid(Blk[s[i]].body, UtxosOf(SubSeq(s, 1, i - 1)), Blk[s[i]].height, time)
    BY <1>1
  <2>2. k \in Nat /\ l \in Nat /\ k >= 1 /\ l >= 1
    BY <1>4, <2>1, BlockTypes
  <2>3. ~(k < l) /\ ~(l < k)
    BY <1>4, <2>1, <2>2, ListInputs
  <2> QED
    BY <2>2, <2>3
<1> QED
  BY <1>4, <1>5

-----------------------------------------------------------------------------
(* Value *)

\* The sets whose values the rules add up are finite sets of outpoints.
LEMMA FiniteParts ==
  ASSUME NEW b \in Blocks
  PROVE  /\ IsFiniteSet(TxsOf(b)) /\ TxsOf(b) \subseteq Txs
         /\ \A t \in TxsOf(b) : /\ IsFiniteSet(Ins(t)) /\ Ins(t) \subseteq Outpoints
                               /\ IsFiniteSet(Outs(t)) /\ Outs(t) \subseteq Outpoints
         /\ IsFiniteSet(Blk[b].coinbase) /\ Blk[b].coinbase \subseteq Outpoints
         /\ IsFiniteSet(BlockOuts(b)) /\ BlockOuts(b) \subseteq Outpoints
<1> DEFINE T == TxsOf(b)
           out == [t \in T |-> Outs(t)]
<1>1. IsFiniteSet(T) /\ T \subseteq Txs
  <2> DEFINE body == Blk[b].body
  <2>1. DOMAIN body = 1..Len(body) /\ Len(body) \in Nat /\ \A i \in 1..Len(body) : body[i] \in Txs
    BY BlockTypes
  <2>2. IsFiniteSet(1..Len(body))
    <3>1. 1 \in Int /\ Len(body) \in Int
      BY <2>1
    <3> QED
      BY <3>1, FS_Interval
  <2>3. T = {body[i] : i \in 1..Len(body)}
    BY <2>1 DEF TxsOf
  <2> HIDE DEF body
  <2>4. IsFiniteSet({body[i] : i \in 1..Len(body)})
    BY <2>2, FiniteImage
  <2> QED
    BY <2>1, <2>3, <2>4
<1>2. \A t \in T : /\ IsFiniteSet(Ins(t)) /\ Ins(t) \subseteq Outpoints
                  /\ IsFiniteSet(Outs(t)) /\ Outs(t) \subseteq Outpoints
  BY <1>1, FiniteAssumption, TxTypes DEF Ins, Outs
<1>3. IsFiniteSet(Blk[b].coinbase) /\ Blk[b].coinbase \subseteq Outpoints
  BY FiniteAssumption, BlockTypes
<1>4. BlockOuts(b) = Blk[b].coinbase \cup UNION {out[t] : t \in T}
  BY DEF BlockOuts
<1>5. IsFiniteSet(UNION {out[t] : t \in T})
  <2> DEFINE parts == {out[t] : t \in T}
  <2>1. \A P \in parts : IsFiniteSet(P)
    BY <1>2
  <2>2. IsFiniteSet(parts)
    <3> HIDE DEF out, T
    <3> QED
      BY <1>1, FiniteImage
  <2> HIDE DEF parts
  <2>3. IsFiniteSet(UNION parts)
    BY <2>1, <2>2, FS_UNION
  <2> QED
    BY <2>3 DEF parts
<1>6. IsFiniteSet(BlockOuts(b))
  <2> DEFINE all == UNION {out[t] : t \in T}
  <2> HIDE DEF all
  <2>1. IsFiniteSet(Blk[b].coinbase \cup all)
    BY <1>3, <1>5, FS_Union DEF all
  <2> QED
    BY <1>4, <2>1 DEF all
<1>7. BlockOuts(b) \subseteq Outpoints
  BY <1>2, <1>3 DEF BlockOuts
<1> QED
  BY <1>1, <1>2, <1>3, <1>6, <1>7

LEMMA FeeInt ==
  ASSUME NEW t \in Txs
  PROVE  SumValue(Ins(t)) \in Int /\ SumValue(Outs(t)) \in Int /\ Fee(t) \in Int
<1>1. /\ IsFiniteSet(Ins(t)) /\ Ins(t) \subseteq Outpoints
      /\ IsFiniteSet(Outs(t)) /\ Outs(t) \subseteq Outpoints
  BY FiniteAssumption, TxTypes DEF Ins, Outs
<1>2. (\A o \in Ins(t) : Value[o] \in Int) /\ (\A o \in Outs(t) : Value[o] \in Int)
  BY <1>1, CatalogueAssumption
<1>3. SumValue(Ins(t)) \in Int /\ SumValue(Outs(t)) \in Int
  BY <1>1, <1>2, SumInt DEF SumValue
<1> QED
  BY <1>3 DEF Fee

\* Two transactions of a valid list spend different outpoints.
LEMMA InputsApart ==
  ASSUME NEW b \in Blocks, NEW u, NEW time,
         ListValid(Blk[b].body, u, Blk[b].height, time),
         NEW t \in TxsOf(b), NEW r \in TxsOf(b), t # r
  PROVE  Ins(t) \cap Ins(r) = {}
<1> SUFFICES ASSUME NEW o, o \in Ins(t), o \in Ins(r)
             PROVE  FALSE
  OBVIOUS
<1> DEFINE body == Blk[b].body
<1>1. PICK i \in DOMAIN body : t = body[i]
  BY DEF TxsOf
<1>2. PICK j \in DOMAIN body : r = body[j]
  BY DEF TxsOf
<1>3. i \in Nat /\ j \in Nat /\ i >= 1 /\ j >= 1 /\ i # j
  BY <1>1, <1>2, BlockTypes
<1>4. CASE i < j
  BY <1>1, <1>2, <1>3, <1>4, ListInputs
<1>5. CASE j < i
  BY <1>1, <1>2, <1>3, <1>5, ListInputs
<1> QED
  BY <1>3, <1>4, <1>5

\* What the outputs of a block are worth is what its inputs are worth and, at most,
\* its subsidy: the coinbase takes the fees and the subsidy, the fees are the difference.
LEMMA BlockAddsItsSubsidy ==
  ASSUME NEW b \in Blocks, NEW u, NEW time,
         ListValid(Blk[b].body, u, Blk[b].height, time),
         SumValue(Blk[b].coinbase) <= Blk[b].subsidy + BlockFees(b)
  PROVE  /\ IsFiniteSet(BlockIns(b)) /\ BlockIns(b) \subseteq Outpoints
         /\ SumValue(BlockOuts(b)) <= SumValue(BlockIns(b)) + Blk[b].subsidy
<1> DEFINE T == TxsOf(b)
           C == Blk[b].coinbase
           inp == [t \in T |-> Ins(t)]
           out == [t \in T |-> Outs(t)]
           spent == [t \in T |-> SumValue(Ins(t))]
           made == [t \in T |-> SumValue(Outs(t))]
           fee == [t \in T |-> Fee(t)]
           I == UNION {inp[t] : t \in T}
           O == UNION {out[t] : t \in T}
<1>1. /\ IsFiniteSet(T) /\ T \subseteq Txs
      /\ \A t \in T : /\ IsFiniteSet(inp[t]) /\ inp[t] \subseteq Outpoints
                     /\ IsFiniteSet(out[t]) /\ out[t] \subseteq Outpoints
      /\ IsFiniteSet(C) /\ C \subseteq Outpoints
  BY FiniteParts
<1>2. BlockIns(b) = I /\ BlockOuts(b) = C \cup O
  BY DEF BlockIns, BlockOuts
<1>3. \A o \in Outpoints : Value[o] \in Nat /\ Value[o] \in Int
  BY CatalogueAssumption
<1>4. I \subseteq Outpoints /\ O \subseteq Outpoints
  BY <1>1
<1>5. IsFiniteSet(O) /\ IsFiniteSet(I)
  <2>1. IsFiniteSet({inp[t] : t \in T}) /\ IsFiniteSet({out[t] : t \in T})
    <3> HIDE DEF inp, out, T
    <3> QED
      BY <1>1, FiniteImage
  <2>2. (\A P \in {inp[t] : t \in T} : IsFiniteSet(P)) /\ (\A P \in {out[t] : t \in T} : IsFiniteSet(P))
    <3> HIDE DEF inp, out, T
    <3> QED
      BY <1>1
  <2> DEFINE ips == {inp[t] : t \in T}
             ops == {out[t] : t \in T}
  <2> HIDE DEF ips, ops
  <2>3. IsFiniteSet(UNION ips) /\ IsFiniteSet(UNION ops)
    BY <2>1, <2>2, FS_UNION DEF ips, ops
  <2> QED
    BY <2>3 DEF ips, ops
<1>6. SumValue(O) = SumFunctionOnSet(made, T)
  <2>1. \A t, r \in T : t # r => out[t] \cap out[r] = {}
    BY <1>1, OutpointAssumption DEF Outs
  <2>2. \A t \in T : made[t] = SumFunctionOnSet(Value, out[t])
    BY DEF SumValue
  <2> HIDE DEF T, out, made
  <2> QED
    BY <1>1, <1>3, <1>4, <2>1, <2>2, SumOfParts, SMTT(30) DEF SumValue
<1>7. SumValue(I) = SumFunctionOnSet(spent, T)
  <2>1. \A t, r \in T : t # r => inp[t] \cap inp[r] = {}
    BY InputsApart
  <2>2. \A t \in T : spent[t] = SumFunctionOnSet(Value, inp[t])
    BY DEF SumValue
  <2> HIDE DEF T, inp, spent
  <2> QED
    BY <1>1, <1>3, <1>4, <2>1, <2>2, SumOfParts, SMTT(30) DEF SumValue
<1>8. \A t \in T : spent[t] \in Int /\ made[t] \in Int /\ fee[t] = spent[t] - made[t]
  <2> SUFFICES ASSUME NEW t \in T
               PROVE  SumValue(Ins(t)) \in Int /\ SumValue(Outs(t)) \in Int
    BY DEF Fee
  <2>1. /\ IsFiniteSet(Ins(t)) /\ \A o \in Ins(t) : Value[o] \in Int
        /\ IsFiniteSet(Outs(t)) /\ \A o \in Outs(t) : Value[o] \in Int
    BY <1>1, <1>3
  <2> QED
    BY <2>1, SumInt DEF SumValue
<1>9. BlockFees(b) = SumFunctionOnSet(spent, T) - SumFunctionOnSet(made, T)
  <2>1. SumFunctionOnSet(fee, T) = SumFunctionOnSet(spent, T) - SumFunctionOnSet(made, T)
    <3> HIDE DEF T, spent, made, fee
    <3> QED
      BY <1>1, <1>8, SumDifference
  <2> QED
    BY <2>1 DEF BlockFees
<1>10. SumValue(C \cup O) = SumValue(C) + SumValue(O)
  <2>1. C \cap O = {}
    BY <1>1, OutpointAssumption DEF Outs
  <2>2. \A o \in C \cup O : Value[o] \in Int
    BY <1>1, <1>3, <1>4
  <2> HIDE DEF C, O
  <2> QED
    BY <1>1, <1>5, <2>1, <2>2, SumUnion DEF SumValue
<1>11. SumValue(C) \in Int /\ SumValue(O) \in Int /\ SumValue(I) \in Int /\ Blk[b].subsidy \in Int
  <2>1. /\ \A o \in C : Value[o] \in Int
        /\ \A o \in O : Value[o] \in Int
        /\ \A o \in I : Value[o] \in Int
    BY <1>1, <1>3, <1>4
  <2>2. Blk[b].subsidy \in Int
    BY BlockTypes
  <2> HIDE DEF C, O, I
  <2> QED
    BY <1>1, <1>5, <2>1, <2>2, SumInt DEF SumValue
<1> HIDE DEF T, C, I, O, spent, made
<1>12. SumValue(C) <= Blk[b].subsidy + BlockFees(b)
  BY DEF C
<1>13. SumValue(C) + SumValue(O) <= SumValue(I) + Blk[b].subsidy
  BY <1>6, <1>7, <1>9, <1>11, <1>12
<1> QED
  BY <1>2, <1>4, <1>5, <1>10, <1>13

\* Connecting a valid block raises the unspent value by at most its subsidy.
LEMMA ConnectAddsSubsidy ==
  ASSUME NEW s \in Seq(Blocks), NEW time, ValidBranch(s, time),
         NEW b \in Blocks, BlockValid(b, s[Len(s)], UtxosOf(s), time),
         IsFiniteSet(UtxosOf(s))
  PROVE  /\ IsFiniteSet(UtxosOf(Append(s, b)))
         /\ SumValue(UtxosOf(s)) \in Int /\ SumValue(UtxosOf(Append(s, b))) \in Int
         /\ SumValue(UtxosOf(Append(s, b))) <= SumValue(UtxosOf(s)) + Blk[b].subsidy
<1> DEFINE U == UtxosOf(s)
           I == BlockIns(b)
           O == BlockOuts(b)
<1>1. UtxosOf(Append(s, b)) = (U \cup O) \ I
  BY ConnectIsExact DEF ApplyBlock
<1>2. U \cap O = {}
  BY OutputsAreNew DEF UtxosOf
<1>3. ListValid(Blk[b].body, U, Blk[b].height, time)
  BY DEF BlockValid
<1>4. SumValue(Blk[b].coinbase) <= Blk[b].subsidy + BlockFees(b)
  <2>1. SumValue(Blk[b].coinbase) \in 1..(Blk[b].subsidy + BlockFees(b))
    BY DEF BlockValid
  <2> QED
    BY <2>1
<1>5. I \subseteq U \cup O
  BY <1>3, BlockInputs
<1>6. /\ IsFiniteSet(I) /\ I \subseteq Outpoints
      /\ SumValue(O) <= SumValue(I) + Blk[b].subsidy
  BY <1>3, <1>4, BlockAddsItsSubsidy
<1>7. /\ IsFiniteSet(U) /\ U \subseteq Outpoints
      /\ IsFiniteSet(O) /\ O \subseteq Outpoints /\ Blk[b].subsidy \in Int
  BY FiniteParts, UtxosAreOutpoints, BlockTypes
<1> HIDE DEF U, I, O
<1>8. \A o \in U \cup O : Value[o] \in Int
  BY <1>7, CatalogueAssumption
<1>9. IsFiniteSet(U \cup O)
  BY <1>7, FS_Union
<1>10. IsFiniteSet((U \cup O) \ I)
  BY <1>9, FS_Difference
<1>11. SumValue(U \cup O) = SumValue(U) + SumValue(O)
  BY <1>2, <1>7, <1>8, SumUnion DEF SumValue
<1>12. SumValue(U \cup O) = SumValue(I) + SumValue((U \cup O) \ I)
  BY <1>5, <1>8, <1>9, SumSplit DEF SumValue
<1>13. SumValue(U) \in Int /\ SumValue(O) \in Int /\ SumValue(I) \in Int /\ SumValue((U \cup O) \ I) \in Int
  <2>1. /\ \A o \in U : Value[o] \in Int
        /\ \A o \in O : Value[o] \in Int
        /\ \A o \in I : Value[o] \in Int
        /\ \A o \in (U \cup O) \ I : Value[o] \in Int
    BY <1>5, <1>8
  <2> QED
    BY <1>6, <1>7, <1>10, <2>1, SumInt DEF SumValue
<1>14. SumValue((U \cup O) \ I) <= SumValue(U) + Blk[b].subsidy
  BY <1>6, <1>7, <1>11, <1>12, <1>13
<1> QED
  BY <1>1, <1>10, <1>13, <1>14 DEF U
=============================================================================
