-------------------------- MODULE BlockchainProofs --------------------------
(***************************************************************************)
(* What the active chain, the UTXO cache and the pool of Blockchain satisfy, *)
(* for every block tree, every set of transactions and every policy: the     *)
(* cache is exact, the chain valid and free of double spends, its coins are  *)
(* the supply, a block leaves nothing in the pool that the new chain would   *)
(* refuse, add_block takes the heaviest stored branch, and the node          *)
(* implements BestChain.  Then the same of nodes that relay and ask one      *)
(* another: each serves a valid chain and implements BestChain.              *)
(*                                                                         *)
(* None of the invariants is inductive alone: a tip extension is checked    *)
(* against the cache, so the chain stays valid because the cache is exact,  *)
(* and the incremental update of the cache is exact because a valid chain   *)
(* never creates an outpoint twice.  Serves joins them, with the fact that  *)
(* the active chain is the branch of its tip.  A pass of the network puts   *)
(* together what several requests brought while both chains moved; that     *)
(* never matters, because a chain changes in three ways only: a sound block *)
(* on the tip of this moment, a stored sound branch, and a download that is *)
(* checked as one chain.                                                    *)
(***************************************************************************)
EXTENDS Blockchain, NodeSync, LedgerProofs

IInv ==
  /\ now \in 0..MaxTime
  /\ Serves(chain, utxos, now)

\* The ledger moved to a branch with more work, and to nothing else.
Moved ==
  \E b \in Blocks :
    /\ Blk[b].chainWork > Blk[Tip(chain)].chainWork
    /\ chain' = Blk[b].branch
    /\ Tip(chain') = b
    /\ Serves(chain', utxos', now)
    /\ now' = now

Stayed == chain' = chain /\ utxos' = utxos

-----------------------------------------------------------------------------
(* New ledgers *)

\* A branch that passed is_valid_chain can be served with its own UTXO set.
LEMMA AdoptServes ==
  ASSUME NEW b, NEW t, <<b, t>> \in ValidAt
  PROVE  /\ b \in Blocks
         /\ Tip(Blk[b].branch) = b
         /\ Serves(Blk[b].branch, UtxosOf(Blk[b].branch), t)
BY BranchServes DEF ValidAt

\* _maybe_reorg changes nothing, or adopts a valid branch with more work.
LEMMA ReorganisedServes ==
  ASSUME NEW c, NEW u, NEW o, NEW pool, Serves(c, u, now),
         NEW r \in Reorganised(c, u, o, pool)
  PROVE  \/ r.chain = c /\ r.utxos = u
         \/ \E b \in Blocks :
              /\ Blk[b].chainWork > Blk[Tip(c)].chainWork
              /\ r.chain = Blk[b].branch
              /\ Tip(r.chain) = b
              /\ Serves(r.chain, r.utxos, now)
<1>1. CASE HeavierTips(c, o) = {}
  BY <1>1 DEF Reorganised
<1>2. CASE HeavierTips(c, o) # {}
  <2>1. PICK b \in Best(HeavierTips(c, o), o) : r = Switched(Blk[b].branch, c, o, pool)
    BY <1>2 DEF Reorganised
  <2>2. Blk[b].chainWork > Blk[Tip(c)].chainWork /\ <<b, now>> \in ValidAt
    BY <2>1 DEF Best, HeavierTips
  <2>3. r.chain = Blk[b].branch /\ r.utxos = UtxosOf(Blk[b].branch)
    BY <2>1 DEF Switched
  <2> QED
    BY <2>2, <2>3, AdoptServes
<1> QED
  BY <1>1, <1>2

-----------------------------------------------------------------------------
(* Steps *)

\* Initially the node serves genesis.
LEMMA InitServes ==
  ASSUME Init
  PROVE  IInv
<1> DEFINE g == <<Genesis>>
<1>1. Genesis \in Blocks /\ Blk[Genesis].branch = g
  BY CatalogueAssumption, BranchAssumption
<1>2. g \in Seq(Blocks) \ {<<>>} /\ Len(g) = 1 /\ g[1] = Genesis
  BY <1>1
<1>3. ValidBranch(g, 0)
  BY <1>2 DEF ValidBranch
<1>4. chain = g /\ utxos = UtxosOf(g) /\ now = 0 /\ 0 \in 0..MaxTime
  BY ChainAssumption DEF Init
<1> HIDE DEF g
<1>5. Serves(g, UtxosOf(g), 0)
  BY <1>1, <1>2, <1>3 DEF Serves, Tip
<1> QED
  BY <1>4, <1>5 DEF IInv

\* Every step moves the ledger to a branch with more work or leaves it alone.
LEMMA StepMoves ==
  ASSUME IInv, [Next]_vars
  PROVE  (Moved \/ Stayed) /\ now' \in now..MaxTime
<1> now \in 0..MaxTime /\ Serves(chain, utxos, now) /\ MaxTime \in Nat
  BY ChainAssumption DEF IInv
<1>1. ASSUME NEW b \in Blocks, ExtendTip(b)
      PROVE  Moved
  <2>1. BlockValid(b, Tip(chain), utxos, now)
    BY <1>1 DEF ExtendTip
  <2> DEFINE s == Connected(b)
  <2>2. PICK r \in Reorganised(s.chain, s.utxos, s.orphans, s.mempool) : BecomeState(r)
    BY <1>1 DEF ExtendTip
  <2>3. s.chain = Append(chain, b) /\ s.utxos = ApplyBlock(b, utxos)
    BY DEF Connected
  <2> HIDE DEF s
  <2>4. /\ Serves(s.chain, s.utxos, now)
        /\ s.chain = Blk[b].branch
        /\ Tip(s.chain) = b
        /\ Blk[b].chainWork > Blk[Tip(chain)].chainWork
    BY <2>1, <2>3, ConnectServes
  <2>5. chain' = r.chain /\ utxos' = r.utxos /\ now' = now
    BY <2>2 DEF BecomeState
  <2>6. CASE r.chain = s.chain /\ r.utxos = s.utxos
    BY <2>4, <2>5, <2>6 DEF Moved
  <2>7. CASE \E d \in Blocks :
               /\ Blk[d].chainWork > Blk[Tip(s.chain)].chainWork
               /\ r.chain = Blk[d].branch
               /\ Tip(r.chain) = d
               /\ Serves(r.chain, r.utxos, now)
    <3>1. PICK d \in Blocks :
               /\ Blk[d].chainWork > Blk[b].chainWork
               /\ r.chain = Blk[d].branch
               /\ Tip(r.chain) = d
               /\ Serves(r.chain, r.utxos, now)
      BY <2>4, <2>7
    <3>2. Tip(chain) \in Blocks
      BY EmptySeq DEF Serves, Tip
    <3>3. Blk[d].chainWork > Blk[Tip(chain)].chainWork
      BY <2>4, <3>1, <3>2, BlockTypes
    <3> QED
      BY <2>5, <3>1, <3>3 DEF Moved
  <2> QED
    BY <2>2, <2>4, <2>6, <2>7, ReorganisedServes
<1>2. ASSUME NEW b \in Blocks, StoreOffTip(b)
      PROVE  (Moved \/ Stayed) /\ now' = now
  <2>1. PICK o \in {Remember(b, orphans)} :
          \E r \in Reorganised(chain, utxos, o, mempool) : BecomeState(r)
    BY <1>2 DEF StoreOffTip
  <2>2. PICK r \in Reorganised(chain, utxos, o, mempool) : BecomeState(r)
    BY <2>1
  <2>3. chain' = r.chain /\ utxos' = r.utxos /\ now' = now
    BY <2>2 DEF BecomeState
  <2> QED
    BY <2>2, <2>3, ReorganisedServes DEF Moved, Stayed
<1>3. ASSUME NEW b \in Blocks, MineBlock(b)
      PROVE  Moved
  <2>1. BlockValid(b, Tip(chain), utxos, now)
    BY <1>3 DEF MineBlock
  <2>2. chain' = Append(chain, b) /\ utxos' = ApplyBlock(b, utxos) /\ now' = now
    BY <1>3 DEF MineBlock, BecomeState, Connected
  <2> QED
    BY <2>1, <2>2, ConnectServes DEF Moved
<1>4. ASSUME NEW b \in Blocks, ReplaceChain(b)
      PROVE  Moved
  <2>1. /\ <<b, now>> \in ValidAt
        /\ Blk[b].chainWork > Blk[Tip(chain)].chainWork
        /\ chain' = Blk[b].branch /\ utxos' = UtxosOf(Blk[b].branch) /\ now' = now
    BY <1>4 DEF ReplaceChain
  <2> QED
    BY <2>1, AdoptServes DEF Moved
<1>5. ASSUME UNCHANGED <<chain, utxos, now>>
      PROVE  Stayed /\ now' = now
  BY <1>5 DEF Stayed
<1>6. ASSUME Tick
      PROVE  Stayed /\ now' \in now..MaxTime
  BY <1>6 DEF Tick, Stayed
<1>7. ASSUME \/ \E t \in Submitted : SubmitTx(t)
             \/ \E ts \in Packages : SubmitPackage(ts)
             \/ EvictExpired \/ ClearMempool \/ UNCHANGED vars
      PROVE  UNCHANGED <<chain, utxos, now>>
  BY <1>7 DEF SubmitTx, SubmitPackage, EvictExpired, ClearMempool, vars
<1>8. Moved => now' = now
  BY DEF Moved
<1>9. now' = now => now' \in now..MaxTime
  OBVIOUS
<1> QED
  BY <1>1, <1>2, <1>3, <1>4, <1>5, <1>6, <1>7, <1>8, <1>9 DEF Next

\* The joint invariant is inductive.
LEMMA StepServes ==
  ASSUME IInv, [Next]_vars
  PROVE  IInv'
<1>1. (Moved \/ Stayed) /\ now' \in now..MaxTime /\ now \in 0..MaxTime /\ MaxTime \in Nat
  BY StepMoves, ChainAssumption DEF IInv
<1>2. now' \in 0..MaxTime /\ now \in Nat /\ now' \in Nat /\ now <= now'
  BY <1>1
<1>3. Serves(chain', utxos', now)
  BY <1>1 DEF Moved, Stayed, IInv
<1>4. ValidBranch(chain', now')
  BY <1>2, <1>3, ValidLater DEF Serves
<1> QED
  BY <1>2, <1>3, <1>4 DEF IInv, Serves, Tip

\* The node always serves a valid chain with its exact UTXO set.
THEOREM AlwaysServes == Spec => []IInv
<1>1. Init => IInv
  BY InitServes
<1>2. IInv /\ [Next]_vars => IInv'
  BY StepServes
<1> QED
  BY <1>1, <1>2, PTL DEF Spec

\* Hence the chain, the cache and the clock keep their types.
THEOREM LedgerTypes == Spec => []LedgerTypeOK
<1>1. IInv => LedgerTypeOK
  BY UtxosAreOutpoints DEF IInv, Serves, LedgerTypeOK
<1> QED
  BY <1>1, AlwaysServes, PTL

-----------------------------------------------------------------------------
(* Safety *)

\* The incrementally maintained cache is the UTXO set of the active chain.
THEOREM UtxosStayExact == Spec => []UtxosExact
<1>1. IInv => UtxosExact
  BY DEF IInv, Serves, UtxosExact
<1> QED
  BY <1>1, AlwaysServes, PTL

\* The active chain passes full validation at every moment.
THEOREM ChainStaysValid == Spec => []ActiveChainValid
<1>1. IInv => ActiveChainValid
  BY DEF IInv, Serves, ActiveChainValid
<1> QED
  BY <1>1, AlwaysServes, PTL

\* No outpoint is spent twice on the active chain.
THEOREM NothingSpentTwice == Spec => []NoDoubleSpend
<1>1. IInv => NoDoubleSpend
  <2> SUFFICES ASSUME IInv,
                      NEW i \in DOMAIN chain, NEW j \in DOMAIN chain,
                      NEW k \in DOMAIN Blk[chain[i]].body,
                      NEW l \in DOMAIN Blk[chain[j]].body,
                      NEW o, o \in Ins(Blk[chain[i]].body[k]),
                      o \in Ins(Blk[chain[j]].body[l])
               PROVE  i = j /\ k = l
    BY DEF NoDoubleSpend
  <2>1. chain \in Seq(Blocks) /\ ValidBranch(chain, now) /\ DOMAIN chain = 1..Len(chain)
    BY DEF IInv, Serves
  <2> QED
    BY <2>1, NeverSpentTwice
<1> QED
  BY <1>1, AlwaysServes, PTL

\* The branch below a block, extended by it, is the branch one longer.
LEMMA PrefixGrows ==
  ASSUME NEW s \in Seq(Blocks), NEW n \in 2..Len(s)
  PROVE  SubSeq(s, 1, n) = Append(SubSeq(s, 1, n - 1), s[n])
<1> DEFINE p == SubSeq(s, 1, n - 1)
           q == SubSeq(s, 1, n)
<1>1. n \in Nat /\ n - 1 \in Nat /\ Len(s) \in Nat /\ n <= Len(s) /\ n >= 2 /\ \A k \in 1..Len(s) : s[k] \in Blocks
  OBVIOUS
<1>2. p \in Seq(Blocks) /\ Len(p) = n - 1 /\ \A k \in 1..(n - 1) : p[k] = s[k]
  BY <1>1, SubSeqProperties
<1>3. q \in Seq(Blocks) /\ Len(q) = n /\ \A k \in 1..n : q[k] = s[k]
  BY <1>1, SubSeqProperties
<1> HIDE DEF p, q
<1>4. /\ Append(p, s[n]) \in Seq(Blocks)
      /\ Len(Append(p, s[n])) = n
      /\ \A k \in 1..(n - 1) : Append(p, s[n])[k] = s[k]
      /\ Append(p, s[n])[n] = s[n]
  BY <1>1, <1>2, AppendProperties
<1>5. \A k \in 1..n : Append(p, s[n])[k] = q[k]
  BY <1>1, <1>3, <1>4
<1>6. q = Append(p, s[n])
  BY <1>3, <1>4, <1>5, SeqEqual
<1> QED
  BY <1>6 DEF p, q

\* The unspent value of a valid branch is at most what its blocks may issue.
LEMMA SupplyOfBranch ==
  ASSUME NEW s \in Seq(Blocks), NEW time, ValidBranch(s, time)
  PROVE  SumValue(UtxosOf(s)) <= SumFunction(Issued(s))
<1> DEFINE f == Issued(s)
           Prefix(n) == SubSeq(s, 1, n)
           Bounded(n) == /\ IsFiniteSet(UtxosOf(Prefix(n)))
                         /\ SumValue(UtxosOf(Prefix(n))) <= SumFunctionOnSet(f, 1..n)
           bad == {n \in 1..Len(s) : ~Bounded(n)}
<1>1. /\ Len(s) \in Nat \ {0} /\ DOMAIN s = 1..Len(s) /\ \A n \in 1..Len(s) : s[n] \in Blocks
      /\ s[1] = Genesis
  BY EmptySeq DEF ValidBranch
<1>2. /\ f[1] = SumValue(Blk[Genesis].coinbase)
      /\ \A n \in 2..Len(s) : f[n] = Blk[s[n]].subsidy
      /\ DOMAIN f = 1..Len(s)
  BY <1>1 DEF Issued
<1>3. \A n \in 1..Len(s) : f[n] \in Int
  <2>1. SumValue(Blk[Genesis].coinbase) \in Int
    <3>1. Genesis \in Blocks
      BY CatalogueAssumption
    <3>2. IsFiniteSet(Blk[Genesis].coinbase) /\ \A o \in Blk[Genesis].coinbase : Value[o] \in Int
      BY <3>1, FiniteParts, CatalogueAssumption
    <3> QED
      BY <3>2, SumInt DEF SumValue
  <2>2. \A n \in 2..Len(s) : Blk[s[n]].subsidy \in Int
    BY <1>1, BlockTypes
  <2> HIDE DEF f
  <2> QED
    BY <1>1, <1>2, <2>1, <2>2
<1>4. \A n \in 0..Len(s) : IsFiniteSet(1..n) /\ \A k \in 1..n : f[k] \in Int
  BY <1>1, <1>3, FS_Interval
<1> HIDE DEF f
<1>5. ASSUME bad # {} PROVE FALSE
  <2>1. PICK n \in bad : \A m \in bad : n <= m
    <3>1. bad \subseteq Nat
      OBVIOUS
    <3> HIDE DEF bad
    <3> QED
      BY <1>5, <3>1, LeastElement
  <2>2. CASE n = 1
    <3>1. /\ Prefix(1) \in Seq(Blocks) /\ Len(Prefix(1)) = 1 /\ Prefix(1)[1] = Genesis
          /\ DOMAIN Prefix(1) = {1}
      <4>1. \A k \in 1..1 : s[k] \in Blocks
        BY <1>1
      <4>2. Prefix(1) \in Seq(Blocks) /\ Len(Prefix(1)) = 1 /\ Prefix(1)[1] = s[1]
        BY <4>1, SubSeqProperties
      <4> HIDE DEF Prefix
      <4> QED
        BY <1>1, <4>2
    <3> HIDE DEF Prefix
    <3>2. BlockIns(Genesis) = {} /\ BlockOuts(Genesis) = Blk[Genesis].coinbase
      BY BranchAssumption DEF BlockIns, BlockOuts, TxsOf
    <3>3. UtxosOf(Prefix(1)) = Blk[Genesis].coinbase
      BY <3>1, <3>2 DEF UtxosOf, Created, Spent
    <3>4. IsFiniteSet(Blk[Genesis].coinbase)
      BY CatalogueAssumption, FiniteParts
    <3>5. SumFunctionOnSet(f, 1..1) = f[1]
      <4>1. 1..1 = {} \cup {1} /\ f[1] \in Int
        BY <1>1, <1>3
      <4>2. SumFunctionOnSet(f, {} \cup {1}) = f[1] + SumFunctionOnSet(f, {})
        BY <4>1, FS_EmptySet, SumAdd
      <4> QED
        BY <4>1, <4>2, SumEmpty
    <3>6. SumValue(UtxosOf(Prefix(1))) = SumFunctionOnSet(f, 1..1) /\ f[1] \in Int
      BY <1>1, <1>2, <1>3, <3>3, <3>5
    <3>7. Bounded(1)
      BY <3>3, <3>4, <3>5, <3>6
    <3> HIDE DEF Bounded
    <3> QED
      BY <2>1, <2>2, <3>7
  <2>3. CASE n # 1
    <3> DEFINE p == Prefix(n - 1)
    <3>1. n \in 2..Len(s) /\ n - 1 \in 1..Len(s) /\ n - 1 < n /\ n \in 1..Len(s)
      BY <2>3
    <3>2. Bounded(n - 1)
      <4>1. n - 1 \notin bad
        BY <2>1, <3>1
      <4> HIDE DEF Bounded
      <4> QED
        BY <3>1, <4>1
    <3>3. p \in Seq(Blocks) /\ Len(p) = n - 1 /\ ValidBranch(p, time) /\ p[Len(p)] = s[n - 1]
      BY <3>1, BranchPrefix
    <3>4. BlockValid(s[n], p[Len(p)], UtxosOf(p), time)
      <4>1. BlockValid(s[n], s[n - 1], UtxosOf(p), time)
        BY <3>1 DEF ValidBranch
      <4> HIDE DEF p
      <4> QED
        BY <3>3, <4>1
    <3>5. Prefix(n) = Append(p, s[n])
      BY <3>1, PrefixGrows
    <3>6. IsFiniteSet(UtxosOf(p)) /\ SumValue(UtxosOf(p)) <= SumFunctionOnSet(f, 1..(n - 1))
      BY <3>2
    <3> HIDE DEF p, Prefix
    <3>7. /\ IsFiniteSet(UtxosOf(Append(p, s[n])))
          /\ SumValue(UtxosOf(p)) \in Int /\ SumValue(UtxosOf(Append(p, s[n]))) \in Int
          /\ SumValue(UtxosOf(Append(p, s[n]))) <= SumValue(UtxosOf(p)) + Blk[s[n]].subsidy
      BY <1>1, <3>1, <3>3, <3>4, <3>6, ConnectAddsSubsidy
    <3>8. SumFunctionOnSet(f, 1..n) = Blk[s[n]].subsidy + SumFunctionOnSet(f, 1..(n - 1))
      <4> DEFINE below == 1..(n - 1)
      <4>1. 1..n = below \cup {n} /\ n \notin below /\ n - 1 \in 0..Len(s)
        BY <3>1
      <4>2. IsFiniteSet(below) /\ (\A k \in below : f[k] \in Int) /\ f[n] \in Int
        BY <1>3, <1>4, <3>1, <4>1
      <4> HIDE DEF below
      <4>3. SumFunctionOnSet(f, below \cup {n}) = f[n] + SumFunctionOnSet(f, below)
        BY <4>1, <4>2, SumAdd
      <4> QED
        BY <1>2, <3>1, <4>1, <4>3 DEF below
    <3>9. SumFunctionOnSet(f, 1..(n - 1)) \in Int /\ Blk[s[n]].subsidy \in Int
      <4>1. n - 1 \in 0..Len(s)
        BY <3>1
      <4>2. IsFiniteSet(1..(n - 1)) /\ \A k \in 1..(n - 1) : f[k] \in Int
        BY <1>4, <4>1
      <4> QED
        BY <1>1, <3>1, <4>2, SumInt, BlockTypes
    <3>10. SumValue(UtxosOf(Append(p, s[n]))) <= SumFunctionOnSet(f, 1..n)
      BY <3>6, <3>7, <3>8, <3>9
    <3>11. Bounded(n)
      BY <3>5, <3>7, <3>10
    <3> HIDE DEF Bounded
    <3> QED
      BY <2>1, <3>11
  <2> QED
    BY <2>2, <2>3
<1>6. Bounded(Len(s))
  <2> HIDE DEF Bounded
  <2> QED
    BY <1>1, <1>5
<1>7. Prefix(Len(s)) = s
  BY <1>1, SubSeqFull
<1>8. SumFunction(Issued(s)) = SumFunctionOnSet(f, 1..Len(s))
  BY <1>2 DEF SumFunction, f
<1> HIDE DEF Prefix
<1> QED
  BY <1>6, <1>7, <1>8

\* Fees are moved and never minted: unspent value stays within the premine and the
\* subsidies of the active chain, through every extension and reorganisation.
THEOREM SupplyStaysBounded == Spec => []SupplyBounded
<1>1. IInv => SupplyBounded
  BY SupplyOfBranch DEF IInv, Serves, SupplyBounded
<1> QED
  BY <1>1, AlwaysServes, PTL

-----------------------------------------------------------------------------
(* Steps and refinement *)

\* The tip changes only for strictly more cumulative work.
THEOREM TipNeedsMoreWork == Spec => OnlyHeavierWins
<1>1. IInv /\ [Next]_vars
        => [chain' # chain => Blk[Tip(chain')].chainWork > Blk[Tip(chain)].chainWork]_vars
  BY StepMoves DEF Moved, Stayed
<1> QED
  BY <1>1, AlwaysServes, PTL DEF Spec, OnlyHeavierWins

\* Seen from outside, the node only ever adopts valid chains with more work, or
\* lets time pass.
THEOREM NodeImplementsBestChain == Spec => ImplementsBestChain
<1>1. Init => Abstract!Init
  BY DEF Init, Abstract!Init
<1>2. IInv /\ [Next]_vars => [Abstract!Next]_<<chain, utxos, now>>
  <2> SUFFICES ASSUME IInv, [Next]_vars
               PROVE  [Abstract!Next]_<<chain, utxos, now>>
    OBVIOUS
  <2>1. CASE Moved
    <3>1. PICK b \in Blocks :
            /\ Blk[b].chainWork > Blk[Tip(chain)].chainWork
            /\ chain' = Blk[b].branch
            /\ Serves(chain', utxos', now)
            /\ now' = now
      BY <2>1 DEF Moved
    <3>2. Abstract!Adopt(b)
      BY <3>1 DEF Abstract!Adopt, Serves, Tip
    <3> QED
      BY <3>2 DEF Abstract!Next
  <2>2. CASE Stayed
    <3>1. now' \in now..MaxTime /\ now \in 0..MaxTime /\ MaxTime \in Nat
      BY StepMoves, ChainAssumption DEF IInv
    <3>2. Abstract!Pass
      BY <2>2, <3>1 DEF Abstract!Pass, Abstract!served, Stayed
    <3> QED
      BY <3>2 DEF Abstract!Next
  <2> QED
    BY <2>1, <2>2, StepMoves
<1> QED
  BY <1>1, <1>2, AlwaysServes, PTL DEF Spec, ImplementsBestChain, Abstract!Spec
-----------------------------------------------------------------------------
(* The mempool: lists of entries *)

\* A pool without conflicts, parents first.
Clean(p) ==
  /\ \A i, j \in 1..Len(p) : Ins(p[i].tx) \cap Ins(p[j].tx) # {} => i = j
  /\ \A i, j \in 1..Len(p) : Outs(p[i].tx) \cap Ins(p[j].tx) # {} => i < j

LEMMA OnlyOne ==
  ASSUME NEW x
  PROVE  Only({x}) = x
BY DEF Only

LEMMA PoolEntries ==
  ASSUME NEW p \in Seq(Entry)
  PROVE  /\ Len(p) \in Nat /\ DOMAIN p = 1..Len(p)
         /\ \A i \in 1..Len(p) : p[i] \in Entry /\ p[i].tx \in Txs
         /\ TxList(p) \in Seq(Txs) /\ Len(TxList(p)) = Len(p)
         /\ \A i \in 1..Len(p) : TxList(p)[i] = p[i].tx
         /\ PoolTxs(p) \subseteq Txs
<1>1. Len(p) \in Nat /\ DOMAIN p = 1..Len(p) /\ \A i \in 1..Len(p) : p[i] \in Entry
  OBVIOUS
<1>2. \A i \in 1..Len(p) : p[i].tx \in Txs
  BY <1>1 DEF Entry
<1>3. TxList(p) = [i \in 1..Len(p) |-> p[i].tx]
  BY <1>1 DEF TxList
<1>4. TxList(p) \in Seq(Txs) /\ Len(TxList(p)) = Len(p)
  BY <1>1, <1>2, <1>3, IsASeq, LenProperties
<1> QED
  BY <1>1, <1>2, <1>3, <1>4 DEF PoolTxs

\* Leaving entries out keeps a pool clean.
LEMMA WithinStaysClean ==
  ASSUME NEW p, NEW q, Within(q, p), Clean(p)
  PROVE  Clean(q)
<1> SUFFICES ASSUME NEW i \in 1..Len(q), NEW j \in 1..Len(q)
             PROVE  /\ Ins(q[i].tx) \cap Ins(q[j].tx) # {} => i = j
                    /\ Outs(q[i].tx) \cap Ins(q[j].tx) # {} => i < j
  BY DEF Clean
<1>1. Paired(q, p, i, j)
  BY WithinPairs
<1> QED
  BY <1>1 DEF Clean, Paired

LEMMA WithinTxs ==
  ASSUME NEW p \in Seq(Entry), NEW q \in Seq(Entry), Within(q, p)
  PROVE  PoolTxs(q) \subseteq PoolTxs(p)
<1>1. DOMAIN p = 1..Len(p) /\ DOMAIN q = 1..Len(q)
  BY PoolEntries
<1>2. \A i \in 1..Len(q) : \E k \in 1..Len(p) : q[i] = p[k]
  BY WithinEntries
<1> QED
  BY <1>1, <1>2 DEF PoolTxs

LEMMA ReplayEntry ==
  ASSUME NEW p \in Seq(Entry), NEW u, NEW h, NEW time, PoolReplays(p, u, h, time),
         NEW i \in 1..Len(p), NEW o \in Ins(p[i].tx)
  PROVE  /\ \A j \in 1..(i - 1) : o \notin Ins(p[j].tx)
         /\ o \in u \/ \E j \in 1..(i - 1) : o \in Outs(p[j].tx)
<1> DEFINE txs == TxList(p)
<1>1. Len(p) \in Nat /\ Len(txs) = Len(p) /\ DOMAIN txs = 1..Len(p) /\ \A k \in 1..Len(p) : txs[k] = p[k].tx
  BY PoolEntries
<1>2. ListValid(txs, u, h, time)
  BY DEF PoolReplays
<1> HIDE DEF txs
<1>3. /\ \A j \in 1..(i - 1) : o \notin Ins(txs[j])
      /\ o \in u \/ \E j \in 1..(i - 1) : o \in Outs(txs[j])
  BY <1>1, <1>2, ListInputs
<1>4. 1..(i - 1) \subseteq 1..Len(p)
  BY <1>1
<1> QED
  BY <1>1, <1>3, <1>4

\* A pool that replays on a valid chain holds nothing the chain confirmed.
LEMMA ReplaysUnconfirmed ==
  ASSUME NEW s \in Seq(Blocks), NEW time, ValidBranch(s, time),
         NEW p \in Seq(Entry), NEW h, NEW t, PoolReplays(p, UtxosOf(s), h, t)
  PROVE  PoolTxs(p) \cap ConfirmedTxs(s) = {}
<1>1. /\ TxList(p) \in Seq(Txs) /\ Len(TxList(p)) = Len(p) /\ DOMAIN p = 1..Len(p)
      /\ \A i \in 1..Len(p) : TxList(p)[i] = p[i].tx
  BY PoolEntries
<1>2. \A i \in 1..Len(TxList(p)) : TxList(p)[i] \notin ConfirmedTxs(s)
  BY <1>1, ReplayedAreNew DEF PoolReplays
<1> QED
  BY <1>1, <1>2 DEF PoolTxs

\* An outpoint is made by one transaction, so an input of a pool that replays that
\* some unconfirmed transaction makes is made by an earlier entry of the pool.
LEMMA MadeEarlier ==
  ASSUME NEW s \in Seq(Blocks), NEW p \in Seq(Entry), NEW h, NEW t,
         PoolReplays(p, UtxosOf(s), h, t),
         NEW j \in 1..Len(p), NEW r \in Txs, r \notin ConfirmedTxs(s),
         NEW o \in Outs(r), o \in Ins(p[j].tx)
  PROVE  \E k \in 1..(j - 1) : p[k].tx = r
<1>1. o \notin UtxosOf(s)
  BY Creator DEF UtxosOf
<1>2. PICK k \in 1..(j - 1) : o \in Outs(p[k].tx)
  BY <1>1, ReplayEntry
<1>3. p[k].tx \in Txs
  <2>1. k \in 1..Len(p)
    BY PoolEntries
  <2> QED
    BY <2>1, PoolEntries
<1> QED
  BY <1>2, <1>3, OutpointAssumption DEF Outs

\* Replaying on a valid chain is enough for a pool to be clean.
LEMMA ReplaysClean ==
  ASSUME NEW s \in Seq(Blocks), NEW time, ValidBranch(s, time),
         NEW p \in Seq(Entry), NEW h, NEW t, PoolReplays(p, UtxosOf(s), h, t)
  PROVE  Clean(p)
<1>1. Len(p) \in Nat /\ \A i \in 1..Len(p) : p[i].tx \in Txs /\ p[i].tx \notin ConfirmedTxs(s)
  BY PoolEntries, ReplaysUnconfirmed DEF PoolTxs
<1>2. ASSUME NEW i \in 1..Len(p), NEW j \in 1..Len(p), NEW o \in Ins(p[i].tx), o \in Ins(p[j].tx)
      PROVE  i = j
  <2>1. (\A k \in 1..(i - 1) : o \notin Ins(p[k].tx)) /\ (\A k \in 1..(j - 1) : o \notin Ins(p[k].tx))
    BY <1>2, ReplayEntry
  <2>2. (i < j => i \in 1..(j - 1)) /\ (j < i => j \in 1..(i - 1))
    BY <1>1
  <2>3. i \in Nat /\ j \in Nat
    BY <1>1
  <2> QED
    BY <1>2, <2>1, <2>2, <2>3
<1>3. ASSUME NEW i \in 1..Len(p), NEW j \in 1..Len(p), NEW o \in Outs(p[i].tx), o \in Ins(p[j].tx)
      PROVE  i < j
  <2>1. PICK k \in 1..(j - 1) : p[k].tx = p[i].tx
    BY <1>1, <1>3, MadeEarlier
  <2>2. k \in 1..Len(p) /\ k < j
    BY <1>1
  <2>3. PICK x : x \in Ins(p[i].tx)
    BY <1>1, OutpointAssumption DEF Ins
  <2>4. k = i
    BY <1>2, <2>1, <2>2, <2>3
  <2> QED
    BY <2>2, <2>4
<1> QED
  BY <1>2, <1>3 DEF Clean

\* One more entry that is valid after a pool that replays.
LEMMA ReplayGrows ==
  ASSUME NEW p \in Seq(Entry), NEW u, NEW h, NEW time, PoolReplays(p, u, h, time),
         NEW e \in Entry, TxValid(e.tx, PoolView(p, u), h, time)
  PROVE  Append(p, e) \in Seq(Entry) /\ PoolReplays(Append(p, e), u, h, time)
<1> DEFINE q == Append(p, e)
           n == Len(p)
<1>1. /\ q \in Seq(Entry) /\ Len(q) = n + 1 /\ n \in Nat
      /\ \A i \in 1..n : q[i] = p[i]
      /\ q[n + 1] = e
  BY AppendProperties, LenProperties
<1> HIDE DEF q
<1>2. /\ DOMAIN TxList(q) = 1..(n + 1) /\ Len(TxList(p)) = n /\ DOMAIN TxList(p) = 1..n
      /\ \A i \in 1..n : TxList(q)[i] = TxList(p)[i]
      /\ TxList(q)[n + 1] = e.tx
  <2>1. /\ DOMAIN p = 1..n /\ \A i \in 1..n : TxList(p)[i] = p[i].tx
        /\ DOMAIN q = 1..(n + 1) /\ \A i \in 1..(n + 1) : TxList(q)[i] = q[i].tx
        /\ TxList(p) \in Seq(Txs) /\ Len(TxList(p)) = n
        /\ TxList(q) \in Seq(Txs) /\ Len(TxList(q)) = n + 1
    BY <1>1, PoolEntries
  <2>2. n + 1 \in 1..(n + 1) /\ \A i \in 1..n : i \in 1..(n + 1)
    BY <1>1
  <2> QED
    BY <1>1, <2>1, <2>2
<1>3. \A i \in 1..(n + 1) : ViewBefore(u, TxList(q), i) = ViewBefore(u, TxList(p), i)
  <2> SUFFICES ASSUME NEW i \in 1..(n + 1)
               PROVE  ViewBefore(u, TxList(q), i) = ViewBefore(u, TxList(p), i)
    OBVIOUS
  <2>1. 1..(i - 1) \subseteq 1..n
    BY <1>1
  <2>2. \A j \in 1..(i - 1) : TxList(q)[j] = TxList(p)[j]
    BY <1>2, <2>1
  <2> QED
    BY <2>2 DEF ViewBefore
<1>4. ASSUME NEW i \in 1..(n + 1)
      PROVE  TxValid(TxList(q)[i], ViewBefore(u, TxList(q), i), h, time)
  <2>1. CASE i = n + 1
    <3>1. TxValid(e.tx, ViewBefore(u, TxList(p), n + 1), h, time)
      BY <1>2 DEF PoolView
    <3> QED
      BY <1>2, <1>3, <2>1, <3>1
  <2>2. CASE i # n + 1
    <3>1. i \in 1..n
      BY <1>1, <2>2
    <3> QED
      BY <1>2, <1>3, <3>1 DEF PoolReplays, ListValid
  <2> QED
    BY <2>1, <2>2
<1> QED
  BY <1>1, <1>2, <1>4 DEF PoolReplays, ListValid, q

-----------------------------------------------------------------------------
(* The mempool: its operations *)

LEMMA ViewOfNothing ==
  ASSUME NEW u, NEW h, NEW time
  PROVE  <<>> \in Seq(Entry) /\ PoolReplays(<<>>, u, h, time)
BY EmptySeq DEF PoolReplays, ListValid, TxList

\* A greedy pass leaves a pool that replays.
LEMMA GreedyReplays ==
  ASSUME NEW p \in Seq(Entry), NEW u, NEW h, NEW time, NEW ts
  PROVE  /\ GreedyPass(p, u, h, time, ts) \in Seq(Entry)
         /\ PoolReplays(GreedyPass(p, u, h, time, ts), u, h, time)
<1> DEFINE N == Len(p)
           V == Seq(Entry)
           Step(n, k) == IF p[n].tx \in ts /\ TxValid(p[n].tx, PoolView(k, u), h, time)
                         THEN Append(k, p[n]) ELSE k
           Fits(F) == F = [n \in 0..N |-> IF n = 0 THEN <<>>
                                        ELSE Only({Step(n, k) : k \in {F[n - 1]}})]
           G == [x \in (1..N) \X V |-> Step(x[1], x[2])]
           none == <<>>
<1>1. N \in Nat /\ \A n \in 1..N : p[n] \in Entry
  OBVIOUS
<1>2. ASSUME NEW n \in 1..N, NEW k \in V
      PROVE  Step(n, k) \in V /\ (PoolReplays(k, u, h, time) => PoolReplays(Step(n, k), u, h, time))
  <2>1. Append(k, p[n]) \in V
    BY <1>1, AppendProperties
  <2>2. ASSUME TxValid(p[n].tx, PoolView(k, u), h, time), PoolReplays(k, u, h, time)
        PROVE  PoolReplays(Append(k, p[n]), u, h, time)
    BY <1>1, <2>2, ReplayGrows
  <2> QED
    BY <2>1, <2>2
<1> HIDE DEF Step
<1>3. ASSUME NEW n, NEW k
      PROVE  Only({Step(n, x) : x \in {k}}) = Step(n, k)
  <2>1. {Step(n, x) : x \in {k}} = {Step(n, k)}
    OBVIOUS
  <2> QED
    BY <2>1, OnlyOne
<1>4. G \in [(1..N) \X V -> V] /\ \A n \in 1..N : \A k \in V : G[<<n, k>>] = Step(n, k)
  BY <1>2
<1>5. none \in V
  BY EmptySeq
<1>6. GreedyPass(p, u, h, time, ts) = (CHOOSE F : Fits(F))[N]
  BY DEF GreedyPass, Step
<1> HIDE DEF N, V, G, none
<1>7. PICK F : Steps(F, none, G, N, V)
  BY <1>1, <1>4, <1>5, StepTable
<1>8. F \in [0..N -> V] /\ F[0] = none /\ \A n \in 1..N : F[n] = G[<<n, F[n - 1]>>]
  BY <1>7 DEF Steps
<1>9. Fits(F)
  <2>1. ASSUME NEW n \in 0..N
        PROVE  F[n] = IF n = 0 THEN <<>> ELSE Only({Step(n, k) : k \in {F[n - 1]}})
    <3>1. CASE n = 0
      BY <1>8, <3>1 DEF none
    <3>2. CASE n # 0
      <4>1. n \in 1..N /\ n - 1 \in 0..N
        BY <1>1, <3>2
      <4>2. F[n] = Step(n, F[n - 1])
        BY <1>4, <1>8, <4>1
      <4> QED
        BY <1>3, <3>2, <4>2
    <3> QED
      BY <3>1, <3>2
  <2>2. F = [n \in 0..N |-> F[n]]
    BY <1>8
  <2> QED
    BY <2>1, <2>2
<1> DEFINE C == CHOOSE F0 : Fits(F0)
<1>10. Fits(C)
  <2> HIDE DEF Fits
  <2> QED
    BY <1>9
<1> HIDE DEF C
<1>11. C[0] = <<>> /\ \A n \in 1..N : C[n] = Step(n, C[n - 1])
  <2>1. \A n \in 0..N : C[n] = IF n = 0 THEN <<>> ELSE Only({Step(n, k) : k \in {C[n - 1]}})
    BY <1>10
  <2>2. 0 \in 0..N /\ \A n \in 1..N : n \in 0..N /\ n # 0
    BY <1>1
  <2>3. C[0] = <<>>
    BY <2>1, <2>2
  <2>4. ASSUME NEW n \in 1..N
        PROVE  C[n] = Step(n, C[n - 1])
    <3>1. C[n] = Only({Step(n, k) : k \in {C[n - 1]}})
      BY <2>1, <2>2
    <3> QED
      BY <1>3, <3>1
  <2> QED
    BY <2>3, <2>4
<1> DEFINE P == {n \in 0..N : C[n] \in V /\ PoolReplays(C[n], u, h, time)}
<1>12. 0 \in P
  <2>1. 0 \in 0..N /\ C[0] \in V /\ PoolReplays(C[0], u, h, time)
    BY <1>1, <1>11, ViewOfNothing DEF V
  <2> QED
    BY <2>1
<1>13. \A n \in 1..N : n - 1 \in P => n \in P
  <2> SUFFICES ASSUME NEW n \in 1..N, C[n - 1] \in V, PoolReplays(C[n - 1], u, h, time)
               PROVE  n \in 0..N /\ C[n] \in V /\ PoolReplays(C[n], u, h, time)
    OBVIOUS
  <2> QED
    BY <1>1, <1>2, <1>11
<1>14. \A n \in 0..N : n \in P
  <2> HIDE DEF P
  <2> QED
    BY <1>1, <1>12, <1>13, Upward
<1>15. N \in 0..N
  BY <1>1
<1> QED
  BY <1>6, <1>14, <1>15 DEF V, C

\* What purging leaves replays; it also is what mempool_info counts.
LEMMA PurgeReplays ==
  ASSUME NEW p \in Seq(Entry), NEW u, NEW h, NEW time
  PROVE  Purge(p, u, h, time) \in Seq(Entry) /\ PoolReplays(Purge(p, u, h, time), u, h, time)
BY GreedyReplays DEF Purge

LEMMA WithoutKeeps ==
  ASSUME NEW p \in Seq(Entry), NEW ts
  PROVE  /\ Without(p, ts) \in Seq(Entry) /\ Within(Without(p, ts), p)
         /\ PoolTxs(Without(p, ts)) \subseteq PoolTxs(p)
BY KeptWithin, WithinTxs DEF Without

LEMMA ExpireKeeps ==
  ASSUME NEW p \in Seq(Entry), NEW time
  PROVE  Expire(p, time) \in Seq(Entry) /\ Within(Expire(p, time), p)
BY KeptWithin DEF Expire

\* Eviction only leaves entries out.
LEMMA EvictKeeps ==
  ASSUME NEW p \in Seq(Entry), NEW n, NEW u, NEW h, NEW time
  PROVE  EvictToSize(p, n, u, h, time) \in Seq(Entry) /\ Within(EvictToSize(p, n, u, h, time), p)
<1> DEFINE Evicted(rate) ==
             {p[i].tx : i \in {k \in DOMAIN p :
                Cardinality({j \in DOMAIN p :
                  rate[j] < rate[k] \/ (rate[j] = rate[k] /\ j < k)}) < Len(p) - n}}
           r == [i \in DOMAIN p |-> SafeFeeRate(p[i].tx, u, h, time)]
<1>1. EvictToSize(p, n, u, h, time) = Only({Without(p, Evicted(rate)) : rate \in {r}})
  BY DEF EvictToSize
<1> HIDE DEF Evicted, r
<1>2. {Without(p, Evicted(rate)) : rate \in {r}} = {Without(p, Evicted(r))}
  OBVIOUS
<1>3. EvictToSize(p, n, u, h, time) = Without(p, Evicted(r))
  BY <1>1, <1>2, OnlyOne
<1> QED
  BY <1>3, WithoutKeeps

\* Eviction to a size leaves at most that many entries: fee rate and place order
\* the pool, and all but the last n in that order go.
LEMMA EvictBound ==
  ASSUME NEW p \in Seq(Entry), NEW n \in 0..Len(p), NEW u, NEW h, NEW time
  PROVE  Len(EvictToSize(p, n, u, h, time)) <= n
<1> DEFINE r == [i \in DOMAIN p |-> SafeFeeRate(p[i].tx, u, h, time)]
           N == Len(p)
           Lower == [k \in 1..N |-> {j \in 1..N : r[j] < r[k] \/ (r[j] = r[k] /\ j < k)}]
           many == {k \in 1..N : Cardinality(Lower[k]) >= N - n}
           Evicted(rate) ==
             {p[i].tx : i \in {k \in DOMAIN p :
                Cardinality({j \in DOMAIN p :
                  rate[j] < rate[k] \/ (rate[j] = rate[k] /\ j < k)}) < Len(p) - n}}
           I == {i \in DOMAIN p : p[i].tx \notin Evicted(r)}
<1>1. N \in Nat /\ DOMAIN p = 1..N /\ \A i \in 1..N : p[i].tx \in Txs
  BY PoolEntries
<1>2. EvictToSize(p, n, u, h, time) = Kept(p, I)
  <2>1. EvictToSize(p, n, u, h, time) = Only({Without(p, Evicted(rate)) : rate \in {r}})
    BY DEF EvictToSize
  <2> HIDE DEF Evicted, r
  <2>2. {Without(p, Evicted(rate)) : rate \in {r}} = {Without(p, Evicted(r))}
    OBVIOUS
  <2> QED
    BY <2>1, <2>2, OnlyOne DEF Without
<1>3. \A k \in 1..N : r[k] \in Int
  <2> SUFFICES ASSUME NEW t \in Txs
               PROVE  SafeFeeRate(t, u, h, time) \in Int
    BY <1>1
  <2>1. Fee(t) \in Int /\ Tx[t].vsize \in Nat \ {0}
    BY FeeInt, TxTypes
  <2>2. (Fee(t) * 1000) \div Tx[t].vsize \in Int
    BY <2>1
  <2> QED
    BY <2>2 DEF SafeFeeRate, FeeRate
<1>4. \A k \in 1..N : Lower[k] = {j \in DOMAIN p : r[j] < r[k] \/ (r[j] = r[k] /\ j < k)}
  BY <1>1
<1>5. I \subseteq many
  <2> SUFFICES ASSUME NEW i \in 1..N, Cardinality(Lower[i]) < N - n
               PROVE  p[i].tx \in Evicted(r)
    <3>1. \A k \in 1..N : Cardinality(Lower[k]) \in Int
      <4> SUFFICES ASSUME NEW k \in 1..N
                   PROVE  Cardinality(Lower[k]) \in Int
        OBVIOUS
      <4>1. IsFiniteSet(1..N) /\ Lower[k] \subseteq 1..N
        BY <1>1, FS_Interval
      <4>2. IsFiniteSet(Lower[k])
        BY <4>1, FS_Subset
      <4> QED
        BY <4>2, FS_CardinalityType
    <3> HIDE DEF Lower, Evicted, r
    <3> QED
      BY <1>1, <3>1
  <2> HIDE DEF Lower, r
  <2> QED
    BY <1>1, <1>4
<1> HIDE DEF r, Evicted, I
<1>6. Ordering(Lower, N)
  <2>1. Lower \in [1..N -> SUBSET (1..N)]
    OBVIOUS
  <2>2. \A j, k \in 1..N : j \in Lower[k] <=> r[j] < r[k] \/ (r[j] = r[k] /\ j < k)
    OBVIOUS
  <2> HIDE DEF Lower
  <2>3. \A k \in 1..N : k \notin Lower[k]
    BY <1>1, <1>3, <2>2
  <2>4. ASSUME NEW j \in 1..N, NEW k \in 1..N, j \in Lower[k], NEW i \in Lower[j]
        PROVE  i \in Lower[k]
    <3>1. i \in 1..N
      BY <2>1
    <3>2. r[i] \in Int /\ r[j] \in Int /\ r[k] \in Int /\ i \in Int /\ j \in Int /\ k \in Int
      BY <1>1, <1>3, <3>1
    <3>3. r[i] < r[j] \/ (r[i] = r[j] /\ i < j)
      BY <2>2, <2>4, <3>1
    <3>4. r[j] < r[k] \/ (r[j] = r[k] /\ j < k)
      BY <2>2, <2>4
    <3>5. r[i] < r[k] \/ (r[i] = r[k] /\ i < k)
      BY <3>2, <3>3, <3>4
    <3> QED
      BY <2>2, <3>1, <3>5
  <2>5. \A j, k \in 1..N : j = k \/ j \in Lower[k] \/ k \in Lower[j]
    BY <1>1, <1>3, <2>2
  <2> QED
    BY <2>1, <2>3, <2>4, <2>5 DEF Ordering
<1>7. n \in 0..N
  OBVIOUS
<1> HIDE DEF Lower
<1>8. IsFiniteSet(many) /\ Cardinality(many) <= n
  <2> HIDE DEF N
  <2> QED
    BY <1>1, <1>6, <1>7, FewHaveManyBefore
<1> HIDE DEF many
<1>9. IsFiniteSet(I \cap 1..N) /\ Cardinality(I \cap 1..N) <= Cardinality(many)
  BY <1>5, <1>8, FS_Subset
<1>10. Cardinality(I \cap 1..N) \in Nat /\ Cardinality(many) \in Nat
  BY <1>8, <1>9, FS_CardinalityType
<1>11. Len(Kept(p, I)) \in Nat /\ Len(Kept(p, I)) <= Cardinality(I \cap 1..N)
  BY KeptLength
<1> QED
  BY <1>1, <1>2, <1>7, <1>8, <1>9, <1>10, <1>11

LEMMA RoomIs ==
  ASSUME NEW p, NEW t, NEW u, NEW h, NEW time
  PROVE  LET first == IF Len(p) >= MaxPoolTxs
                      THEN EvictToSize(p, MaxPoolTxs - 1, u, h, time) ELSE p
         IN  MakeRoom(p, t, u, h, time) =
               IF Bytes(first, u, h, time) + Tx[t].vsize > MaxPoolBytes
               THEN EvictToSize(first, Len(first) - 1, u, h, time) ELSE first
<1> DEFINE first == IF Len(p) >= MaxPoolTxs
                    THEN EvictToSize(p, MaxPoolTxs - 1, u, h, time) ELSE p
           Second(c) == IF Bytes(c, u, h, time) + Tx[t].vsize > MaxPoolBytes
                        THEN EvictToSize(c, Len(c) - 1, u, h, time) ELSE c
<1>1. MakeRoom(p, t, u, h, time) = Only({Second(c) : c \in {first}})
  BY DEF MakeRoom
<1>2. MakeRoom(p, t, u, h, time) = Second(first)
  <2> HIDE DEF Second, first
  <2>1. {Second(c) : c \in {first}} = {Second(first)}
    OBVIOUS
  <2> QED
    BY <1>1, <2>1, OnlyOne
<1> QED
  BY <1>2

\* Making room leaves a part of the pool with a free place.
LEMMA RoomKeeps ==
  ASSUME NEW p \in Seq(Entry), NEW t, NEW u, NEW h, NEW time
  PROVE  /\ MakeRoom(p, t, u, h, time) \in Seq(Entry)
         /\ Within(MakeRoom(p, t, u, h, time), p)
         /\ Len(MakeRoom(p, t, u, h, time)) < MaxPoolTxs
<1> DEFINE first == IF Len(p) >= MaxPoolTxs
                    THEN EvictToSize(p, MaxPoolTxs - 1, u, h, time) ELSE p
           room == MakeRoom(p, t, u, h, time)
<1>1. room = IF Bytes(first, u, h, time) + Tx[t].vsize > MaxPoolBytes
             THEN EvictToSize(first, Len(first) - 1, u, h, time) ELSE first
  BY RoomIs
<1>2. MaxPoolTxs \in Nat \ {0} /\ Len(p) \in Nat
  BY PolicyAssumption
<1>3. first \in Seq(Entry) /\ Within(first, p) /\ Len(first) < MaxPoolTxs
  <2>1. CASE Len(p) >= MaxPoolTxs
    <3>1. MaxPoolTxs - 1 \in 0..Len(p)
      BY <1>2, <2>1
    <3>2. Len(EvictToSize(p, MaxPoolTxs - 1, u, h, time)) <= MaxPoolTxs - 1
      BY <3>1, EvictBound
    <3>3. EvictToSize(p, MaxPoolTxs - 1, u, h, time) \in Seq(Entry)
          /\ Within(EvictToSize(p, MaxPoolTxs - 1, u, h, time), p)
      BY EvictKeeps
    <3>4. Len(EvictToSize(p, MaxPoolTxs - 1, u, h, time)) \in Nat
      BY <3>3
    <3> QED
      BY <1>2, <2>1, <3>2, <3>3, <3>4
  <2>2. CASE ~(Len(p) >= MaxPoolTxs)
    BY <1>2, <2>2, WithinSelf
  <2> QED
    BY <2>1, <2>2
<1> HIDE DEF first
<1>4. room \in Seq(Entry) /\ Within(room, first)
  BY <1>1, <1>3, EvictKeeps, WithinSelf
<1>5. Len(room) <= Len(first)
  BY <1>3, <1>4, WithinShorter
<1> HIDE DEF room
<1>6. Len(room) \in Nat /\ Len(first) \in Nat
  BY <1>3, <1>4
<1>7. Len(room) < MaxPoolTxs /\ Within(room, p)
  BY <1>2, <1>3, <1>4, <1>5, <1>6, WithinTransitive
<1> QED
  BY <1>4, <1>7 DEF room

LEMMA AdmitIs ==
  ASSUME NEW p, NEW t, NEW u, NEW h, NEW time
  PROVE  LET room == MakeRoom(Expire(p, time), t, u, h, time)
             old == Conflicts(room, t)
             rest == Without(room, old)
         IN  Admit(p, t, u, h, time) =
               IF t \in PoolTxs(p) THEN p
               ELSE IF \/ Bytes(room, u, h, time) + Tx[t].vsize > MaxPoolBytes
                       \/ ~(old = {} \/ MayReplace(t, old, u, h, time))
                    THEN room
                    ELSE IF Acceptable(rest, t, u, h, time)
                         THEN Append(rest, [tx |-> t, at |-> time]) ELSE rest
<1> DEFINE Full(room) == Bytes(room, u, h, time) + Tx[t].vsize > MaxPoolBytes
           MayEnter(old) == old = {} \/ MayReplace(t, old, u, h, time)
           Entered(rest) == IF Acceptable(rest, t, u, h, time)
                            THEN Append(rest, [tx |-> t, at |-> time]) ELSE rest
           Resolve(room, old) == IF Full(room) \/ ~MayEnter(old) THEN room
                                 ELSE Only({Entered(rest) : rest \in {Without(room, old)}})
           After(room) == Only({Resolve(room, old) : old \in {Conflicts(room, t)}})
           Room(evicted) == MakeRoom(evicted, t, u, h, time)
           fresh == Expire(p, time)
<1>1. Admit(p, t, u, h, time) =
        IF t \in PoolTxs(p) THEN p
        ELSE Only({After(room) : room \in {Room(evicted) : evicted \in {fresh}}})
  BY DEF Admit
<1>2. Only({After(room) : room \in {Room(evicted) : evicted \in {fresh}}}) = After(Room(fresh))
  <2> HIDE DEF After, Room, fresh
  <2>1. {After(room) : room \in {Room(evicted) : evicted \in {fresh}}} = {After(Room(fresh))}
    OBVIOUS
  <2> QED
    BY <2>1, OnlyOne
<1>3. ASSUME NEW room
      PROVE  After(room) = Resolve(room, Conflicts(room, t))
  <2> DEFINE old0 == Conflicts(room, t)
  <2> HIDE DEF Resolve, old0
  <2>1. {Resolve(room, old) : old \in {old0}} = {Resolve(room, old0)}
    OBVIOUS
  <2> QED
    BY <2>1, OnlyOne DEF old0
<1>4. ASSUME NEW room, NEW old
      PROVE  Only({Entered(rest) : rest \in {Without(room, old)}}) = Entered(Without(room, old))
  <2> DEFINE rest0 == Without(room, old)
  <2> HIDE DEF Entered, rest0
  <2>1. {Entered(rest) : rest \in {rest0}} = {Entered(rest0)}
    OBVIOUS
  <2> QED
    BY <2>1, OnlyOne DEF rest0
<1>5. ASSUME NEW room, NEW old
      PROVE  Resolve(room, old) = IF Full(room) \/ ~MayEnter(old) THEN room
                                  ELSE Entered(Without(room, old))
  BY <1>4
<1> HIDE DEF Resolve, After
<1>6. Admit(p, t, u, h, time) =
        IF t \in PoolTxs(p) THEN p
        ELSE IF Full(Room(fresh)) \/ ~MayEnter(Conflicts(Room(fresh), t)) THEN Room(fresh)
             ELSE Entered(Without(Room(fresh), Conflicts(Room(fresh), t)))
  BY <1>1, <1>2, <1>3, <1>5
<1> QED
  BY <1>6

\* Single admission leaves a part of the pool, or a pool that replays and ends in
\* the newcomer.
LEMMA AdmitKeeps ==
  ASSUME NEW p \in Seq(Entry), NEW t \in Txs, NEW u, NEW h, NEW time \in Nat
  PROVE  /\ Admit(p, t, u, h, time) \in Seq(Entry)
         /\ \/ Within(Admit(p, t, u, h, time), p)
            \/ PoolReplays(Admit(p, t, u, h, time), u, h, time)
<1> DEFINE room == MakeRoom(Expire(p, time), t, u, h, time)
           rest == Without(room, Conflicts(room, t))
           e == [tx |-> t, at |-> time]
           q == Admit(p, t, u, h, time)
<1>1. room \in Seq(Entry) /\ Within(room, p)
  BY ExpireKeeps, RoomKeeps, WithinTransitive
<1>2. q \in {p, room, rest} \/ (q = Append(rest, e) /\ Acceptable(rest, t, u, h, time))
  BY AdmitIs
<1> HIDE DEF q, room
<1>3. rest \in Seq(Entry) /\ Within(rest, p)
  BY <1>1, WithoutKeeps, WithinTransitive
<1>4. e \in Entry /\ e.tx = t
  BY DEF Entry
<1> HIDE DEF rest, e
<1>5. ASSUME Acceptable(rest, t, u, h, time)
      PROVE  Append(rest, e) \in Seq(Entry) /\ PoolReplays(Append(rest, e), u, h, time)
  <2>1. PoolReplays(rest, u, h, time) /\ TxValid(t, PoolView(rest, u), h, time)
    BY <1>5 DEF Acceptable
  <2> QED
    BY <1>3, <1>4, <2>1, ReplayGrows
<1>6. q \in Seq(Entry) /\ (Within(q, p) \/ PoolReplays(q, u, h, time))
  BY <1>1, <1>2, <1>3, <1>5, WithinSelf
<1> QED
  BY <1>6 DEF q

LEMMA LeavingTyped ==
  ASSUME NEW c \in Seq(Blocks), NEW new
  PROVE  LeavingTxs(c, new) \in Seq(Txs)
<1> DEFINE left == Off(c, BlocksIn(new))
           bodies == [i \in DOMAIN left |-> Blk[left[i]].body]
<1>1. left \in Seq(Blocks)
  BY KeptWithin DEF Off
<1>2. LeavingTxs(c, new) = FlattenSeq(bodies)
  <2> DEFINE F(s) == FlattenSeq([i \in DOMAIN s |-> Blk[s[i]].body])
  <2>1. LeavingTxs(c, new) = Only({F(s) : s \in {left}})
    BY DEF LeavingTxs
  <2>2. F(left) = FlattenSeq(bodies)
    OBVIOUS
  <2> HIDE DEF F, left, bodies
  <2>3. {F(s) : s \in {left}} = {F(left)}
    OBVIOUS
  <2> QED
    BY <2>1, <2>2, <2>3, OnlyOne
<1> HIDE DEF left
<1>3. DOMAIN left = 1..Len(left) /\ Len(left) \in Nat /\ \A i \in 1..Len(left) : left[i] \in Blocks
  BY <1>1
<1>4. \A i \in 1..Len(left) : Blk[left[i]].body \in Seq(Txs)
  BY <1>3, BlockTypes
<1>5. bodies \in Seq(Seq(Txs))
  BY <1>3, <1>4, IsASeq
<1> HIDE DEF bodies
<1> QED
  BY <1>2, <1>5, FlattenTyped

LEMMA ReadmittedTyped ==
  ASSUME NEW p \in Seq(Entry), NEW ts \in Seq(Txs), NEW u, NEW h, now \in Nat
  PROVE  Readmitted(p, ts, u, h) \in Seq(Entry)
<1> DEFINE N == Len(ts)
           V == Seq(Entry)
           Step(n, q) == Admit(q, ts[n], u, h, now)
           Fits(F) == F = [n \in 0..N |-> IF n = 0 THEN p
                                          ELSE Only({Step(n, q) : q \in {F[n - 1]}})]
           G == [x \in (1..N) \X V |-> Step(x[1], x[2])]
<1>1. Readmitted(p, ts, u, h) = (CHOOSE F : Fits(F))[N]
  BY DEF Readmitted
<1>2. N \in Nat /\ \A n \in 1..N : ts[n] \in Txs
  OBVIOUS
<1>3. ASSUME NEW n \in 1..N, NEW q \in V
      PROVE  Step(n, q) \in V
  BY <1>2, AdmitKeeps
<1> HIDE DEF Step
<1>4. \A n, q : Only({Step(n, x) : x \in {q}}) = Step(n, q)
  <2> SUFFICES ASSUME NEW n, NEW q
               PROVE  Only({Step(n, x) : x \in {q}}) = Step(n, q)
    OBVIOUS
  <2>1. {Step(n, x) : x \in {q}} = {Step(n, q)}
    OBVIOUS
  <2> QED
    BY <2>1, OnlyOne
<1>5. G \in [(1..N) \X V -> V] /\ \A n \in 1..N : \A q \in V : G[<<n, q>>] = Step(n, q)
  BY <1>3
<1>6. p \in V
  OBVIOUS
<1> HIDE DEF N, V, G
<1>7. PICK F : Steps(F, p, G, N, V)
  BY <1>2, <1>5, <1>6, StepTable
<1>8. F \in [0..N -> V] /\ F[0] = p /\ \A n \in 1..N : F[n] = G[<<n, F[n - 1]>>]
  BY <1>7 DEF Steps
<1>9. Fits(F)
  <2>1. ASSUME NEW n \in 0..N
        PROVE  F[n] = IF n = 0 THEN p ELSE Only({Step(n, q) : q \in {F[n - 1]}})
    <3>1. CASE n = 0
      BY <1>8, <3>1
    <3>2. CASE n # 0
      <4>1. n \in 1..N /\ n - 1 \in 0..N
        BY <1>2, <3>2
      <4>2. F[n] = Step(n, F[n - 1])
        BY <1>5, <1>8, <4>1
      <4> QED
        BY <1>4, <3>2, <4>2
    <3> QED
      BY <3>1, <3>2
  <2>2. F = [n \in 0..N |-> F[n]]
    BY <1>8
  <2> QED
    BY <2>1, <2>2
<1> DEFINE C == CHOOSE F0 : Fits(F0)
<1>10. Fits(C)
  <2> HIDE DEF Fits
  <2> QED
    BY <1>9
<1> HIDE DEF C
<1>11. \A n \in 0..N : C[n] = IF n = 0 THEN p ELSE Step(n, C[n - 1])
  <2> SUFFICES ASSUME NEW n \in 0..N
               PROVE  C[n] = IF n = 0 THEN p ELSE Step(n, C[n - 1])
    OBVIOUS
  <2>1. C[n] = IF n = 0 THEN p ELSE Only({Step(n, q) : q \in {C[n - 1]}})
    BY <1>10
  <2> QED
    BY <1>4, <2>1
<1> DEFINE P == {n \in 0..N : C[n] \in V}
<1>12. 0 \in P
  BY <1>2, <1>6, <1>11
<1>13. \A n \in 1..N : n - 1 \in P => n \in P
  <2> SUFFICES ASSUME NEW n \in 1..N, C[n - 1] \in V
               PROVE  n \in 0..N /\ C[n] \in V
    OBVIOUS
  <2>1. n \in 0..N /\ n # 0
    BY <1>2
  <2> QED
    BY <1>3, <1>11, <2>1
<1>14. \A n \in 0..N : n \in P
  <2> HIDE DEF P
  <2> QED
    BY <1>2, <1>12, <1>13, Upward
<1>15. N \in 0..N
  BY <1>2
<1> QED
  BY <1>1, <1>14, <1>15 DEF C, V

\* What _switch_to leaves in the pool replays on the new chain.
LEMMA AfterReplays ==
  ASSUME NEW c \in Seq(Blocks), NEW new, NEW p \in Seq(Entry), now \in Nat
  PROVE  /\ MempoolAfter(c, new, p) \in Seq(Entry)
         /\ PoolReplays(MempoolAfter(c, new, p), UtxosOf(new), NextHeight(new), now)
<1> DEFINE h == NextHeight(new)
           Remaining(u, ts) == Without(Readmitted(p, ts, u, h), ConfirmedTxs(new))
           Purged(u, ts) == Only({Purge(q, u, h, now) : q \in {Remaining(u, ts)}})
           After(u) == Only({Purged(u, ts) : ts \in {LeavingTxs(c, new)}})
           u0 == UtxosOf(new)
           ts0 == LeavingTxs(c, new)
<1>1. MempoolAfter(c, new, p) = Only({After(u) : u \in {u0}})
  BY DEF MempoolAfter
<1>2. Remaining(u0, ts0) \in Seq(Entry)
  BY LeavingTyped, ReadmittedTyped, WithoutKeeps
<1> HIDE DEF Remaining, u0, ts0, h
<1>3. Purged(u0, ts0) = Purge(Remaining(u0, ts0), u0, h, now)
  <2>1. {Purge(q, u0, h, now) : q \in {Remaining(u0, ts0)}} = {Purge(Remaining(u0, ts0), u0, h, now)}
    OBVIOUS
  <2> QED
    BY <2>1, OnlyOne
<1> HIDE DEF Purged
<1>4. After(u0) = Purged(u0, ts0)
  <2>1. {Purged(u0, ts) : ts \in {ts0}} = {Purged(u0, ts0)}
    OBVIOUS
  <2> QED
    BY <2>1, OnlyOne DEF ts0
<1> HIDE DEF After
<1>5. MempoolAfter(c, new, p) = After(u0)
  <2>1. {After(u) : u \in {u0}} = {After(u0)}
    OBVIOUS
  <2> QED
    BY <1>1, <2>1, OnlyOne
<1> QED
  BY <1>2, <1>3, <1>4, <1>5, PurgeReplays DEF u0, h

\* A package joins a pool it does not conflict with, behind the parents it has there.
LEMMA PackageKeeps ==
  ASSUME NEW s \in Seq(Blocks), NEW time, ValidBranch(s, time),
         NEW p \in Seq(Entry), Clean(p), PoolTxs(p) \cap ConfirmedTxs(s) = {},
         NEW ts \in Seq(Txs), NEW h, NEW t \in Nat
  PROVE  /\ AdmitPackage(p, ts, UtxosOf(s), h, t) \in Seq(Entry)
         /\ Clean(AdmitPackage(p, ts, UtxosOf(s), h, t))
         /\ PoolTxs(AdmitPackage(p, ts, UtxosOf(s), h, t)) \cap ConfirmedTxs(s) = {}
<1> DEFINE u == UtxosOf(s)
           view == PoolView(p, u)
           new == [i \in DOMAIN ts |-> [tx |-> ts[i], at |-> t]]
           q == p \o new
           n == Len(p)
           m == Len(ts)
<1>1. CASE ~PackageAcceptable(p, ts, u, h, t)
  BY <1>1 DEF AdmitPackage
<1>2. CASE PackageAcceptable(p, ts, u, h, t)
  <2>1. /\ NoDuplicates(ts)
        /\ PoolReplays(p, u, h, t)
        /\ ListValid(ts, view, h, t)
        /\ \A i \in DOMAIN ts : ts[i] \notin PoolTxs(p) /\ Conflicts(p, ts[i]) = {}
    BY <1>2 DEF PackageAcceptable
  <2>2. /\ DOMAIN ts = 1..m /\ m \in Nat /\ \A i \in 1..m : ts[i] \in Txs
        /\ n \in Nat /\ DOMAIN p = 1..n /\ \A i \in 1..n : p[i] \in Entry /\ p[i].tx \in Txs
        /\ PoolTxs(p) = {p[i].tx : i \in 1..n}
    BY PoolEntries DEF PoolTxs
  <2>3. new \in Seq(Entry) /\ Len(new) = m /\ \A i \in 1..m : new[i].tx = ts[i]
    <3>1. \A i \in 1..m : [tx |-> ts[i], at |-> t] \in Entry
      BY <2>2 DEF Entry
    <3>2. new = [i \in 1..m |-> [tx |-> ts[i], at |-> t]]
      BY <2>2
    <3>3. new \in Seq(Entry) /\ Len(new) = m
      BY <2>2, <3>1, <3>2, IsASeq, LenProperties
    <3> QED
      BY <3>2, <3>3
  <2> HIDE DEF new
  <2>4. /\ q \in Seq(Entry) /\ Len(q) = n + m /\ DOMAIN q = 1..(n + m)
        /\ \A i \in 1..n : q[i].tx = p[i].tx
        /\ \A i \in 1..m : q[n + i].tx = ts[i]
    <3>1. q \in Seq(Entry) /\ Len(q) = n + m
      BY <2>3, ConcatProperties, ZenonT(30)
    <3>2. \A i \in 1..(n + m) : q[i] = IF i <= n THEN p[i] ELSE new[i - n]
      BY <2>3, ConcatProperties
    <3> HIDE DEF q
    <3>3. \A i \in 1..n : i \in 1..(n + m) /\ i <= n
      BY <2>2
    <3>4. \A i \in 1..m : n + i \in 1..(n + m) /\ ~(n + i <= n) /\ (n + i) - n = i
      BY <2>2
    <3>5. \A i \in 1..m : q[n + i] = new[i]
      BY <3>2, <3>4
    <3>6. \A i \in 1..n : q[i] = p[i]
      BY <3>2, <3>3
    <3>7. DOMAIN q = 1..(n + m)
      BY <3>1
    <3> QED
      BY <2>3, <3>1, <3>5, <3>6, <3>7
  <2> HIDE DEF q
  <2>5. ASSUME NEW i \in 1..m, NEW o \in Ins(ts[i])
        PROVE  /\ \A j \in 1..(i - 1) : o \notin Ins(ts[j])
               /\ \A j \in 1..n : o \notin Ins(p[j].tx)
               /\ o \in u \/ (\E j \in 1..n : o \in Outs(p[j].tx)) \/ \E j \in 1..(i - 1) : o \in Outs(ts[j])
    <3>1. /\ \A j \in 1..(i - 1) : o \notin Ins(ts[j])
          /\ o \in view \/ \E j \in 1..(i - 1) : o \in Outs(ts[j])
      <4> HIDE DEF view
      <4> QED
        BY <2>1, <2>2, ListInputs
    <3>2. \A j \in 1..n : o \notin Ins(p[j].tx)
      BY <2>1, <2>2 DEF Conflicts
    <3>3. o \in view => o \in u \/ \E j \in 1..n : o \in Outs(p[j].tx)
      <4>1. Len(TxList(p)) = n /\ \A j \in 1..n : TxList(p)[j] = p[j].tx
        BY PoolEntries
      <4>2. 1..((n + 1) - 1) = 1..n
        BY <2>2
      <4> QED
        BY <4>1, <4>2 DEF PoolView, ViewBefore
    <3> QED
      BY <3>1, <3>2, <3>3
  <2>6. \A i \in 1..m : ts[i] \notin ConfirmedTxs(s)
    <3> DEFINE again == {i \in 1..m : ts[i] \in ConfirmedTxs(s)}
    <3>1. SUFFICES ASSUME again # {} PROVE FALSE
      OBVIOUS
    <3>2. PICK i \in again : \A j \in again : i <= j
      <4>1. again \subseteq Nat
        BY <2>2
      <4> HIDE DEF again
      <4> QED
        BY <3>1, <4>1, LeastElement
    <3>3. PICK o : o \in Ins(ts[i])
      BY <2>2, OutpointAssumption DEF Ins
    <3>4. o \in Created(s) /\ o \notin u
      <4>1. PICK k \in DOMAIN s : ts[i] \in TxsOf(s[k])
        BY DEF ConfirmedTxs
      <4>2. o \in Spent(s)
        BY <3>3, <4>1 DEF Spent, BlockIns
      <4> QED
        BY <4>2, SpentWasCreated DEF UtxosOf
    <3>5. ASSUME NEW j \in 1..n
          PROVE  o \notin Outs(p[j].tx)
      <4>1. p[j].tx \in Txs /\ p[j].tx \notin ConfirmedTxs(s)
        BY <2>2
      <4> QED
        BY <3>4, <4>1, Creator
    <3>6. PICK j \in 1..(i - 1) : o \in Outs(ts[j])
      BY <2>5, <3>3, <3>4, <3>5
    <3>7. j \in 1..m /\ j < i
      BY <2>2
    <3>8. ts[j] \in ConfirmedTxs(s)
      BY <2>2, <3>4, <3>6, <3>7, Creator
    <3> QED
      BY <3>2, <3>7, <3>8
  <2>7. \A i \in 1..(n + m) : i \in 1..n \/ \E k \in 1..m : i = n + k
    <3> SUFFICES ASSUME NEW i \in 1..(n + m), i \notin 1..n
                 PROVE  \E k \in 1..m : i = n + k
      OBVIOUS
    <3>1. i - n \in 1..m /\ i = n + (i - n)
      BY <2>2
    <3> QED
      BY <3>1
  <2>8. PoolTxs(q) \cap ConfirmedTxs(s) = {}
    <3> SUFFICES ASSUME NEW i \in 1..(n + m)
                 PROVE  q[i].tx \notin ConfirmedTxs(s)
      BY <2>4 DEF PoolTxs
    <3>1. CASE i \in 1..n
      <4>1. q[i].tx = p[i].tx /\ p[i].tx \in PoolTxs(p)
        BY <2>2, <2>4, <3>1
      <4> QED
        BY <4>1
    <3>2. CASE i \notin 1..n
      <4>1. PICK k \in 1..m : i = n + k
        BY <2>7, <3>2
      <4>2. q[i].tx = ts[k]
        BY <2>4, <4>1
      <4> QED
        BY <2>6, <4>2
    <3> QED
      BY <3>1, <3>2
  <2>9. ASSUME NEW i \in 1..(n + m), NEW j \in 1..(n + m),
               NEW o \in Ins(q[i].tx), o \in Ins(q[j].tx)
        PROVE  i = j
    <3>1. CASE i \in 1..n /\ j \in 1..n
      BY <2>4, <2>9, <3>1 DEF Clean
    <3>2. CASE i \in 1..n /\ j \notin 1..n
      <4>1. PICK l \in 1..m : j = n + l
        BY <2>7, <3>2
      <4>2. o \in Ins(p[i].tx) /\ o \in Ins(ts[l])
        BY <2>4, <2>9, <3>2, <4>1
      <4> QED
        BY <2>5, <3>2, <4>2
    <3>3. CASE i \notin 1..n /\ j \in 1..n
      <4>1. PICK k \in 1..m : i = n + k
        BY <2>7, <3>3
      <4>2. o \in Ins(p[j].tx) /\ o \in Ins(ts[k])
        BY <2>4, <2>9, <3>3, <4>1
      <4> QED
        BY <2>5, <3>3, <4>2
    <3>4. CASE i \notin 1..n /\ j \notin 1..n
      <4>1. PICK k \in 1..m, l \in 1..m : i = n + k /\ j = n + l
        BY <2>7, <3>4
      <4>2. o \in Ins(ts[k]) /\ o \in Ins(ts[l])
        BY <2>4, <2>9, <4>1
      <4>3. ~(k < l) /\ ~(l < k)
        <5>1. (\A x \in 1..(k - 1) : o \notin Ins(ts[x])) /\ (\A x \in 1..(l - 1) : o \notin Ins(ts[x]))
          BY <2>5, <4>2
        <5>2. (k < l => k \in 1..(l - 1)) /\ (l < k => l \in 1..(k - 1))
          BY <2>2
        <5> QED
          BY <4>2, <5>1, <5>2
      <4>4. k = l
        BY <4>3
      <4> QED
        BY <4>1, <4>4
    <3> QED
      BY <3>1, <3>2, <3>3, <3>4
  <2>10. ASSUME NEW i \in 1..(n + m), NEW j \in 1..(n + m),
                NEW o \in Outs(q[i].tx), o \in Ins(q[j].tx)
         PROVE  i < j
    <3>1. CASE i \in 1..n /\ j \in 1..n
      BY <2>4, <2>10, <3>1 DEF Clean
    <3>2. CASE i \in 1..n /\ j \notin 1..n
      BY <2>2, <3>2
    <3>3. CASE i \notin 1..n
      <4>1. PICK k \in 1..m : i = n + k
        BY <2>7, <3>3
      <4>2. o \in Outs(ts[k]) /\ ts[k] \in Txs /\ ts[k] \notin ConfirmedTxs(s) /\ ts[k] \notin PoolTxs(p)
        BY <2>1, <2>2, <2>4, <2>6, <2>10, <4>1
      <4>3. o \notin u
        BY <4>2, Creator DEF UtxosOf
      <4>4. \A x \in 1..n : o \notin Outs(p[x].tx)
        <5>1. \A x \in 1..n : p[x].tx \in Txs /\ p[x].tx # ts[k]
          BY <2>2, <4>2
        <5> QED
          BY <4>2, <5>1, OutpointAssumption DEF Outs
      <4>5. CASE j \in 1..n
        <5>1. o \in Ins(p[j].tx)
          BY <2>4, <2>10, <4>5
        <5>2. \E x \in 1..(j - 1) : o \in Outs(p[x].tx)
          <6> HIDE DEF u
          <6> QED
            BY <2>1, <4>3, <4>5, <5>1, ReplayEntry
        <5>3. 1..(j - 1) \subseteq 1..n
          BY <2>2, <4>5
        <5> QED
          BY <4>4, <5>2, <5>3
      <4>6. CASE j \notin 1..n
        <5>1. PICK l \in 1..m : j = n + l
          BY <2>7, <4>6
        <5>2. o \in Ins(ts[l])
          BY <2>4, <2>10, <5>1
        <5>3. PICK x \in 1..(l - 1) : o \in Outs(ts[x])
          BY <2>5, <4>3, <4>4, <5>2
        <5>4. x \in 1..m /\ x < l
          BY <2>2
        <5>5. ts[x] = ts[k]
          BY <2>2, <4>2, <5>3, <5>4, OutpointAssumption DEF Outs
        <5>6. x = k
          BY <2>1, <2>2, <5>4, <5>5 DEF NoDuplicates
        <5> QED
          BY <2>2, <4>1, <5>1, <5>4, <5>6
      <4> QED
        BY <4>5, <4>6
    <3> QED
      BY <3>1, <3>2, <3>3
  <2>11. Clean(q)
    BY <2>4, <2>9, <2>10 DEF Clean
  <2>12. AdmitPackage(p, ts, u, h, t) = q
    BY <1>2 DEF AdmitPackage, q, new
  <2> QED
    BY <2>4, <2>8, <2>11, <2>12
<1> QED
  BY <1>1, <1>2

-----------------------------------------------------------------------------
(* Blocks off the tip *)

\* Dropping blocks from a list keeps it free of repetitions.
LEMMA OffDistinct ==
  ASSUME NEW s \in Seq(Blocks), NoDuplicates(s), NEW bs
  PROVE  Off(s, bs) \in Seq(Blocks) /\ NoDuplicates(Off(s, bs))
<1> DEFINE q == Off(s, bs)
<1>1. q \in Seq(Blocks) /\ Within(q, s)
  BY KeptWithin DEF Off
<1> HIDE DEF q
<1>2. DOMAIN q = 1..Len(q) /\ DOMAIN s = 1..Len(s)
  BY <1>1
<1>3. ASSUME NEW i \in 1..Len(q), NEW j \in 1..Len(q), q[i] = q[j]
      PROVE  i = j
  <2>1. \A k, l \in 1..Len(s) : s[k] = s[l] => k = l
    BY <1>2 DEF NoDuplicates
  <2> QED
    BY <1>1, <1>3, <2>1, WithinDistinct
<1> QED
  BY <1>1, <1>2, <1>3 DEF NoDuplicates, q

LEMMA OffEntries ==
  ASSUME NEW s \in Seq(Blocks), NEW bs
  PROVE  /\ Off(s, bs) \in Seq(Blocks)
         /\ \A i \in 1..Len(Off(s, bs)) : Off(s, bs)[i] \notin bs
         /\ BlocksIn(Off(s, bs)) \subseteq BlocksIn(s)
<1> DEFINE I == {i \in DOMAIN s : s[i] \notin bs}
           q == Kept(s, I)
<1>1. Off(s, bs) = q
  BY DEF Off
<1>2. q \in Seq(Blocks) /\ \A i \in DOMAIN q : \E k \in DOMAIN s : k \in I /\ q[i] = s[k]
  <2> HIDE DEF I
  <2> QED
    BY KeptEntries
<1> HIDE DEF q
<1>3. DOMAIN q = 1..Len(q)
  BY <1>2
<1>4. ASSUME NEW i \in 1..Len(q)
      PROVE  q[i] \notin bs /\ q[i] \in BlocksIn(s)
  BY <1>2, <1>3 DEF BlocksIn
<1>5. BlocksIn(q) \subseteq BlocksIn(s)
  BY <1>3, <1>4 DEF BlocksIn
<1> QED
  BY <1>1, <1>2, <1>4, <1>5

\* Two lists without repetitions and without a common block, one after the other.
LEMMA JoinDistinct ==
  ASSUME NEW s \in Seq(Blocks), NEW q \in Seq(Blocks), NoDuplicates(s), NoDuplicates(q),
         \A i \in 1..Len(q) : q[i] \notin BlocksIn(s)
  PROVE  s \o q \in Seq(Blocks) /\ NoDuplicates(s \o q)
<1> DEFINE r == s \o q
           n == Len(s)
           m == Len(q)
<1>1. /\ n \in Nat /\ m \in Nat /\ DOMAIN s = 1..n /\ DOMAIN q = 1..m
      /\ r \in Seq(Blocks) /\ Len(r) = n + m
      /\ \A i \in 1..(n + m) : r[i] = IF i <= n THEN s[i] ELSE q[i - n]
  BY ConcatProperties
<1> HIDE DEF r
<1>2. DOMAIN r = 1..(n + m)
  BY <1>1
<1>3. ASSUME NEW i \in 1..(n + m), NEW j \in 1..(n + m), r[i] = r[j]
      PROVE  i = j
  <2>1. (i <= n => i \in 1..n) /\ (~(i <= n) => i - n \in 1..m)
    BY <1>1
  <2>2. (j <= n => j \in 1..n) /\ (~(j <= n) => j - n \in 1..m)
    BY <1>1
  <2>3. CASE i <= n /\ j <= n
    <3>1. s[i] = s[j]
      BY <1>1, <1>3, <2>3
    <3> QED
      BY <1>1, <2>1, <2>2, <2>3, <3>1 DEF NoDuplicates
  <2>4. CASE i <= n /\ ~(j <= n)
    <3>1. s[i] = q[j - n] /\ s[i] \in BlocksIn(s)
      BY <1>1, <1>3, <2>1, <2>4 DEF BlocksIn
    <3> QED
      BY <2>2, <2>4, <3>1
  <2>5. CASE ~(i <= n) /\ j <= n
    <3>1. q[i - n] = s[j] /\ s[j] \in BlocksIn(s)
      BY <1>1, <1>3, <2>2, <2>5 DEF BlocksIn
    <3> QED
      BY <2>1, <2>5, <3>1
  <2>6. CASE ~(i <= n) /\ ~(j <= n)
    <3>1. q[i - n] = q[j - n]
      BY <1>1, <1>3, <2>6
    <3>2. i - n = j - n
      BY <1>1, <2>1, <2>2, <2>6, <3>1 DEF NoDuplicates
    <3> QED
      BY <1>1, <3>2
  <2> QED
    BY <2>3, <2>4, <2>5, <2>6
<1> QED
  BY <1>1, <1>2, <1>3 DEF NoDuplicates, r

\* A valid chain repeats no block: the height is the position.
LEMMA ChainDistinct ==
  ASSUME NEW s \in Seq(Blocks), NEW time, ValidBranch(s, time)
  PROVE  NoDuplicates(s)
<1>1. DOMAIN s = 1..Len(s) /\ \A i \in 1..Len(s) : Blk[s[i]].height = i - 1
  BY HeightIsPosition
<1> SUFFICES ASSUME NEW i \in 1..Len(s), NEW j \in 1..Len(s), s[i] = s[j]
             PROVE  i = j
  BY <1>1 DEF NoDuplicates
<1>2. i - 1 = j - 1
  BY <1>1
<1> QED
  BY <1>2

LEMMA OrphansAre ==
  ASSUME NEW c, NEW new, NEW o
  PROVE  OrphansAfter(c, new, o) = Off(o \o Off(c, BlocksIn(new) \cup BlocksIn(o)), BlocksIn(new))
<1> DEFINE both == o \o Off(c, BlocksIn(new) \cup BlocksIn(o))
<1>1. OrphansAfter(c, new, o) = Only({Off(all, BlocksIn(new)) : all \in {both}})
  BY DEF OrphansAfter
<1> HIDE DEF both
<1>2. {Off(all, BlocksIn(new)) : all \in {both}} = {Off(both, BlocksIn(new))}
  OBVIOUS
<1> QED
  BY <1>1, <1>2, OnlyOne DEF both

LEMMA OrphansDistinct ==
  ASSUME NEW c \in Seq(Blocks), NoDuplicates(c), NEW o \in Seq(Blocks), NoDuplicates(o), NEW new
  PROVE  OrphansAfter(c, new, o) \in Seq(Blocks) /\ NoDuplicates(OrphansAfter(c, new, o))
<1> DEFINE left == Off(c, BlocksIn(new) \cup BlocksIn(o))
<1>1. left \in Seq(Blocks) /\ NoDuplicates(left)
  BY OffDistinct
<1>2. \A i \in 1..Len(left) : left[i] \notin BlocksIn(o)
  BY OffEntries
<1> HIDE DEF left
<1>3. o \o left \in Seq(Blocks) /\ NoDuplicates(o \o left)
  BY <1>1, <1>2, JoinDistinct
<1>4. OrphansAfter(c, new, o) = Off(o \o left, BlocksIn(new))
  BY OrphansAre DEF left
<1> QED
  BY <1>3, <1>4, OffDistinct

LEMMA RememberDistinct ==
  ASSUME NEW b \in Blocks, NEW o \in Seq(Blocks), NoDuplicates(o)
  PROVE  Remember(b, o) \in Seq(Blocks) /\ NoDuplicates(Remember(b, o))
<1> DEFINE o1 == IF b \in BlocksIn(o) THEN o ELSE Append(o, b)
           n == Len(o1) - MaxOrphans
<1>1. o1 \in Seq(Blocks) /\ NoDuplicates(o1)
  <2>1. CASE b \in BlocksIn(o)
    BY <2>1
  <2>2. CASE b \notin BlocksIn(o)
    <3>1. /\ Append(o, b) \in Seq(Blocks) /\ Len(Append(o, b)) = Len(o) + 1 /\ Len(o) \in Nat
          /\ \A i \in 1..Len(o) : Append(o, b)[i] = o[i]
          /\ Append(o, b)[Len(o) + 1] = b
      BY AppendProperties, LenProperties
    <3>2. DOMAIN Append(o, b) = 1..(Len(o) + 1) /\ DOMAIN o = 1..Len(o)
      BY <3>1
    <3>3. \A i \in 1..Len(o) : o[i] # b
      BY <2>2, <3>2 DEF BlocksIn
    <3>4. \A i \in 1..(Len(o) + 1) : i \in 1..Len(o) \/ i = Len(o) + 1
      BY <3>1
    <3>5. NoDuplicates(Append(o, b))
      BY <3>1, <3>2, <3>3, <3>4 DEF NoDuplicates
    <3> QED
      BY <2>2, <3>1, <3>5
  <2> QED
    BY <2>1, <2>2
<1>2. Remember(b, o) = IF Len(o1) > MaxOrphans THEN SubSeq(o1, n + 1, Len(o1)) ELSE o1
  BY DEF Remember
<1> HIDE DEF o1
<1>3. CASE Len(o1) > MaxOrphans
  <2> DEFINE q == SubSeq(o1, n + 1, Len(o1))
  <2>1. /\ MaxOrphans \in Nat \ {0} /\ Len(o1) \in Nat /\ DOMAIN o1 = 1..Len(o1)
        /\ n + 1 \in 1..Len(o1) /\ n \in Nat
    BY <1>1, <1>3, ChainAssumption
  <2>2. q \in Seq(Blocks) /\ Len(q) = Len(o1) - n /\ \A i \in 1..(Len(o1) - n) : q[i] = o1[n + i]
    <3> HIDE DEF n
    <3>1. \A i \in (n + 1)..Len(o1) : o1[i] \in Blocks
      BY <1>1, <2>1
    <3>2. /\ q \in Seq(Blocks)
          /\ Len(q) = (IF n + 1 <= Len(o1) THEN Len(o1) - (n + 1) + 1 ELSE 0)
          /\ \A i \in 1..(Len(o1) - (n + 1) + 1) : q[i] = o1[(n + 1) + i - 1]
      BY <2>1, <3>1, SubSeqProperties
    <3>3. Len(o1) - (n + 1) + 1 = Len(o1) - n /\ n + 1 <= Len(o1)
      BY <2>1
    <3>4. \A i \in 1..(Len(o1) - n) : (n + 1) + i - 1 = n + i
      BY <2>1
    <3> HIDE DEF q
    <3> QED
      BY <3>2, <3>3, <3>4
  <2> HIDE DEF q
  <2>3. DOMAIN q = 1..(Len(o1) - n)
    BY <2>2
  <2>4. \A i, j \in 1..(Len(o1) - n) : q[i] = q[j] => i = j
    <3>1. \A i \in 1..(Len(o1) - n) : n + i \in 1..Len(o1)
      BY <2>1
    <3>2. \A i, j \in 1..(Len(o1) - n) : n + i = n + j => i = j
      BY <2>1
    <3> QED
      BY <1>1, <2>1, <2>2, <3>1, <3>2 DEF NoDuplicates
  <2> QED
    BY <1>2, <1>3, <2>2, <2>3, <2>4 DEF NoDuplicates, q
<1>4. CASE ~(Len(o1) > MaxOrphans)
  BY <1>1, <1>2, <1>4
<1> QED
  BY <1>3, <1>4

-----------------------------------------------------------------------------
(* The pool through every step *)

\* What keeps the pool sound: the ledger it is measured on is exact, and whatever
\* a step leaves is a part of the pool or replays on the chain.
PoolOf(c, o, p) ==
  /\ o \in Seq(Blocks) /\ NoDuplicates(o)
  /\ p \in Seq(Entry)
  /\ Clean(p)
  /\ PoolTxs(p) \cap ConfirmedTxs(c) = {}

PInv == IInv /\ PoolOf(chain, orphans, mempool)

\* A pool that replays on a served ledger is sound on it.
LEMMA ReplayingPool ==
  ASSUME NEW c, NEW u, NEW time, Serves(c, u, time),
         NEW o \in Seq(Blocks), NoDuplicates(o),
         NEW p \in Seq(Entry), NEW h, NEW t, PoolReplays(p, u, h, t)
  PROVE  PoolOf(c, o, p)
<1>1. c \in Seq(Blocks) /\ ValidBranch(c, time) /\ u = UtxosOf(c)
  BY DEF Serves
<1> QED
  BY <1>1, ReplaysClean, ReplaysUnconfirmed DEF PoolOf

\* Leaving entries out keeps a pool sound.
LEMMA SmallerPool ==
  ASSUME NEW c, NEW o, NEW p, PoolOf(c, o, p), NEW q \in Seq(Entry), Within(q, p)
  PROVE  PoolOf(c, o, q)
<1>1. p \in Seq(Entry) /\ Clean(p) /\ PoolTxs(p) \cap ConfirmedTxs(c) = {}
  BY DEF PoolOf
<1>2. Clean(q) /\ PoolTxs(q) \subseteq PoolTxs(p)
  BY <1>1, WithinStaysClean, WithinTxs
<1> QED
  BY <1>1, <1>2 DEF PoolOf

\* What _maybe_reorg may leave of a sound pool is sound.
LEMMA ReorganisedPool ==
  ASSUME now \in Nat, NEW c, NEW u, Serves(c, u, now), NEW o, NEW p, PoolOf(c, o, p),
         NEW r \in Reorganised(c, u, o, p)
  PROVE  PoolOf(r.chain, r.orphans, r.mempool)
<1>1. CASE HeavierTips(c, o) = {}
  BY <1>1 DEF Reorganised
<1>2. CASE HeavierTips(c, o) # {}
  <2>1. PICK b \in Best(HeavierTips(c, o), o) : r = Switched(Blk[b].branch, c, o, p)
    BY <1>2 DEF Reorganised
  <2> DEFINE new == Blk[b].branch
  <2>2. Serves(new, UtxosOf(new), now)
    BY <2>1, AdoptServes DEF Best, HeavierTips
  <2>3. c \in Seq(Blocks) /\ NoDuplicates(c)
    BY ChainDistinct DEF Serves
  <2>4. OrphansAfter(c, new, o) \in Seq(Blocks) /\ NoDuplicates(OrphansAfter(c, new, o))
    BY <2>3, OrphansDistinct DEF PoolOf
  <2>5. /\ MempoolAfter(c, new, p) \in Seq(Entry)
        /\ PoolReplays(MempoolAfter(c, new, p), UtxosOf(new), NextHeight(new), now)
    BY <2>3, AfterReplays DEF PoolOf
  <2>6. r.chain = new /\ r.orphans = OrphansAfter(c, new, o) /\ r.mempool = MempoolAfter(c, new, p)
    BY <2>1 DEF Switched
  <2> HIDE DEF new
  <2> QED
    BY <2>2, <2>4, <2>5, <2>6, ReplayingPool
<1> QED
  BY <1>1, <1>2

\* Connecting a block leaves a pool that replays on the chain it extends.
LEMMA ConnectedPool ==
  ASSUME PInv, NEW b \in Blocks, BlockValid(b, Tip(chain), utxos, now)
  PROVE  LET s == Connected(b)
         IN  Serves(s.chain, s.utxos, now) /\ PoolOf(s.chain, s.orphans, s.mempool)
<1> DEFINE s == Connected(b)
           u == ApplyBlock(b, utxos)
           rest == Without(mempool, TxsOf(b))
<1>1. s.chain = Append(chain, b) /\ s.utxos = u /\ s.orphans = orphans
      /\ s.mempool = Purge(rest, u, Blk[b].height + 1, now)
  BY DEF Connected
<1>2. Serves(s.chain, s.utxos, now)
  BY <1>1, ConnectServes DEF PInv, IInv
<1>3. rest \in Seq(Entry)
  BY WithoutKeeps DEF PInv, PoolOf
<1> HIDE DEF rest
<1>4. s.mempool \in Seq(Entry) /\ PoolReplays(s.mempool, s.utxos, Blk[b].height + 1, now)
  BY <1>1, <1>3, PurgeReplays
<1>5. orphans \in Seq(Blocks) /\ NoDuplicates(orphans)
  BY DEF PInv, PoolOf
<1> HIDE DEF s, u
<1>6. PoolOf(s.chain, s.orphans, s.mempool)
  BY <1>1, <1>2, <1>4, <1>5, ReplayingPool
<1> QED
  BY <1>2, <1>6 DEF s

LEMMA InitPool ==
  ASSUME Init
  PROVE  PInv
<1>1. orphans \in Seq(Blocks) /\ NoDuplicates(orphans)
  BY EmptySeq DEF Init, NoDuplicates
<1>2. mempool \in Seq(Entry) /\ Clean(mempool) /\ PoolTxs(mempool) = {}
  BY EmptySeq DEF Init, Clean, PoolTxs
<1> QED
  BY <1>1, <1>2, InitServes DEF PInv, PoolOf

LEMMA StepPool ==
  ASSUME PInv, [Next]_vars
  PROVE  PInv'
<1>0. IInv /\ PoolOf(chain, orphans, mempool) /\ now \in Nat /\ Serves(chain, utxos, now)
  BY ChainAssumption DEF PInv, IInv
<1>1. /\ chain \in Seq(Blocks) /\ ValidBranch(chain, now) /\ utxos = UtxosOf(chain)
      /\ orphans \in Seq(Blocks) /\ NoDuplicates(orphans)
      /\ mempool \in Seq(Entry) /\ Clean(mempool)
      /\ PoolTxs(mempool) \cap ConfirmedTxs(chain) = {}
  BY <1>0 DEF Serves, PoolOf
<1>2. IInv'
  BY <1>0, StepServes
<1> SUFFICES PoolOf(chain', orphans', mempool')
  BY <1>2 DEF PInv, PoolOf, Clean, PoolTxs, ConfirmedTxs
<1>3. ASSUME NEW b \in Blocks, ExtendTip(b)
      PROVE  PoolOf(chain', orphans', mempool')
  <2> DEFINE s == Connected(b)
  <2>1. Serves(s.chain, s.utxos, now) /\ PoolOf(s.chain, s.orphans, s.mempool)
    BY <1>3, ConnectedPool DEF ExtendTip
  <2>2. PICK r \in Reorganised(s.chain, s.utxos, s.orphans, s.mempool) : BecomeState(r)
    BY <1>3 DEF ExtendTip
  <2> HIDE DEF s
  <2>3. PoolOf(r.chain, r.orphans, r.mempool)
    BY <1>0, <2>1, <2>2, ReorganisedPool
  <2> QED
    BY <2>2, <2>3 DEF BecomeState
<1>4. ASSUME NEW b \in Blocks, StoreOffTip(b)
      PROVE  PoolOf(chain', orphans', mempool')
  <2> DEFINE o == Remember(b, orphans)
  <2>1. PICK r \in Reorganised(chain, utxos, o, mempool) : BecomeState(r)
    BY <1>4 DEF StoreOffTip
  <2>2. PoolOf(chain, o, mempool)
    BY <1>1, RememberDistinct DEF PoolOf
  <2> HIDE DEF o
  <2>3. PoolOf(r.chain, r.orphans, r.mempool)
    BY <1>0, <2>1, <2>2, ReorganisedPool
  <2> QED
    BY <2>1, <2>3 DEF BecomeState
<1>5. ASSUME NEW b \in Blocks, MineBlock(b)
      PROVE  PoolOf(chain', orphans', mempool')
  <2> DEFINE s == Connected(b)
  <2>1. PoolOf(s.chain, s.orphans, s.mempool)
    BY <1>5, ConnectedPool DEF MineBlock
  <2>2. BecomeState(s)
    BY <1>5 DEF MineBlock
  <2> HIDE DEF s
  <2> QED
    BY <2>1, <2>2 DEF BecomeState
<1>6. ASSUME NEW b \in Blocks, ReplaceChain(b)
      PROVE  PoolOf(chain', orphans', mempool')
  <2> DEFINE s == Blk[b].branch
             h == NextHeight(s)
  <2>1. /\ <<b, now>> \in ValidAt /\ chain' = s /\ utxos' = UtxosOf(s)
        /\ mempool' = Purge(mempool, UtxosOf(s), h, now) /\ orphans' = orphans
    BY <1>6 DEF ReplaceChain
  <2>2. Serves(s, UtxosOf(s), now)
    BY <2>1, AdoptServes
  <2> HIDE DEF s, h
  <2>3. mempool' \in Seq(Entry) /\ PoolReplays(mempool', UtxosOf(s), h, now)
    BY <1>1, <2>1, PurgeReplays
  <2> QED
    BY <1>1, <2>1, <2>2, <2>3, ReplayingPool
<1>7. ASSUME NEW t \in Submitted, SubmitTx(t)
      PROVE  PoolOf(chain', orphans', mempool')
  <2> DEFINE h == NextHeight(chain)
  <2>1. mempool' = Admit(mempool, t, utxos, h, now) /\ chain' = chain /\ orphans' = orphans
    BY <1>7 DEF SubmitTx
  <2> HIDE DEF h
  <2>2. t \in Txs
    BY ChainAssumption
  <2>3. /\ mempool' \in Seq(Entry)
        /\ Within(mempool', mempool) \/ PoolReplays(mempool', utxos, h, now)
    BY <1>0, <1>1, <2>1, <2>2, AdmitKeeps
  <2>4. PoolOf(chain, orphans, mempool')
    BY <1>0, <1>1, <2>3, SmallerPool, ReplayingPool
  <2> QED
    BY <2>1, <2>4
<1>8. ASSUME NEW ts \in Packages, SubmitPackage(ts)
      PROVE  PoolOf(chain', orphans', mempool')
  <2> DEFINE h == NextHeight(chain)
  <2>1. mempool' = AdmitPackage(mempool, ts, UtxosOf(chain), h, now) /\ chain' = chain /\ orphans' = orphans
    BY <1>1, <1>8 DEF SubmitPackage
  <2> HIDE DEF h
  <2>2. ts \in Seq(Txs)
    BY ChainAssumption
  <2>3. /\ mempool' \in Seq(Entry) /\ Clean(mempool')
        /\ PoolTxs(mempool') \cap ConfirmedTxs(chain) = {}
    BY <1>0, <1>1, <2>1, <2>2, PackageKeeps
  <2> QED
    BY <1>1, <2>1, <2>3 DEF PoolOf
<1>9. ASSUME EvictExpired
      PROVE  PoolOf(chain', orphans', mempool')
  <2>1. mempool' = Expire(mempool, now) /\ chain' = chain /\ orphans' = orphans
    BY <1>9 DEF EvictExpired
  <2>2. mempool' \in Seq(Entry) /\ Within(mempool', mempool)
    BY <1>1, <2>1, ExpireKeeps
  <2> QED
    BY <1>0, <2>1, <2>2, SmallerPool
<1>10. ASSUME ClearMempool
       PROVE  PoolOf(chain', orphans', mempool')
  <2>1. mempool' = <<>> /\ chain' = chain /\ orphans' = orphans
    BY <1>10 DEF ClearMempool
  <2>2. mempool' \in Seq(Entry) /\ Clean(mempool') /\ PoolTxs(mempool') = {}
    BY <2>1, EmptySeq DEF Clean, PoolTxs
  <2> QED
    BY <1>1, <2>1, <2>2 DEF PoolOf
<1>11. ASSUME Tick \/ UNCHANGED vars
       PROVE  PoolOf(chain', orphans', mempool')
  BY <1>0, <1>11 DEF Tick, vars
<1> QED
  BY <1>3, <1>4, <1>5, <1>6, <1>7, <1>8, <1>9, <1>10, <1>11 DEF Next

LEMMA PoolInvariant == Spec => []PInv
<1>1. Init => PInv
  BY InitPool
<1>2. PInv /\ [Next]_vars => PInv'
  BY StepPool
<1> QED
  BY <1>1, <1>2, PTL DEF Spec

\* The mempool never holds two spends of one outpoint, a confirmed transaction or a
\* child before its parent, through admission, replacement, packages, eviction,
\* mining and every change of the chain.
THEOREM PoolStaysSound == Spec => []PoolSound
<1>1. ASSUME PInv PROVE PoolSound
  <2>1. /\ DOMAIN mempool = 1..Len(mempool) /\ Clean(mempool) /\ mempool \in Seq(Entry)
        /\ PoolTxs(mempool) \cap ConfirmedTxs(chain) = {}
        /\ orphans \in Seq(Blocks) /\ NoDuplicates(orphans)
    BY <1>1, PoolEntries DEF PInv, PoolOf
  <2>2. LedgerTypeOK
    BY <1>1, UtxosAreOutpoints DEF PInv, IInv, Serves, LedgerTypeOK
  <2>3. TypeOK
    BY <2>1, <2>2 DEF TypeOK
  <2>4. PoolUnconflicted /\ ParentsFirst
    BY <2>1 DEF Clean, PoolUnconflicted, ParentsFirst
  <2> QED
    BY <2>1, <2>3, <2>4 DEF PoolSound, PoolUnconfirmed
<1> QED
  BY <1>1, PoolInvariant, PTL

\* The pool replays on the ledger it is measured on.
Replaying(c, u, p) == PoolReplays(p, u, NextHeight(c), now)

\* A reorganisation leaves such a pool.
LEMMA ReorganisedReplays ==
  ASSUME now \in Nat, NEW c, NEW u, Serves(c, u, now), NEW o, NEW p, PoolOf(c, o, p),
         NEW r \in Reorganised(c, u, o, p)
  PROVE  \/ r.chain = c /\ r.utxos = u /\ r.mempool = p
         \/ Replaying(r.chain, r.utxos, r.mempool)
<1>1. CASE HeavierTips(c, o) = {}
  BY <1>1 DEF Reorganised
<1>2. CASE HeavierTips(c, o) # {}
  <2>1. PICK b \in Best(HeavierTips(c, o), o) : r = Switched(Blk[b].branch, c, o, p)
    BY <1>2 DEF Reorganised
  <2> DEFINE new == Blk[b].branch
  <2>2. r.chain = new /\ r.utxos = UtxosOf(new) /\ r.mempool = MempoolAfter(c, new, p)
    BY <2>1 DEF Switched
  <2>3. c \in Seq(Blocks) /\ p \in Seq(Entry)
    BY DEF Serves, PoolOf
  <2> HIDE DEF new
  <2> QED
    BY <2>2, <2>3, AfterReplays DEF Replaying
<1> QED
  BY <1>1, <1>2

\* So does a block on the tip.
LEMMA ConnectedReplays ==
  ASSUME PInv, NEW b \in Blocks, BlockValid(b, Tip(chain), utxos, now)
  PROVE  Replaying(Connected(b).chain, Connected(b).utxos, Connected(b).mempool)
<1> DEFINE rest == Without(mempool, TxsOf(b))
           u == ApplyBlock(b, utxos)
<1>1. Connected(b).chain = Append(chain, b) /\ Connected(b).utxos = u
      /\ Connected(b).mempool = Purge(rest, u, Blk[b].height + 1, now)
  BY DEF Connected
<1>2. Tip(Append(chain, b)) = b
  BY ConnectServes DEF PInv, IInv
<1>3. rest \in Seq(Entry)
  BY WithoutKeeps DEF PInv, PoolOf
<1> HIDE DEF rest, u
<1> QED
  BY <1>1, <1>2, <1>3, PurgeReplays DEF NextHeight, Replaying

\* A step of the pool, or of the clock, alone.
PoolStep ==
  \/ \E t \in Submitted : SubmitTx(t)
  \/ \E ts \in Packages : SubmitPackage(ts)
  \/ EvictExpired
  \/ ClearMempool
  \/ Tick
  \/ UNCHANGED <<chain, utxos, mempool, now>>

\* Any other step leaves a pool that replays.
LEMMA OtherStepsReplay ==
  ASSUME PInv, [Next]_vars
  PROVE  PoolStep \/ (Replaying(chain', utxos', mempool') /\ now' = now)
<1>0. now \in Nat /\ Serves(chain, utxos, now) /\ PoolOf(chain, orphans, mempool) /\ mempool \in Seq(Entry)
  BY ChainAssumption DEF PInv, IInv, PoolOf
<1>1. ASSUME NEW b \in Blocks, ExtendTip(b)
      PROVE  Replaying(chain', utxos', mempool') /\ now' = now
  <2> DEFINE s == Connected(b)
  <2>1. /\ Serves(s.chain, s.utxos, now) /\ PoolOf(s.chain, s.orphans, s.mempool)
        /\ Replaying(s.chain, s.utxos, s.mempool)
    BY <1>1, ConnectedPool, ConnectedReplays DEF ExtendTip
  <2>2. PICK r \in Reorganised(s.chain, s.utxos, s.orphans, s.mempool) : BecomeState(r)
    BY <1>1 DEF ExtendTip
  <2> HIDE DEF s
  <2>3. Replaying(r.chain, r.utxos, r.mempool)
    BY <1>0, <2>1, <2>2, ReorganisedReplays
  <2> QED
    BY <2>2, <2>3 DEF BecomeState
<1>2. ASSUME NEW b \in Blocks, StoreOffTip(b)
      PROVE  PoolStep \/ (Replaying(chain', utxos', mempool') /\ now' = now)
  <2> DEFINE o == Remember(b, orphans)
  <2>1. PICK r \in Reorganised(chain, utxos, o, mempool) : BecomeState(r)
    BY <1>2 DEF StoreOffTip
  <2>2. PoolOf(chain, o, mempool)
    BY <1>0, RememberDistinct DEF PoolOf
  <2> HIDE DEF o
  <2>3. \/ r.chain = chain /\ r.utxos = utxos /\ r.mempool = mempool
        \/ Replaying(r.chain, r.utxos, r.mempool)
    BY <1>0, <2>1, <2>2, ReorganisedReplays
  <2> QED
    BY <2>1, <2>3 DEF BecomeState, PoolStep
<1>3. ASSUME NEW b \in Blocks, MineBlock(b)
      PROVE  Replaying(chain', utxos', mempool') /\ now' = now
  <2>1. Replaying(Connected(b).chain, Connected(b).utxos, Connected(b).mempool)
    BY <1>3, ConnectedReplays DEF MineBlock
  <2> QED
    BY <1>3, <2>1 DEF MineBlock, BecomeState
<1>4. ASSUME NEW b \in Blocks, ReplaceChain(b)
      PROVE  Replaying(chain', utxos', mempool') /\ now' = now
  BY <1>0, <1>4, PurgeReplays DEF ReplaceChain, Replaying
<1>5. CASE UNCHANGED vars
  BY <1>5 DEF vars, PoolStep
<1> QED
  BY <1>1, <1>2, <1>3, <1>4, <1>5 DEF Next, PoolStep

\* Whenever the chain moved, what is left in the mempool replays in order on the
\* new UTXO set.
THEOREM MovedPoolReplays == Spec => PoolReplaysAfterBlock
<1>1. PoolStep => chain' = chain
  BY DEF PoolStep, SubmitTx, SubmitPackage, EvictExpired, ClearMempool, Tick
<1>2. PInv /\ [Next]_vars
        => [chain' # chain => PoolReplays(mempool', utxos', NextHeight(chain'), now)]_vars
  BY <1>1, OtherStepsReplay DEF Replaying
<1> QED
  BY <1>2, PoolInvariant, PTL DEF Spec, PoolReplaysAfterBlock

-----------------------------------------------------------------------------
(* What admission promises *)

\* Everything a replay asks of a transaction but that its inputs are there.
Seasoned(t, h, time) ==
  /\ Tx[t].wellFormed
  /\ LockExpired(t, h, time)
  /\ \A o \in Ins(t) : Mature(o, h)
  /\ Fee(t) >= 0

AllSeasoned(p, h, time) == \A t \in PoolTxs(p) : Seasoned(t, h, time)

\* Inductive: the pool is sound and each of its transactions was valid on some view,
\* so what it lacks for the next block can only be an unconfirmed input.
SeasonedInv == PInv /\ AllSeasoned(mempool, NextHeight(chain), now)

LEMMA ReplaysSeasoned ==
  ASSUME NEW p \in Seq(Entry), NEW u, NEW h, NEW time, PoolReplays(p, u, h, time)
  PROVE  AllSeasoned(p, h, time)
<1> SUFFICES ASSUME NEW i \in 1..Len(p)
             PROVE  Seasoned(p[i].tx, h, time)
  BY PoolEntries DEF AllSeasoned, PoolTxs
<1>1. DOMAIN TxList(p) = 1..Len(p) /\ TxList(p)[i] = p[i].tx
  BY PoolEntries
<1>2. TxValid(p[i].tx, ViewBefore(u, TxList(p), i), h, time)
  BY <1>1 DEF PoolReplays, ListValid
<1> QED
  BY <1>2 DEF TxValid, Seasoned

LEMMA WithinSeasoned ==
  ASSUME NEW p \in Seq(Entry), NEW q \in Seq(Entry), Within(q, p), NEW h, NEW time,
         AllSeasoned(p, h, time)
  PROVE  AllSeasoned(q, h, time)
BY WithinTxs DEF AllSeasoned

\* A package brings transactions that replay after the pool.
LEMMA PackageSeasoned ==
  ASSUME NEW p \in Seq(Entry), NEW ts \in Seq(Txs), NEW u, NEW h, NEW time \in Nat,
         AllSeasoned(p, h, time)
  PROVE  AllSeasoned(AdmitPackage(p, ts, u, h, time), h, time)
<1> DEFINE new == [i \in DOMAIN ts |-> [tx |-> ts[i], at |-> time]]
           n == Len(p)
           m == Len(ts)
<1>1. CASE ~PackageAcceptable(p, ts, u, h, time)
  BY <1>1 DEF AdmitPackage
<1>2. CASE PackageAcceptable(p, ts, u, h, time)
  <2>1. m \in Nat /\ DOMAIN ts = 1..m /\ n \in Nat /\ DOMAIN p = 1..n
    BY PoolEntries
  <2>2. \A i \in 1..m : Seasoned(ts[i], h, time)
    <3>1. \A i \in 1..m : TxValid(ts[i], ViewBefore(PoolView(p, u), ts, i), h, time)
      BY <1>2, <2>1 DEF PackageAcceptable, ListValid
    <3> QED
      BY <3>1 DEF TxValid, Seasoned
  <2>3. new \in Seq(Entry) /\ Len(new) = m /\ \A i \in 1..m : new[i].tx = ts[i]
    <3>1. \A i \in 1..m : [tx |-> ts[i], at |-> time] \in Entry
      BY <2>1 DEF Entry
    <3>2. new = [i \in 1..m |-> [tx |-> ts[i], at |-> time]]
      BY <2>1
    <3>3. new \in Seq(Entry) /\ Len(new) = m
      BY <2>1, <3>1, <3>2, IsASeq, LenProperties
    <3> QED
      BY <3>2, <3>3
  <2>4. AdmitPackage(p, ts, u, h, time) = p \o new
    BY <1>2 DEF AdmitPackage
  <2> HIDE DEF new
  <2>5. /\ p \o new \in Seq(Entry) /\ Len(p \o new) = n + m
        /\ \A i \in 1..(n + m) : (p \o new)[i] = IF i <= n THEN p[i] ELSE new[i - n]
    <3>1. p \o new \in Seq(Entry) /\ Len(p \o new) = Len(p) + Len(new)
      BY <2>3, ConcatProperties, ZenonT(30)
    <3>2. \A i \in 1..(n + m) : (p \o new)[i] = IF i <= n THEN p[i] ELSE new[i - n]
      BY <2>3, ConcatProperties
    <3> QED
      BY <2>3, <3>1, <3>2
  <2>6. ASSUME NEW i \in 1..(n + m)
        PROVE  Seasoned((p \o new)[i].tx, h, time)
    <3>1. CASE i <= n
      <4>1. i \in 1..n /\ p[i].tx \in PoolTxs(p)
        BY <2>1, <3>1 DEF PoolTxs
      <4> QED
        BY <2>5, <3>1, <4>1 DEF AllSeasoned
    <3>2. CASE ~(i <= n)
      <4>1. i - n \in 1..m
        BY <2>1, <3>2
      <4> QED
        BY <2>2, <2>3, <2>5, <3>2, <4>1
    <3> QED
      BY <3>1, <3>2
  <2>7. DOMAIN (p \o new) = 1..(n + m)
    BY <2>5
  <2> QED
    BY <2>4, <2>6, <2>7 DEF AllSeasoned, PoolTxs
<1> QED
  BY <1>1, <1>2

\* Lock times only expire.
LEMMA SeasonedLater ==
  ASSUME NEW p \in Seq(Entry), NEW h, NEW time \in Nat, NEW later \in Nat, time <= later,
         AllSeasoned(p, h, time)
  PROVE  AllSeasoned(p, h, later)
<1>1. ASSUME NEW t \in PoolTxs(p)
      PROVE  Seasoned(t, h, later)
  <2>1. Seasoned(t, h, time) /\ t \in Txs
    BY PoolEntries DEF AllSeasoned
  <2>2. Tx[t].lockTime \in Nat
    BY <2>1, TxTypes
  <2> QED
    BY <2>1, <2>2 DEF Seasoned, LockExpired
<1> QED
  BY <1>1 DEF AllSeasoned

LEMMA StepSeasoned ==
  ASSUME SeasonedInv, [Next]_vars
  PROVE  SeasonedInv'
<1>0. PInv /\ AllSeasoned(mempool, NextHeight(chain), now)
  BY DEF SeasonedInv
<1>1. PInv' /\ mempool' \in Seq(Entry) /\ mempool \in Seq(Entry) /\ now \in Nat /\ utxos = UtxosOf(chain)
  BY <1>0, StepPool, ChainAssumption DEF PInv, PoolOf, IInv, Serves
<1> SUFFICES AllSeasoned(mempool', NextHeight(chain'), now')
  BY <1>1 DEF SeasonedInv, AllSeasoned, PoolTxs, Seasoned, LockExpired, NextHeight, Tip
<1>2. CASE Replaying(chain', utxos', mempool') /\ now' = now
  BY <1>1, <1>2, ReplaysSeasoned DEF Replaying
<1>3. CASE PoolStep
  <2> DEFINE h == NextHeight(chain)
  <2>1. AllSeasoned(mempool, h, now) /\ NextHeight(chain') = h
    BY <1>0, <1>3 DEF PoolStep, SubmitTx, SubmitPackage, EvictExpired, ClearMempool, Tick
  <2>2. ASSUME NEW t \in Submitted, SubmitTx(t)
        PROVE  AllSeasoned(mempool', h, now')
    <3>1. mempool' = Admit(mempool, t, utxos, h, now) /\ now' = now
      BY <2>2 DEF SubmitTx
    <3> HIDE DEF h
    <3>2. Within(mempool', mempool) \/ PoolReplays(mempool', utxos, h, now)
      BY <1>1, <3>1, AdmitKeeps, ChainAssumption
    <3> QED
      BY <1>1, <2>1, <3>1, <3>2, WithinSeasoned, ReplaysSeasoned
  <2>3. ASSUME NEW ts \in Packages, SubmitPackage(ts)
        PROVE  AllSeasoned(mempool', h, now')
    <3>1. mempool' = AdmitPackage(mempool, ts, utxos, h, now) /\ now' = now
      BY <2>3 DEF SubmitPackage
    <3> HIDE DEF h
    <3>2. ts \in Seq(Txs)
      BY ChainAssumption
    <3> QED
      BY <1>1, <2>1, <3>1, <3>2, PackageSeasoned
  <2>4. CASE EvictExpired
    <3>1. mempool' = Expire(mempool, now) /\ now' = now
      BY <2>4 DEF EvictExpired
    <3> HIDE DEF h
    <3> QED
      BY <1>1, <2>1, <3>1, ExpireKeeps, WithinSeasoned
  <2>5. CASE ClearMempool
    <3>1. mempool' = <<>>
      BY <2>5 DEF ClearMempool
    <3> QED
      BY <3>1 DEF AllSeasoned, PoolTxs
  <2>6. CASE Tick
    <3>1. mempool' = mempool /\ now' \in Nat /\ now <= now'
      BY <1>1, <2>6 DEF Tick
    <3> HIDE DEF h
    <3> QED
      BY <1>1, <2>1, <3>1, SeasonedLater
  <2>7. CASE UNCHANGED <<chain, utxos, mempool, now>>
    BY <2>1, <2>7
  <2> HIDE DEF h
  <2> QED
    BY <1>3, <2>1, <2>2, <2>3, <2>4, <2>5, <2>6, <2>7 DEF PoolStep
<1> QED
  BY <1>0, <1>2, <1>3, OtherStepsReplay

LEMMA SeasonedInvariant == Spec => []SeasonedInv
<1>1. Init => SeasonedInv
  BY InitPool DEF Init, SeasonedInv, AllSeasoned, PoolTxs
<1>2. SeasonedInv /\ [Next]_vars => SeasonedInv'
  BY StepSeasoned
<1> QED
  BY <1>1, <1>2, PTL DEF Spec

\* The newcomer of a step of single admission stands last, behind what was left of
\* the room once the transactions it displaced were gone.
LEMMA NewcomerEnters ==
  ASSUME NEW p \in Seq(Entry), NEW t, NEW u, NEW h, NEW time,
         t \notin PoolTxs(p), t \in PoolTxs(Admit(p, t, u, h, time))
  PROVE  LET room == MakeRoom(Expire(p, time), t, u, h, time)
             old == Conflicts(room, t)
         IN  /\ room \in Seq(Entry) /\ Within(room, p) /\ Len(room) < MaxPoolTxs
             /\ Admit(p, t, u, h, time) = Append(Without(room, old), [tx |-> t, at |-> time])
             /\ old = {} \/ MayReplace(t, old, u, h, time)
<1> DEFINE room == MakeRoom(Expire(p, time), t, u, h, time)
           old == Conflicts(room, t)
           q == Admit(p, t, u, h, time)
<1>1. room \in Seq(Entry) /\ Within(room, p) /\ Len(room) < MaxPoolTxs
  BY ExpireKeeps, RoomKeeps, WithinTransitive
<1>2. \/ q \in {room, Without(room, old)}
      \/ /\ q = Append(Without(room, old), [tx |-> t, at |-> time])
         /\ old = {} \/ MayReplace(t, old, u, h, time)
  BY AdmitIs
<1> HIDE DEF room, q
<1>3. PoolTxs(room) \subseteq PoolTxs(p) /\ PoolTxs(Without(room, old)) \subseteq PoolTxs(room)
  BY <1>1, WithinTxs, WithoutKeeps
<1>4. q \notin {room, Without(room, old)}
  BY <1>3 DEF q
<1> QED
  BY <1>1, <1>2, <1>4 DEF room, q

LEMMA PoolTxsFinite ==
  ASSUME NEW p \in Seq(Entry)
  PROVE  IsFiniteSet(PoolTxs(p)) /\ PoolTxs(p) \subseteq Txs
<1> DEFINE F == [i \in 1..Len(p) |-> p[i].tx]
<1>1. PoolTxs(p) = {F[i] : i \in 1..Len(p)} /\ Len(p) \in Nat
  BY PoolEntries DEF PoolTxs
<1>2. IsFiniteSet(1..Len(p))
  BY <1>1, UpTo
<1> HIDE DEF F
<1>3. IsFiniteSet({F[i] : i \in 1..Len(p)})
  BY <1>2, FiniteImage
<1> QED
  BY <1>1, <1>3, PoolEntries

\* The price of relaying grows with the size.
LEMMA FeeForGrows ==
  ASSUME NEW a \in Nat, NEW b \in Nat, a <= b, NEW rate \in Nat
  PROVE  /\ FeeFor(a, rate) <= FeeFor(b, rate)
         /\ FeeFor(a, rate) \in Nat /\ FeeFor(b, rate) \in Nat
<1> DEFINE x == a * rate
           y == b * rate
<1>1. x \in Nat /\ y \in Nat
  OBVIOUS
<1>2. x <= y
  <2>1. b = a + (b - a) /\ b - a \in Nat
    OBVIOUS
  <2>2. (a + (b - a)) * rate = a * rate + (b - a) * rate
    OBVIOUS
  <2>3. (b - a) * rate \in Nat
    BY <2>1
  <2> QED
    BY <2>1, <2>2, <2>3
<1> HIDE DEF x, y
<1>3. (x + 999) \div 1000 <= (y + 999) \div 1000 /\ (x + 999) \div 1000 \in Nat /\ (y + 999) \div 1000 \in Nat
  BY <1>1, <1>2
<1> QED
  BY <1>3 DEF FeeFor, x, y

\* Of a seasoned pool, transactions whose inputs are all confirmed count with their
\* whole fee.
LEMMA ConfirmedPay ==
  ASSUME NEW old, IsFiniteSet(old), old \subseteq Txs, NEW u, NEW h, NEW time,
         \A s \in old : Seasoned(s, h, time)
  PROVE  LET paid == {s \in old : Ins(s) \subseteq u}
         IN  /\ FeesOf(paid) \in Int /\ ConfirmedFees(old, u, h, time) \in Int
             /\ SizeOf(paid) \in Nat /\ SizeOf(old) \in Nat
             /\ FeesOf(paid) <= ConfirmedFees(old, u, h, time)
             /\ SizeOf(paid) <= SizeOf(old)
<1> DEFINE paid == {s \in old : Ins(s) \subseteq u}
           f == [t \in old |-> IF TxValid(t, u, h, time) THEN Fee(t) ELSE 0]
           g == [t \in paid |-> Fee(t)]
           v == [t \in old |-> Tx[t].vsize]
           w == [t \in paid |-> Tx[t].vsize]
<1>1. \A s \in old : f[s] \in Nat
  <2>1. \A s \in old : Fee(s) \in Int /\ Fee(s) >= 0
    BY FeeInt DEF Seasoned
  <2> QED
    BY <2>1
<1>2. \A s \in paid : s \in old /\ g[s] = f[s]
  <2>1. \A s \in paid : TxValid(s, u, h, time)
    BY DEF TxValid, Seasoned
  <2> QED
    BY <2>1
<1>3. \A s \in old : v[s] \in Nat
  BY TxTypes
<1>4. \A s \in paid : w[s] = v[s]
  OBVIOUS
<1>5. paid \subseteq old /\ IsFiniteSet(paid)
  BY FS_Subset
<1>6. /\ FeesOf(paid) = SumFunctionOnSet(g, paid) /\ SizeOf(paid) = SumFunctionOnSet(w, paid)
      /\ ConfirmedFees(old, u, h, time) = SumFunctionOnSet(f, old)
      /\ SizeOf(old) = SumFunctionOnSet(v, old)
  BY DEF FeesOf, SizeOf, ConfirmedFees
<1> HIDE DEF f, g, v, w, paid
<1>7. SumFunctionOnSet(f, paid) \in Nat /\ SumFunctionOnSet(f, paid) <= SumFunctionOnSet(f, old)
  BY <1>1, <1>5, SumSubset
<1>8. SumFunctionOnSet(v, paid) \in Nat /\ SumFunctionOnSet(v, paid) <= SumFunctionOnSet(v, old)
  BY <1>3, <1>5, SumSubset
<1>9. SumFunctionOnSet(f, old) \in Nat /\ SumFunctionOnSet(v, old) \in Nat
  BY <1>1, <1>3, SumNat
<1>10. SumFunctionOnSet(g, paid) = SumFunctionOnSet(f, paid)
  <2>1. \A s \in paid : g[s] \in Int /\ g[s] = f[s]
    BY <1>1, <1>2
  <2> QED
    BY <1>5, <2>1, SumEqual
<1>11. SumFunctionOnSet(w, paid) = SumFunctionOnSet(v, paid)
  <2>1. \A s \in paid : w[s] \in Int /\ w[s] = v[s]
    BY <1>3, <1>4, <1>5
  <2> QED
    BY <1>5, <2>1, SumEqual
<1> QED
  BY <1>6, <1>7, <1>8, <1>9, <1>10, <1>11 DEF paid

\* Single admission leaves at most MaxPoolTxs transactions, and a replacement of
\* transactions with confirmed inputs adds at least the relay cost of what it
\* displaced to the fees of the pool (chain.py:942-1000).
THEOREM AdmissionKeepsItsLimits == Spec => AdmissionSound
<1>1. ASSUME SeasonedInv, [Next]_vars, NEW t \in Newcomers, SubmitTx(t)
      PROVE  /\ Len(mempool') <= MaxPoolTxs
             /\ LET old == {s \in Displaced(t) : Ins(s) \subseteq utxos}
                IN  old # {} => Fee(t) >= FeesOf(old) + FeeFor(SizeOf(old), IncrementalRelayFee)
  <2> DEFINE h == NextHeight(chain)
             room == MakeRoom(Expire(mempool, now), t, utxos, h, now)
             old == Conflicts(room, t)
             rest == Without(room, old)
             paid == {s \in old : Ins(s) \subseteq utxos}
  <2>1. /\ mempool \in Seq(Entry) /\ mempool' \in Seq(Entry)
        /\ AllSeasoned(mempool, h, now)
    BY <1>1, StepPool DEF SeasonedInv, PInv, PoolOf
  <2>2. /\ t \in Txs /\ t \notin PoolTxs(mempool)
        /\ mempool' = Admit(mempool, t, utxos, h, now) /\ t \in PoolTxs(mempool')
    BY <1>1, <2>1, PoolEntries DEF Newcomers, SubmitTx
  <2>3. Displaced(t) = old
    BY DEF Displaced
  <2>4. /\ room \in Seq(Entry) /\ Within(room, mempool) /\ Len(room) < MaxPoolTxs
        /\ mempool' = Append(rest, [tx |-> t, at |-> now])
        /\ old = {} \/ MayReplace(t, old, utxos, h, now)
    BY <2>1, <2>2, NewcomerEnters
  <2> HIDE DEF room, h
  <2>5. Len(mempool') <= MaxPoolTxs
    <3>1. rest \in Seq(Entry) /\ Within(rest, room)
      BY <2>4, WithoutKeeps
    <3>2. Len(rest) <= Len(room) /\ Len(rest) \in Nat /\ Len(room) \in Nat
      BY <2>4, <3>1, WithinShorter
    <3> HIDE DEF rest
    <3>3. Len(mempool') = Len(rest) + 1
      BY <2>4, <3>1
    <3> QED
      BY <2>4, <3>2, <3>3, PolicyAssumption
  <2>6. IsFiniteSet(old) /\ old \subseteq Txs /\ \A s \in old : Seasoned(s, h, now)
    <3>1. old \subseteq PoolTxs(room)
      BY DEF Conflicts
    <3>2. AllSeasoned(room, h, now) /\ IsFiniteSet(PoolTxs(room)) /\ PoolTxs(room) \subseteq Txs
      BY <2>1, <2>4, WithinSeasoned, PoolTxsFinite
    <3> HIDE DEF old
    <3> QED
      BY <3>1, <3>2, FS_Subset DEF AllSeasoned
  <2> HIDE DEF old
  <2>7. ASSUME paid # {}
        PROVE  Fee(t) >= FeesOf(paid) + FeeFor(SizeOf(paid), IncrementalRelayFee)
    <3>1. Fee(t) >= ConfirmedFees(old, utxos, h, now) + FeeFor(SizeOf(old), IncrementalRelayFee)
      BY <2>4, <2>7 DEF MayReplace
    <3>2. /\ FeesOf(paid) \in Int /\ ConfirmedFees(old, utxos, h, now) \in Int
          /\ SizeOf(paid) \in Nat /\ SizeOf(old) \in Nat
          /\ FeesOf(paid) <= ConfirmedFees(old, utxos, h, now)
          /\ SizeOf(paid) <= SizeOf(old)
      BY <2>6, ConfirmedPay
    <3> HIDE DEF paid
    <3>3. /\ FeeFor(SizeOf(paid), IncrementalRelayFee) <= FeeFor(SizeOf(old), IncrementalRelayFee)
          /\ FeeFor(SizeOf(paid), IncrementalRelayFee) \in Nat
          /\ FeeFor(SizeOf(old), IncrementalRelayFee) \in Nat
      BY <3>2, FeeForGrows, PolicyAssumption
    <3>4. Fee(t) \in Int
      BY <2>2, FeeInt
    <3> QED
      BY <3>1, <3>2, <3>3, <3>4
  <2> QED
    BY <2>3, <2>5, <2>7
<1>2. SeasonedInv /\ [Next]_vars
        => [\A t \in Newcomers : chain' = chain /\ SubmitTx(t) => Len(mempool') <= MaxPoolTxs]_vars
  BY <1>1
<1>3. SeasonedInv /\ [Next]_vars
        => [\A t \in Newcomers :
              LET old == {s \in Displaced(t) : Ins(s) \subseteq utxos}
              IN chain' = chain /\ SubmitTx(t) /\ old # {}
                   => Fee(t) >= FeesOf(old) + FeeFor(SizeOf(old), IncrementalRelayFee)]_vars
  BY <1>1
<1> QED
  BY <1>2, <1>3, SeasonedInvariant, PTL
     DEF Spec, AdmissionSound, AdmissionRespectsCap, ReplacementPaysForRelay

-----------------------------------------------------------------------------
(* Fork choice *)

\* Work grows along a chain, so no block of it has more than its tip.
LEMMA WorkBelowTip ==
  ASSUME NEW c, NEW u, NEW t, Serves(c, u, t), NEW i \in 1..Len(c)
  PROVE  Blk[c[i]].chainWork <= Blk[Tip(c)].chainWork
<1> DEFINE N == Len(c) - 1
           W(k) == Blk[c[k]].chainWork
           P == {n \in 0..N : W(Len(c) - n) <= W(Len(c))}
<1>1. /\ c \in Seq(Blocks) /\ ValidBranch(c, t) /\ Len(c) \in Nat \ {0} /\ N \in Nat
      /\ \A k \in 1..Len(c) : c[k] \in Blocks /\ W(k) \in Nat
  <2>1. c \in Seq(Blocks) /\ ValidBranch(c, t) /\ Len(c) \in Nat \ {0} /\ N \in Nat
    BY EmptySeq DEF Serves
  <2>2. \A k \in 1..Len(c) : c[k] \in Blocks
    BY <2>1
  <2> QED
    BY <2>1, <2>2, BlockTypes
<1>2. \A k \in 2..Len(c) : W(k - 1) < W(k)
  <2> SUFFICES ASSUME NEW k \in 2..Len(c)
               PROVE  W(k - 1) < W(k)
    OBVIOUS
  <2>1. k \in 1..Len(c) /\ k - 1 \in 1..Len(c) /\ k # 1
    BY <1>1
  <2>2. BlockValid(c[k], c[k - 1], UtxosOf(SubSeq(c, 1, k - 1)), t)
    BY <1>1 DEF ValidBranch
  <2>3. c[k] # Genesis
    <3>1. Blk[c[k]].height = k - 1
      BY <1>1, <2>1, HeightIsPosition
    <3> QED
      BY <2>1, <3>1, BranchAssumption
  <2>4. Blk[c[k]].prev = c[k - 1]
    BY <2>2 DEF BlockValid
  <2>5. Blk[c[k]].chainWork > Blk[Blk[c[k]].prev].chainWork
    BY <1>1, <2>1, <2>3, BranchAssumption
  <2> QED
    BY <1>1, <2>1, <2>4, <2>5
<1>3. W(Len(c)) = Blk[Tip(c)].chainWork
  BY DEF Tip
<1> HIDE DEF W
<1>4. 0 \in P
  BY <1>1
<1>5. \A n \in 1..N : n - 1 \in P => n \in P
  <2> SUFFICES ASSUME NEW n \in 1..N, W(Len(c) - (n - 1)) <= W(Len(c))
               PROVE  W(Len(c) - n) <= W(Len(c))
    BY <1>1
  <2>1. Len(c) - (n - 1) \in 2..Len(c) /\ (Len(c) - (n - 1)) - 1 = Len(c) - n /\ Len(c) - n \in 1..Len(c)
        /\ Len(c) \in 1..Len(c) /\ Len(c) - (n - 1) \in 1..Len(c)
    BY <1>1
  <2>2. W(Len(c) - n) < W(Len(c) - (n - 1))
    BY <1>2, <2>1
  <2> QED
    BY <1>1, <2>1, <2>2, SMTT(30)
<1>6. \A n \in 0..N : n \in P
  <2> HIDE DEF P
  <2> QED
    BY <1>1, <1>4, <1>5, Upward
<1>7. Len(c) - i \in 0..N /\ Len(c) - (Len(c) - i) = i
  BY <1>1
<1>8. W(i) <= W(Len(c))
  BY <1>6, <1>7
<1> QED
  BY <1>3, <1>8 DEF W

\* After _maybe_reorg no stored branch is complete, valid and heavier: a block
\* that left the active chain has less work than the new tip, and any other was
\* a candidate when the heaviest was taken.
LEMMA ReorganisedIsHeaviest ==
  ASSUME now \in Nat, NEW c, NEW u, Serves(c, u, now),
         NEW o \in Seq(Blocks), NoDuplicates(o), NEW p,
         NEW r \in Reorganised(c, u, o, p)
  PROVE  HeavierTips(r.chain, r.orphans) = {}
<1>1. CASE HeavierTips(c, o) = {}
  BY <1>1 DEF Reorganised
<1>2. CASE HeavierTips(c, o) # {}
  <2>1. PICK b \in Best(HeavierTips(c, o), o) : r = Switched(Blk[b].branch, c, o, p)
    BY <1>2 DEF Reorganised
  <2> DEFINE new == Blk[b].branch
             left == Off(c, BlocksIn(new) \cup BlocksIn(o))
             both == o \o left
  <2>2. /\ b \in HeavierTips(c, o)
        /\ \A d \in HeavierTips(c, o) : ~(Blk[d].chainWork > Blk[b].chainWork)
    <3>1. \A d \in HeavierTips(c, o) : d \in Blocks
      BY DEF HeavierTips, BlocksIn
    <3>2. \A d \in HeavierTips(c, o) : Blk[d].chainWork \in Nat
      BY <3>1, BlockTypes
    <3> QED
      BY <2>1, <3>2 DEF Best
  <2>3. r.chain = new /\ r.orphans = OrphansAfter(c, new, o)
    BY <2>1 DEF Switched
  <2>4. /\ b \in Blocks /\ BlocksIn(new) \subseteq BlocksIn(c) \cup BlocksIn(o)
        /\ Blk[b].chainWork > Blk[Tip(c)].chainWork
        /\ Tip(new) = b
    BY <2>2, AdoptServes DEF HeavierTips
  <2>5. c \in Seq(Blocks) /\ Tip(c) \in Blocks
    BY EmptySeq DEF Serves, Tip
  <2> HIDE DEF new
  <2>6. left \in Seq(Blocks) /\ BlocksIn(left) \subseteq BlocksIn(c)
    BY <2>5, OffEntries
  <2>7. OrphansAfter(c, new, o) = Off(both, BlocksIn(new))
    BY OrphansAre
  <2> HIDE DEF left
  <2>8. both \in Seq(Blocks) /\ BlocksIn(both) \subseteq BlocksIn(o) \cup BlocksIn(c)
    <3>1. /\ both \in Seq(Blocks) /\ Len(both) = Len(o) + Len(left) /\ Len(o) \in Nat /\ Len(left) \in Nat
          /\ \A i \in 1..(Len(o) + Len(left)) : both[i] = IF i <= Len(o) THEN o[i] ELSE left[i - Len(o)]
      BY <2>6, ConcatProperties
    <3> HIDE DEF both
    <3>2. DOMAIN both = 1..(Len(o) + Len(left)) /\ DOMAIN o = 1..Len(o) /\ DOMAIN left = 1..Len(left)
      BY <2>6, <3>1
    <3>3. ASSUME NEW i \in 1..(Len(o) + Len(left))
          PROVE  both[i] \in BlocksIn(o) \cup BlocksIn(c)
      <4>1. CASE i <= Len(o)
        <5>1. i \in 1..Len(o)
          BY <3>1, <4>1
        <5> QED
          BY <3>1, <3>2, <4>1, <5>1 DEF BlocksIn
      <4>2. CASE ~(i <= Len(o))
        <5>1. i - Len(o) \in 1..Len(left)
          BY <3>1, <4>2
        <5> QED
          BY <2>6, <3>1, <3>2, <4>2, <5>1 DEF BlocksIn
      <4> QED
        BY <4>1, <4>2
    <3> QED
      BY <3>1, <3>2, <3>3 DEF BlocksIn
  <2>9. BlocksIn(r.orphans) \subseteq BlocksIn(o) \cup BlocksIn(c)
    <3> HIDE DEF both
    <3>1. BlocksIn(Off(both, BlocksIn(new))) \subseteq BlocksIn(both)
      BY <2>8, OffEntries
    <3> QED
      BY <2>3, <2>7, <2>8, <3>1
  <2>10. ASSUME NEW d \in HeavierTips(r.chain, r.orphans)
         PROVE  FALSE
    <3>1. /\ d \in BlocksIn(r.orphans)
          /\ BlocksIn(Blk[d].branch) \subseteq BlocksIn(new) \cup BlocksIn(r.orphans)
          /\ Blk[d].chainWork > Blk[b].chainWork
          /\ <<d, now>> \in ValidAt
      BY <2>3, <2>4 DEF HeavierTips
    <3>2. BlocksIn(Blk[d].branch) \subseteq BlocksIn(c) \cup BlocksIn(o)
      BY <2>4, <2>9, <3>1
    <3>3. d \in Blocks
      BY <3>1 DEF ValidAt
    <3>4. Blk[d].chainWork \in Nat /\ Blk[b].chainWork \in Nat /\ Blk[Tip(c)].chainWork \in Nat
      BY <2>4, <2>5, <3>3, BlockTypes
    <3>5. Blk[d].chainWork > Blk[Tip(c)].chainWork
      BY <2>4, <3>1, <3>4
    <3>6. CASE d \in BlocksIn(o)
      <4>1. d \in HeavierTips(c, o)
        BY <3>1, <3>2, <3>5, <3>6 DEF HeavierTips
      <4> QED
        BY <2>2, <3>1, <4>1
    <3>7. CASE d \in BlocksIn(c)
      <4>1. PICK k \in 1..Len(c) : d = c[k]
        BY <2>5, <3>7 DEF BlocksIn
      <4>2. Blk[d].chainWork <= Blk[Tip(c)].chainWork
        BY <4>1, WorkBelowTip
      <4> QED
        BY <3>4, <3>5, <4>2
    <3> QED
      BY <2>9, <3>1, <3>6, <3>7
  <2> QED
    BY <2>10
<1> QED
  BY <1>1, <1>2

\* No call of add_block leaves a complete valid branch among the known blocks that
\* is heavier than the active chain.
THEOREM AddBlockTakesHeaviest == Spec => HeaviestAfterAddBlock
<1>1. ASSUME PInv, NEW b \in Blocks, AddBlock(b)
      PROVE  HeavierTips(chain', orphans') = {}
  <2>0. /\ now \in Nat /\ Serves(chain, utxos, now)
        /\ orphans \in Seq(Blocks) /\ NoDuplicates(orphans)
    BY <1>1, ChainAssumption DEF PInv, IInv, PoolOf
  <2>1. CASE ExtendTip(b)
    <3> DEFINE s == Connected(b)
    <3>1. Serves(s.chain, s.utxos, now) /\ PoolOf(s.chain, s.orphans, s.mempool)
      BY <1>1, <2>1, ConnectedPool DEF ExtendTip
    <3>2. PICK r \in Reorganised(s.chain, s.utxos, s.orphans, s.mempool) : BecomeState(r)
      BY <2>1 DEF ExtendTip
    <3> HIDE DEF s
    <3>3. HeavierTips(r.chain, r.orphans) = {}
      BY <2>0, <3>1, <3>2, ReorganisedIsHeaviest DEF PoolOf
    <3> QED
      BY <3>2, <3>3 DEF BecomeState
  <2>2. CASE StoreOffTip(b)
    <3> DEFINE o == Remember(b, orphans)
    <3>1. PICK r \in Reorganised(chain, utxos, o, mempool) : BecomeState(r)
      BY <2>2 DEF StoreOffTip
    <3>2. o \in Seq(Blocks) /\ NoDuplicates(o)
      BY <2>0, RememberDistinct
    <3> HIDE DEF o
    <3>3. HeavierTips(r.chain, r.orphans) = {}
      BY <2>0, <3>1, <3>2, ReorganisedIsHeaviest
    <3> QED
      BY <3>1, <3>3 DEF BecomeState
  <2> QED
    BY <1>1, <2>1, <2>2 DEF AddBlock
<1>2. PInv /\ [Next]_vars
        => [(chain' # chain \/ orphans' # orphans) /\ HeavierTips(chain', orphans') # {}
              => \A b \in Blocks : ~AddBlock(b)]_vars
  BY <1>1
<1> QED
  BY <1>2, PoolInvariant, PTL DEF Spec, HeaviestAfterAddBlock

-----------------------------------------------------------------------------
(* Nodes that relay and ask one another *)

\* Inductive: the chain of every node is one it may serve.
NodesServe ==
  /\ DOMAIN chains = Nodes
  /\ \A n \in Nodes : Serves(chains[n], UtxosOf(chains[n]), 0)

\* A chain that is c, or a sound branch with more work.
BetterOrSame(c, new) ==
  \/ new = c
  \/ \E b \in Sound : new = Blk[b].branch /\ Blk[b].chainWork > Blk[Tip(c)].chainWork

-----------------------------------------------------------------------------
(* What the operators on chains return *)

LEMMA ReorgedIsBetter ==
  ASSUME NEW c, NEW o
  PROVE  BetterOrSame(c, Reorged(c, o).chain)
<1> DEFINE tips == Heavier(c, o)
           best == Best(tips, o)
           first == CHOOSE b \in best : TRUE
<1>1. CASE best = {}
  BY <1>1 DEF Reorged, BetterOrSame
<1>2. CASE best # {}
  <2>1. first \in best
    BY <1>2
  <2>2. first \in tips
    BY <2>1 DEF Best
  <2>3. Reorged(c, o).chain = Blk[first].branch
    BY <1>2 DEF Reorged, SwitchedTo
  <2> QED
    BY <2>2, <2>3 DEF BetterOrSame, Heavier
<1> QED
  BY <1>1, <1>2

\* A sound block on the tip makes its own branch.
LEMMA ExtensionIsBetter ==
  ASSUME NEW c, Serves(c, UtxosOf(c), 0), NEW b \in Sound,
         Blk[b].prev = Tip(c), b \notin BlocksIn(c)
  PROVE  /\ Append(c, b) = Blk[b].branch
         /\ Blk[b].chainWork > Blk[Tip(c)].chainWork
         /\ Tip(Append(c, b)) = b
<1>1. c \in Seq(Blocks) /\ c # <<>> /\ c[1] = Genesis /\ Len(c) \in Nat /\ Len(c) >= 1
  BY EmptySeq DEF Serves, ValidBranch
<1>2. Genesis \in BlocksIn(c)
  BY <1>1 DEF BlocksIn
<1>3. b \in Blocks /\ b # Genesis
  BY <1>2 DEF Sound
<1>4. c = Blk[Tip(c)].branch
  BY DEF Serves
<1> QED
  BY <1>1, <1>3, <1>4, BranchAssumption, AppendProperties DEF Tip

\* add_block of any block.
LEMMA AddedIsBetter ==
  ASSUME NodesServe, NEW n \in Nodes, NEW b
  PROVE  BetterOrSame(chains[n], Added(n, b).chain)
<1> DEFINE c == chains[n]
           o == stored[n]
<1>0. Serves(c, UtxosOf(c), 0)
  BY DEF NodesServe
<1>1. CASE b \in BlocksIn(c)
  BY <1>1 DEF Added, Returned, BetterOrSame
<1>2. CASE b \notin BlocksIn(c) /\ Blk[b].prev = Tip(c) /\ b \in Sound
  <2>1. Added(n, b).chain = Reorged(Append(c, b), o).chain
    BY <1>2 DEF Added, Returned
  <2>2. /\ Append(c, b) = Blk[b].branch
        /\ Blk[b].chainWork > Blk[Tip(c)].chainWork
        /\ Tip(Append(c, b)) = b
    BY <1>0, <1>2, ExtensionIsBetter
  <2>3. BetterOrSame(Append(c, b), Added(n, b).chain)
    BY <2>1, ReorgedIsBetter
  <2>4. CASE Added(n, b).chain = Append(c, b)
    BY <1>2, <2>2, <2>4 DEF BetterOrSame
  <2>5. ASSUME NEW d \in Sound, Added(n, b).chain = Blk[d].branch, Blk[d].chainWork > Blk[b].chainWork
        PROVE  Blk[d].chainWork > Blk[Tip(c)].chainWork
    <3>1. b \in Blocks /\ d \in Blocks /\ Tip(c) \in Blocks
      BY <1>0, <1>2, EmptySeq DEF Sound, Serves, Tip
    <3> QED
      BY <2>2, <2>5, <3>1, BlockTypes
  <2>6. CASE \E d \in Sound : Added(n, b).chain = Blk[d].branch /\ Blk[d].chainWork > Blk[b].chainWork
    BY <2>5, <2>6 DEF BetterOrSame
  <2> QED
    BY <2>2, <2>3, <2>4, <2>6 DEF BetterOrSame
<1>3. CASE b \notin BlocksIn(c) /\ Blk[b].prev = Tip(c) /\ b \notin Sound
  BY <1>3 DEF Added, Returned, BetterOrSame
<1>4. CASE b \notin BlocksIn(c) /\ Blk[b].prev # Tip(c)
  <2>1. Added(n, b).chain = Reorged(c, Capped(o, b, MaxStored)).chain
    BY <1>4 DEF Added, Returned, ReturnedFor
  <2> QED
    BY <2>1, ReorgedIsBetter
<1> QED
  BY <1>1, <1>2, <1>3, <1>4

-----------------------------------------------------------------------------
(* Steps *)

\* Initially every node serves genesis.
LEMMA NetInitially == NetInit => NodesServe
<1> SUFFICES ASSUME NetInit
             PROVE  NodesServe
  OBVIOUS
<1> DEFINE g == <<Genesis>>
<1>1. Genesis \in Blocks /\ Blk[Genesis].branch = g
  BY CatalogueAssumption, BranchAssumption
<1>2. g \in Seq(Blocks) \ {<<>>} /\ Len(g) = 1 /\ g[1] = Genesis
  BY <1>1
<1>3. ValidBranch(g, 0)
  BY <1>2 DEF ValidBranch
<1>4. chains = [n \in Nodes |-> g]
  BY DEF NetInit
<1> HIDE DEF g
<1>5. Serves(g, UtxosOf(g), 0)
  BY <1>1, <1>2, <1>3 DEF Serves, Tip
<1> QED
  BY <1>4, <1>5 DEF NodesServe

\* What a step does to the chains.
ChainsImprove ==
  /\ DOMAIN chains' = Nodes
  /\ \A m \in Nodes : BetterOrSame(chains[m], chains'[m])

\* One node takes what add_block or replace_chain left.
LEMMA OneChanges ==
  ASSUME NodesServe, NEW n \in Nodes, NEW new, BetterOrSame(chains[n], new),
         chains' = [chains EXCEPT ![n] = new]
  PROVE  ChainsImprove
<1>1. DOMAIN chains' = Nodes
  BY DEF NodesServe
<1>2. ASSUME NEW m \in Nodes
      PROVE  BetterOrSame(chains[m], chains'[m])
  <2>1. CASE m = n
    BY <2>1 DEF NodesServe
  <2>2. CASE m # n
    BY <2>2 DEF NodesServe, BetterOrSame
  <2> QED
    BY <2>1, <2>2
<1> QED
  BY <1>1, <1>2 DEF ChainsImprove

LEMMA NoneChanges ==
  ASSUME NodesServe, UNCHANGED chains
  PROVE  ChainsImprove
BY DEF NodesServe, ChainsImprove, BetterOrSame

\* No step of a node, of the network or of a fault worsens a chain.
LEMMA StepImproves ==
  ASSUME NodesServe, [NetNext]_netVars
  PROVE  ChainsImprove
<1>1. ASSUME NEW n \in Nodes, ConnectWaiting(n)
      PROVE  ChainsImprove
  <2>1. PICK b \in Connectable(n) : BlockAdded(n, Added(n, b))
    BY <1>1 DEF ConnectWaiting
  <2>2. chains' = [chains EXCEPT ![n] = Added(n, b).chain]
    BY <2>1 DEF BlockAdded
  <2> QED
    BY <2>2, AddedIsBetter, OneChanges
<1>2. ASSUME NEW n \in Nodes, NEW b \in Blocks, Receive(n, b)
      PROVE  ChainsImprove
  <2>1. chains' = [chains EXCEPT ![n] = Added(n, b).chain]
    BY <1>2 DEF Receive, BlockAdded
  <2> QED
    BY <2>1, AddedIsBetter, OneChanges
<1>3. ASSUME NEW n \in Nodes, FetchBody(n)
      PROVE  ChainsImprove
  <2> DEFINE b == Head(pass[n].wanted)
  <2>1. \/ UNCHANGED chains
        \/ chains' = [chains EXCEPT ![n] = Added(n, b).chain]
    BY <1>3 DEF FetchBody, BlockAdded
  <2> HIDE DEF b
  <2> QED
    BY <2>1, AddedIsBetter, OneChanges, NoneChanges
<1>4. ASSUME NEW n \in Nodes, Replace(n)
      PROVE  ChainsImprove
  <2> DEFINE new == pass[n].pages
  <2>1. CASE OneChain(new) /\ Blk[Tip(new)].chainWork > Work(n)
    <3>1. chains' = [chains EXCEPT ![n] = new]
      BY <1>4, <2>1 DEF Replace
    <3>2. BetterOrSame(chains[n], new)
      BY <2>1 DEF BetterOrSame, OneChain, Work
    <3> QED
      BY <3>1, <3>2, OneChanges
  <2>2. CASE ~(OneChain(new) /\ Blk[Tip(new)].chainWork > Work(n))
    <3>1. UNCHANGED chains
      BY <1>4, <2>2 DEF Replace
    <3> QED
      BY <3>1, NoneChanges
  <2> QED
    BY <2>1, <2>2
<1>5. ASSUME NEW n \in Nodes, StartPass(n) \/ EndPass(n) \/ ReadInfo(n) \/ FetchHeaders(n) \/ FetchPage(n)
      PROVE  ChainsImprove
  <2>1. UNCHANGED chains
    BY <1>5 DEF StartPass, EndPass, ReadInfo, FetchHeaders, FetchPage
  <2> QED
    BY <2>1, NoneChanges
<1>6. ASSUME NEW n \in Nodes, Relay(n) \/ RequestFails(n) \/ RestartNode(n)
      PROVE  ChainsImprove
  <2>1. UNCHANGED chains
    BY <1>6 DEF Relay, RequestFails, RestartNode
  <2> QED
    BY <2>1, NoneChanges
<1>7. ASSUME NEW n \in Nodes, NEW b \in Blocks, Mine(n, b) \/ Lose(n, b)
      PROVE  ChainsImprove
  <2>1. UNCHANGED chains
    BY <1>7 DEF Mine, Lose
  <2> QED
    BY <2>1, NoneChanges
<1>8. CASE UNCHANGED netVars
  <2>1. UNCHANGED chains
    BY <1>8 DEF netVars
  <2> QED
    BY <2>1, NoneChanges
<1> QED
  BY <1>1, <1>2, <1>3, <1>4, <1>5, <1>6, <1>7, <1>8 DEF NetNext, PassStep

\* A better chain is one to serve.
LEMMA StepKeepsServing ==
  ASSUME NodesServe, [NetNext]_netVars
  PROVE  NodesServe'
<1>1. DOMAIN chains' = Nodes
  BY StepImproves DEF ChainsImprove
<1>2. ASSUME NEW n \in Nodes
      PROVE  Serves(chains'[n], UtxosOf(chains'[n]), 0)
  <2>1. CASE chains'[n] = chains[n]
    BY <2>1 DEF NodesServe
  <2>2. ASSUME NEW b \in Sound, chains'[n] = Blk[b].branch
        PROVE  Serves(chains'[n], UtxosOf(chains'[n]), 0)
    BY <2>2, BranchServes DEF Sound
  <2> QED
    BY <2>1, <2>2, StepImproves DEF ChainsImprove, BetterOrSame
<1> QED
  BY <1>1, <1>2 DEF NodesServe

-----------------------------------------------------------------------------
(* Safety and refinement *)

\* However requests, relayed blocks, losses and restarts interleave, every node
\* serves a valid chain (node.py:772-821, 887-911).
THEOREM EveryNodeServes == NetSpec => []NodesServe
<1>1. NetInit => NodesServe
  BY NetInitially
<1>2. NodesServe /\ [NetNext]_netVars => NodesServe'
  BY StepKeepsServing
<1> QED
  BY <1>1, <1>2, PTL DEF NetSpec

\* And each of its steps adopts a valid chain with more work, or none: every node
\* of the network implements BestChain.
THEOREM NodesImplementBestChain == NetSpec => NodesKeepPromise
<1>1. NodesServe /\ [NetNext]_netVars
        => [\A n \in Nodes : chains'[n] = chains[n] \/ Served(n)!Next]_netVars
  <2> SUFFICES ASSUME NodesServe, [NetNext]_netVars, NEW n \in Nodes, chains'[n] # chains[n]
               PROVE  Served(n)!Next
    OBVIOUS
  <2>1. PICK b \in Sound : chains'[n] = Blk[b].branch /\ Blk[b].chainWork > Blk[Tip(chains[n])].chainWork
    BY StepImproves DEF ChainsImprove, BetterOrSame
  <2>2. b \in Blocks /\ ValidBranch(chains'[n], 0)
    BY <2>1 DEF Sound
  <2>3. Served(n)!Adopt(b)
    BY <2>1, <2>2 DEF Served!Adopt, Tip
  <2> QED
    BY <2>2, <2>3 DEF Served!Next
<1> QED
  BY <1>1, EveryNodeServes, PTL DEF NetSpec, NodesKeepPromise
=============================================================================
