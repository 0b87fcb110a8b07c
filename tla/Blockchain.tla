----------------------------- MODULE Blockchain -----------------------------
(***************************************************************************)
(* The Blockchain class of netcoin/chain.py in memory: the active chain,    *)
(* the persistent UTXO cache, the store of off-tip blocks and the mempool.  *)
(* Every public method holds one reentrant lock from start to end           *)
(* (_locked), so one method call is one step.  The clock may advance        *)
(* between two calls and never during one.                                  *)
(***************************************************************************)
EXTENDS Mempool

CONSTANTS
  MaxOrphans,   \* max_orphans in _remember_orphan
  BlockBudget,  \* MAX_BLOCK_WEIGHT for mine_block's selection
  Submitted,    \* transactions submitted to this node one by one
  Packages,     \* transaction lists submitted to add_mempool_package
  MaxTime       \* bound of the model on the clock

ASSUME ChainAssumption ==
  /\ MaxOrphans \in Nat \ {0}
  /\ BlockBudget \in Nat
  /\ Submitted \subseteq Txs
  /\ Packages \subseteq Seq(Txs)
  /\ MaxTime \in Nat

VARIABLES
  chain,    \* self.chain, genesis first
  utxos,    \* keys of self._utxos
  orphans,  \* self.orphan_blocks, in insertion order
  mempool,  \* self.mempool with self.mempool_times
  now       \* int(time.time())

vars == <<chain, utxos, orphans, mempool, now>>

NextHeight(c) == Blk[Tip(c)].height + 1

LedgerTypeOK ==
  /\ chain \in Seq(Blocks) \ {<<>>}
  /\ utxos \subseteq Outpoints
  /\ now \in 0..MaxTime

\* The type invariant of the class; blocks off the tip are stored once.
TypeOK ==
  /\ LedgerTypeOK
  /\ orphans \in Seq(Blocks) /\ NoDuplicates(orphans)
  /\ mempool \in Seq(Entry)

Init ==
  /\ chain = <<Genesis>>
  /\ utxos = UtxosOf(<<Genesis>>)
  /\ orphans = <<>>
  /\ mempool = <<>>
  /\ now = 0

-----------------------------------------------------------------------------
(* Fork choice *)

\* is_valid_chain of the branch that ends in a block, as a table: <<b, t>> is in
\* it when that branch is valid at time t.
ValidAt ==
  {<<p[1], p[2]>> : p \in {q \in Blocks \X (0..MaxTime) : ValidBranch(Blk[q[1]].branch, q[2])}}

\* Faulty variant: a branch is adopted without being validated.
FaultyTipsUnchecked(c, o) ==
  {b \in BlocksIn(o) :
     /\ BlocksIn(Blk[b].branch) \subseteq BlocksIn(c) \cup BlocksIn(o)
     /\ Blk[b].chainWork > Blk[Tip(c)].chainWork}

\* Branches that end in a stored block, are complete back to genesis, carry
\* more work than the active chain and are valid now.
HeavierTips(c, o) ==
  {b \in BlocksIn(o) :
     /\ BlocksIn(Blk[b].branch) \subseteq BlocksIn(c) \cup BlocksIn(o)
     /\ Blk[b].chainWork > Blk[Tip(c)].chainWork
     /\ <<b, now>> \in ValidAt}

\* The blocks of s that are not in bs, in order.
Off(s, bs) == Kept(s, {i \in DOMAIN s : s[i] \notin bs})

\* Stored blocks after a switch from c to new: the blocks that left the active
\* chain are kept (a dict keeps the place of a key it already has), those that
\* joined it are dropped.
OrphansAfter(c, new, o) ==
  Only({Off(all, BlocksIn(new)) : all \in {o \o Off(c, BlocksIn(new) \cup BlocksIn(o))}})

\* The mempool after it: transactions of the blocks that left are submitted
\* again one by one, then what the new chain includes or invalidates is dropped.
LeavingTxs(c, new) ==
  Only({FlattenSeq([i \in DOMAIN left |-> Blk[left[i]].body]) : left \in {Off(c, BlocksIn(new))}})

Readmitted(pool, ts, u, h) ==
  LET entered[n \in 0..Len(ts)] ==
        IF n = 0 THEN pool ELSE Only({Admit(p, ts[n], u, h, now) : p \in {entered[n - 1]}})
  IN entered[Len(ts)]

MempoolAfter(c, new, pool) ==
  LET h == NextHeight(new)
      remaining(u, ts) == Without(Readmitted(pool, ts, u, h), ConfirmedTxs(new))
      purged(u, ts) == Only({Purge(p, u, h, now) : p \in {remaining(u, ts)}})
      after(u) == Only({purged(u, ts) : ts \in {LeavingTxs(c, new)}})
  IN Only({after(u) : u \in {UtxosOf(new)}})

\* What _switch_to leaves, and what _maybe_reorg may leave, from the chain c, its
\* UTXO set u, the stored blocks o and the pool.
Switched(new, c, o, pool) ==
  [chain |-> new, utxos |-> UtxosOf(new),
   orphans |-> OrphansAfter(c, new, o), mempool |-> MempoolAfter(c, new, pool)]

Reorganised(c, u, o, pool) ==
  LET tips == HeavierTips(c, o)
  IN IF tips = {}
     THEN {[chain |-> c, utxos |-> u, orphans |-> o, mempool |-> pool]}
     ELSE {Switched(Blk[b].branch, c, o, pool) : b \in Best(tips, o)}

-----------------------------------------------------------------------------
(* Actions *)

BecomeState(s) ==
  /\ chain' = s.chain
  /\ utxos' = s.utxos
  /\ orphans' = s.orphans
  /\ mempool' = s.mempool
  /\ UNCHANGED now

\* The chain with b connected to its tip, as add_block and mine_block leave it.
Connected(b) ==
  LET u == ApplyBlock(b, utxos)
  IN [chain |-> Append(chain, b), utxos |-> u, orphans |-> orphans,
      mempool |-> Purge(Without(mempool, TxsOf(b)), u, Blk[b].height + 1, now)]

\* Faulty variant: no look at the stored blocks after the tip moved.
FaultyExtendTip(b) ==
  /\ b \notin BlocksIn(chain)
  /\ BlockValid(b, Tip(chain), utxos, now)
  /\ \E s \in {Connected(b)} : BecomeState(s)

\* add_block of a block that extends the tip.
ExtendTip(b) ==
  /\ b \notin BlocksIn(chain)
  /\ BlockValid(b, Tip(chain), utxos, now)
  /\ \E s \in {Connected(b)} :
       \E r \in Reorganised(s.chain, s.utxos, s.orphans, s.mempool) : BecomeState(r)

\* Faulty variant: a block off the tip is dropped.
FaultyRememberNothing(b, o) == o

Remember(b, o) ==
  LET o1 == IF b \in BlocksIn(o) THEN o ELSE Append(o, b)
  IN IF Len(o1) > MaxOrphans THEN SubSeq(o1, Len(o1) - MaxOrphans + 1, Len(o1)) ELSE o1

\* add_block of any other new block: kept as a fork or future candidate.
StoreOffTip(b) ==
  /\ b \notin BlocksIn(chain)
  /\ Blk[b].prev # Tip(chain)
  /\ Blk[b].powOk
  /\ \E o \in {Remember(b, orphans)} :
       \E r \in Reorganised(chain, utxos, o, mempool) : BecomeState(r)

AddBlock(b) == ExtendTip(b) \/ StoreOffTip(b)

\* mine_block: b is the block the template and the nonce search lead to.  Its
\* hash did not exist before, so nobody can have stored it or built on it.
MineBlock(b) ==
  /\ b \notin BlocksIn(chain) \cup BlocksIn(orphans)
  /\ \A d \in BlocksIn(orphans) : Blk[d].prev # b
  /\ Blk[b].time = now
  /\ Blk[b].body = Select(mempool, utxos, NextHeight(chain), now, BlockBudget)
  /\ SumValue(Blk[b].coinbase) = Blk[b].subsidy + BlockFees(b)
  /\ BlockValid(b, Tip(chain), utxos, now)
  /\ \E s \in {Connected(b)} : BecomeState(s)

\* Faulty variant: any valid chain from a peer replaces the active one.
FaultyReplaceChain(b) ==
  /\ <<b, now>> \in ValidAt
  /\ chain' = Blk[b].branch
  /\ utxos' = UtxosOf(chain')
  /\ mempool' = Purge(mempool, utxos', NextHeight(chain'), now)
  /\ UNCHANGED <<orphans, now>>

\* replace_chain with the whole chain that ends in b, downloaded from a peer.
ReplaceChain(b) ==
  LET s == Blk[b].branch
  IN /\ <<b, now>> \in ValidAt
     /\ Blk[b].chainWork > Blk[Tip(chain)].chainWork
     /\ chain' = s
     /\ utxos' = UtxosOf(s)
     /\ mempool' = Purge(mempool, utxos', NextHeight(s), now)
     /\ UNCHANGED <<orphans, now>>

SubmitTx(t) ==
  /\ mempool' = Admit(mempool, t, utxos, NextHeight(chain), now)
  /\ UNCHANGED <<chain, utxos, orphans, now>>

SubmitPackage(ts) ==
  /\ mempool' = AdmitPackage(mempool, ts, utxos, NextHeight(chain), now)
  /\ UNCHANGED <<chain, utxos, orphans, now>>

\* evict_expired_mempool on its own: the mempool listing and the admin
\* endpoint of the node call it.
EvictExpired ==
  /\ mempool' = Expire(mempool, now)
  /\ UNCHANGED <<chain, utxos, orphans, now>>

ClearMempool ==
  /\ mempool' = <<>>
  /\ UNCHANGED <<chain, utxos, orphans, now>>

Tick ==
  /\ now < MaxTime
  /\ now' = now + 1
  /\ UNCHANGED <<chain, utxos, orphans, mempool>>

Next ==
  \/ \E b \in Blocks : ExtendTip(b)
  \/ \E b \in Blocks : StoreOffTip(b)
  \/ \E b \in Blocks : MineBlock(b)
  \/ \E b \in Blocks : ReplaceChain(b)
  \/ \E t \in Submitted : SubmitTx(t)
  \/ \E ts \in Packages : SubmitPackage(ts)
  \/ EvictExpired
  \/ ClearMempool
  \/ Tick

Spec == Init /\ [][Next]_vars

\* Time passes, and every block keeps being offered: the sync loop of the node
\* asks its peers again for what it lacks and add_block takes repeats.
FairSpec ==
  /\ Spec
  /\ WF_vars(Tick)
  /\ \A b \in Blocks : WF_vars(AddBlock(b))

-----------------------------------------------------------------------------
(* Safety *)

\* The incrementally maintained UTXO cache equals a full rescan of the active
\* chain, after any mix of tip extensions, reorganisations and whole-chain
\* replacements (what verify_integrity compares on request).
UtxosExact == utxos = UtxosOf(chain)

\* No outpoint is spent twice by the active chain, within a block or across
\* blocks, although tip extensions are checked against the cache and branches
\* against a replay.
NoDoubleSpend ==
  \A i, j \in DOMAIN chain :
    \A k \in DOMAIN Blk[chain[i]].body, l \in DOMAIN Blk[chain[j]].body :
      Ins(Blk[chain[i]].body[k]) \cap Ins(Blk[chain[j]].body[l]) # {} => i = j /\ k = l

\* The active chain would pass assert_valid_chain from genesis at any later
\* moment: no path into it skips a rule.
ActiveChainValid == ValidBranch(chain, now)

\* Unspent value never exceeds the premine and the subsidies of the active
\* chain: fees are moved, never minted.
Issued(c) ==
  [i \in DOMAIN c |-> IF i = 1 THEN SumValue(Blk[Genesis].coinbase) ELSE Blk[c[i]].subsidy]
SupplyBounded == SumValue(utxos) <= SumFunction(Issued(chain))

\* Two pooled transactions never spend the same outpoint, through single
\* admission, replacement, packages and the return of disconnected blocks.
PoolUnconflicted ==
  \A i, j \in DOMAIN mempool :
    Ins(mempool[i].tx) \cap Ins(mempool[j].tx) # {} => i = j

\* A transaction of the active chain is not in the mempool, whichever way its
\* block became active.
PoolUnconfirmed == PoolTxs(mempool) \cap ConfirmedTxs(chain) = {}

\* A pooled transaction never stands before its unconfirmed parent: every pass
\* over the list (mining, purging, admission) relies on that order, also after
\* packages, replacements, evictions and the return of disconnected blocks.
ParentsFirst ==
  \A i, j \in DOMAIN mempool : Outs(mempool[i].tx) \cap Ins(mempool[j].tx) # {} => i < j

\* What admission, packages, mining and reorganisations rely on together: a pool
\* of known transactions without conflicts, without confirmed ones, parents first.
PoolSound == TypeOK /\ PoolUnconflicted /\ PoolUnconfirmed /\ ParentsFirst

-----------------------------------------------------------------------------
(* Steps *)

\* The tip changes only for strictly more cumulative work, so of two equal
\* branches the first seen stays (_maybe_reorg, replace_chain).
OnlyHeavierWins ==
  [][chain' # chain => Blk[Tip(chain')].chainWork > Blk[Tip(chain)].chainWork]_vars

\* No step of add_block leaves a complete valid branch among the known blocks
\* heavier than the active chain, in whatever order its blocks arrived.
HeaviestAfterAddBlock ==
  [][(chain' # chain \/ orphans' # orphans) /\ HeavierTips(chain', orphans') # {}
       => \A b \in Blocks : ~AddBlock(b)]_vars

\* Whenever the chain moved the mempool replays in order on the new UTXO set,
\* so block building and the next admission can apply it from end to end.
PoolReplaysAfterBlock ==
  [][chain' # chain => PoolReplays(mempool', utxos', NextHeight(chain'), now)]_vars

\* The transactions a step of single admission took in, and the ones it displaced
\* for spending the same outpoint once room was made.
Newcomers == PoolTxs(mempool') \ PoolTxs(mempool)
Displaced(t) ==
  Conflicts(MakeRoom(Expire(mempool, now), t, utxos, NextHeight(chain), now), t)

\* A transaction admitted on its own leaves at most MaxPoolTxs in the pool, even
\* where packages had filled it beyond that.
AdmissionRespectsCap ==
  [][\A t \in Newcomers : chain' = chain /\ SubmitTx(t) => Len(mempool') <= MaxPoolTxs]_vars

\* Replacing transactions whose inputs are all confirmed raises the fees the pool
\* holds by at least the relay cost of what was displaced.
ReplacementPaysForRelay ==
  [][\A t \in Newcomers :
       LET old == {s \in Displaced(t) : Ins(s) \subseteq utxos}
       IN chain' = chain /\ SubmitTx(t) /\ old # {}
            => Fee(t) >= FeesOf(old) + FeeFor(SizeOf(old), IncrementalRelayFee)]_vars

\* Admission keeps to the limits it promises (chain.py:942-1000).
AdmissionSound == AdmissionRespectsCap /\ ReplacementPaysForRelay

\* The promise of BestChain, kept through forks, orphans and reorganisations.
Abstract == INSTANCE BestChain WITH best <- chain, coins <- utxos, clock <- now
ImplementsBestChain == Abstract!Spec

-----------------------------------------------------------------------------
(* What the documentation says and the code does not do *)

\* test_reorg.py: "the transaction from the disconnected block 102 is back in the
\* mempool"; _switch_to: "Return transactions from disconnected blocks to the
\* mempool, then drop anything no longer valid against the new chain."  Stated
\* for a transaction that alone is valid and relayable on the new chain, has no
\* competitor in the pool and finds room there.
DisconnectedReturn ==
  [][\A t \in ConfirmedTxs(chain) \ ConfirmedTxs(chain') :
       LET h == NextHeight(chain')
       IN /\ orphans' # orphans
          /\ TxValid(t, utxos', h, now) /\ Tx[t].standard /\ PaysMinimum(t)
          /\ Conflicts(mempool, t) = {}
          /\ Len(mempool) + Cardinality(ConfirmedTxs(chain)) < MaxPoolTxs
          => t \in PoolTxs(mempool')]_vars

\* emission-and-mempool-policy.md: "replacement fee, fee delta, and fee rate must
\* improve on conflicts".
ReplacementRaisesFees ==
  [][\A t \in Newcomers :
       chain' = chain /\ SubmitTx(t) => Fee(t) >= FeesOf(Displaced(t))]_vars

-----------------------------------------------------------------------------
(* Progress *)

\* The node ends up on a branch of maximal work among those that are valid once
\* their time has come, whatever it saw first and in whatever order.
Converges ==
  <>[](\A b \in Blocks : <<b, MaxTime>> \in ValidAt
         => Blk[b].chainWork <= Blk[Tip(chain)].chainWork)
=============================================================================
