----------------------------- MODULE ChainStore -----------------------------
(***************************************************************************)
(* What the Blockchain class keeps in SQLite (netcoin/storage.py) and what   *)
(* a restart makes of it.  Memory changes first, then the tables follow in  *)
(* commits of their own; the process may die, and a write may fail, between *)
(* any two of them.  One lock is held by a call from its first change to    *)
(* its last commit, so calls do not interleave and pc says which commit of  *)
(* the call under way comes next.                                           *)
(*                                                                         *)
(* The mempool table has its own commits before those of the chain; dying   *)
(* or failing at one of them is dying or failing at the chain's first one.  *)
(***************************************************************************)
EXTENDS Ledger, Lists

CONSTANTS
  Now,          \* the local clock, which matters to Blockchain only
  Backup,       \* last block of the JSON copy of the chain, or Genesis without one
  KeepDepths,   \* arguments prune is called with
  MaxHeight,    \* bound of the model on positions
  MaxCrashes,   \* bounds of the model on crashes
  MaxFailures,  \* and on failing writes
  None          \* no row

\* The branches that pass assert_valid_chain, by their last blocks.
ValidTips == {b \in Blocks : ValidBranch(Blk[b].branch, Now)}

ASSUME StoreAssumption ==
  /\ Now \in Nat
  /\ MaxHeight \in Nat
  /\ \A b \in Blocks : Blk[b].height <= MaxHeight
  /\ KeepDepths \subseteq Nat \ {0}
  /\ MaxCrashes \in Nat /\ MaxFailures \in Nat
  /\ None \notin Blocks /\ \A u \in SUBSET Outpoints : u # None
  /\ {Genesis, Backup} \subseteq ValidTips

VARIABLES
  pc,           \* "idle", "down", or the next commit of the call under way
  chain,        \* self.chain
  utxos,        \* keys of self._utxos
  pruned,       \* self.pruned
  below,        \* below_height of the prune under way
  bodies,         \* hashes in table blocks whose data is not NULL
  active,        \* table active_chain: position to hash
  snapshot,     \* table utxo_snapshot
  prunedBelow,  \* meta pruned_below_height
  acked,        \* the tip when a call last committed all it had to
  torn,         \* the tables no longer hold the chain of a committed call
  crashes, failures

memory == <<chain, utxos, pruned>>
tables == <<bodies, active, snapshot, prunedBelow>>
faults == <<crashes, failures>>
vars == <<pc, memory, below, tables, acked, torn, faults>>

Commits == {"append", "save", "savePruned", "snapshot", "bodies", "meta"}

Height == Blk[Tip(chain)].height

\* Cumulative work of a list of blocks, which need not reach back to genesis.
BlockWork(b) == Blk[b].chainWork - (IF b = Genesis THEN 0 ELSE Blk[Blk[b].prev].chainWork)
Work(s) == SumFunctionOnSet([i \in DOMAIN s |-> BlockWork(s[i])], DOMAIN s)

\* load_chain: the rows by position, without those whose body is gone.
Retained ==
  LET rows == [i \in 1..(MaxHeight + 1) |-> active[i - 1]]
  IN Kept(rows, {i \in DOMAIN rows : rows[i] \in bodies})

\* The table active_chain after it was rewritten for the blocks s.
OrderOf(s) == [p \in 0..MaxHeight |-> IF p < Len(s) THEN s[p + 1] ELSE None]

TypeOK ==
  /\ pc \in Commits \cup {"idle", "down"}
  /\ chain \in Seq(Blocks) /\ (chain = <<>> <=> pc = "down")
  /\ utxos \subseteq Outpoints
  /\ pruned \in BOOLEAN /\ torn \in BOOLEAN
  /\ below \in Nat /\ prunedBelow \in Nat
  /\ bodies \subseteq Blocks
  /\ active \in [0..MaxHeight -> Blocks \cup {None}]
  /\ snapshot = None \/ snapshot \subseteq Outpoints
  /\ acked \in Blocks
  /\ crashes \in 0..MaxCrashes /\ failures \in 0..MaxFailures

\* After the first start, which creates and saves genesis.
Init ==
  /\ pc = "idle"
  /\ chain = <<Genesis>> /\ utxos = UtxosOf(<<Genesis>>) /\ pruned = FALSE
  /\ below = 0
  /\ bodies = {Genesis} /\ active = OrderOf(<<Genesis>>)
  /\ snapshot = None /\ prunedBelow = 0
  /\ acked = Genesis /\ torn = FALSE
  /\ crashes = 0 /\ failures = 0

-----------------------------------------------------------------------------
(* Calls and their commits *)

\* add_block or mine_block of a block on the tip, in memory.
Connect(b) ==
  /\ pc = "idle"
  /\ b \notin BlocksIn(chain)
  /\ BlockValid(b, Tip(chain), utxos, Now)
  /\ chain' = Append(chain, b)
  /\ utxos' = ApplyBlock(b, utxos)
  /\ pc' = "append"
  /\ UNCHANGED <<pruned, below, tables, acked, torn, faults>>

\* Faulty variant: the position is that of the block in memory, which on a pruned
\* node is not its height.
FaultyAppendBlock ==
  /\ pc = "append"
  /\ bodies' = bodies \cup {Tip(chain)}
  /\ active' = [active EXCEPT ![Len(chain) - 1] = Tip(chain)]
  /\ torn' = (torn \/ acked # Blk[Tip(chain)].prev)
  /\ acked' = Tip(chain)
  /\ pc' = "idle"
  /\ UNCHANGED <<memory, below, snapshot, prunedBelow, faults>>

\* append_block.  It leaves a hole when an earlier write had failed.
AppendBlock ==
  /\ pc = "append"
  /\ bodies' = bodies \cup {Tip(chain)}
  /\ active' = [active EXCEPT ![Height] = Tip(chain)]
  /\ torn' = (torn \/ acked # Blk[Tip(chain)].prev)
  /\ acked' = Tip(chain)
  /\ pc' = "idle"
  /\ UNCHANGED <<memory, below, snapshot, prunedBelow, faults>>

\* replace_chain, or _switch_to at the end of add_block, in memory.  Both want a
\* branch from the first block in memory; reindex leaves the cache of a node
\* alone that runs from a pruned store.
SwitchTo(b) ==
  /\ pc = "idle"
  /\ chain[1] = Genesis
  /\ b \in ValidTips
  /\ Work(Blk[b].branch) > Work(chain)
  /\ chain' = Blk[b].branch
  /\ utxos' = IF pruned THEN utxos ELSE UtxosOf(chain')
  /\ pc' = "save"
  /\ UNCHANGED <<pruned, below, tables, acked, torn, faults>>

\* save_chain: all bodies and the whole order in one commit.
SaveChain ==
  /\ pc \in {"save", "savePruned"}
  /\ bodies' = bodies \cup BlocksIn(chain)
  /\ active' = OrderOf(chain)
  /\ acked' = Tip(chain) /\ torn' = FALSE
  /\ pc' = IF pc = "save" THEN "idle" ELSE "snapshot"
  /\ UNCHANGED <<memory, below, snapshot, prunedBelow, faults>>

\* below_height of prune(keep_depth).
Floor(k) == IF Height - k + 1 > 1 THEN Height - k + 1 ELSE 1

\* prune(keep_depth): save the chain, then the snapshot, then drop the bodies.
Prune(k) ==
  /\ pc = "idle"
  /\ below' = Floor(k)
  /\ pc' = "savePruned"
  /\ UNCHANGED <<memory, tables, acked, torn, faults>>

SaveSnapshot ==
  /\ pc = "snapshot"
  /\ snapshot' = utxos
  /\ pc' = "bodies"
  /\ UNCHANGED <<memory, below, bodies, active, prunedBelow, acked, torn, faults>>

\* Faulty variant: the lowest block to keep is dropped as well.
FaultyPruneBodies ==
  /\ pc = "bodies"
  /\ bodies' = {b \in bodies : Blk[b].height > below}
  /\ pc' = "meta"
  /\ UNCHANGED <<memory, below, active, snapshot, prunedBelow, acked, torn, faults>>

\* prune_bodies, first commit: no body below the floor.
PruneBodies ==
  /\ pc = "bodies"
  /\ bodies' = {b \in bodies : Blk[b].height >= below}
  /\ pc' = "meta"
  /\ UNCHANGED <<memory, below, active, snapshot, prunedBelow, acked, torn, faults>>

\* prune_bodies, second commit: only now does a restart know.
SetMeta ==
  /\ pc = "meta"
  /\ prunedBelow' = below
  /\ pc' = "idle"
  /\ UNCHANGED <<memory, below, bodies, active, snapshot, acked, torn, faults>>

-----------------------------------------------------------------------------
(* Faults and restart *)

\* Bodies are gone and no restart will know why.
HalfPruned == pc = "meta" /\ prunedBelow = 0

\* A write raises, as on a locked or full database: the call ends there, what it
\* changed in memory stays.
WriteFails ==
  /\ pc \in Commits
  /\ failures < MaxFailures
  /\ failures' = failures + 1
  /\ torn' = (torn \/ HalfPruned)
  /\ pc' = "idle"
  /\ UNCHANGED <<memory, below, tables, acked, crashes>>

Crash ==
  /\ pc # "down"
  /\ crashes < MaxCrashes
  /\ crashes' = crashes + 1
  /\ torn' = (torn \/ HalfPruned)
  /\ pc' = "down"
  /\ chain' = <<>> /\ utxos' = {} /\ pruned' = FALSE /\ below' = 0
  /\ UNCHANGED <<tables, acked, failures>>

\* load_or_create ends with this chain and this cache.
Serve(c, u) ==
  /\ chain' = c /\ utxos' = u
  /\ acked' = Tip(c) /\ torn' = FALSE
  /\ pc' = "idle"
  /\ UNCHANGED <<below, faults>>

\* On a pruned store the blocks kept are not validated and the cache is the
\* snapshot, whatever was appended after it was taken.
RestartPruned ==
  /\ pc = "down" /\ prunedBelow > 0
  /\ Retained # <<>> /\ snapshot # None
  /\ Serve(Retained, snapshot)
  /\ pruned' = TRUE
  /\ UNCHANGED tables

\* Faulty variant: a full node trusts a snapshot, too.
FaultyRestartFull(b) ==
  /\ pc = "down" /\ prunedBelow = 0
  /\ b \in ValidTips /\ Retained = Blk[b].branch
  /\ Serve(Retained, IF snapshot = None THEN UtxosOf(Retained) ELSE snapshot)
  /\ UNCHANGED <<pruned, tables>>

\* On a full store they are, and the cache is computed from them.
RestartFull(b) ==
  /\ pc = "down" /\ prunedBelow = 0
  /\ b \in ValidTips /\ Retained = Blk[b].branch
  /\ Serve(Retained, UtxosOf(Retained))
  /\ UNCHANGED <<pruned, tables>>

\* What does not validate gives way to the JSON copy, or to genesis, and the
\* tables are rewritten.
RestartFromBackup ==
  /\ pc = "down" /\ prunedBelow = 0
  /\ \A b \in ValidTips : Retained # Blk[b].branch
  /\ Serve(Blk[Backup].branch, UtxosOf(Blk[Backup].branch))
  /\ bodies' = bodies \cup BlocksIn(chain')
  /\ active' = OrderOf(chain')
  /\ UNCHANGED <<pruned, snapshot, prunedBelow>>

Next ==
  \/ \E b \in Blocks : Connect(b)
  \/ \E b \in Blocks : SwitchTo(b)
  \/ \E k \in KeepDepths : Prune(k)
  \/ AppendBlock
  \/ SaveChain
  \/ SaveSnapshot
  \/ PruneBodies
  \/ SetMeta
  \/ WriteFails
  \/ Crash
  \/ RestartPruned
  \/ \E b \in Blocks : RestartFull(b)
  \/ RestartFromBackup

Spec == Init /\ [][Next]_vars

-----------------------------------------------------------------------------
(* Safety *)

\* Whatever died or failed before, a node that does not run from a pruned store
\* serves a chain that passes validation from genesis, and exactly its UTXO set.
FullNodeServesValid ==
  pc # "down" /\ ~pruned =>
    /\ chain = Blk[Tip(chain)].branch
    /\ ValidBranch(chain, Now)
    /\ utxos = UtxosOf(chain)

\* A restart comes back with the tip of the last call that committed, of full and
\* pruned stores alike, unless a write failed before another block was appended,
\* or a first prune was cut between dropping the bodies and saying so.
RestartKeepsTip ==
  [][pc = "down" /\ pc' # "down" /\ ~torn => Tip(chain') = acked]_vars

\* What load_or_create needs of a store marked as pruned.
Loadable == prunedBelow > 0 => Retained # <<>> /\ snapshot # None

\* At whatever point the process dies, load_or_create does not raise on a store
\* that was pruned, once it holds more than genesis.
RestartPossible == acked # Genesis => Loadable

\* As long as every write succeeds, the blocks a pruned node runs on follow one
\* another, although nothing validates them on load.
RetainedLinked ==
  pruned /\ failures = 0 =>
    \A i \in 2..Len(chain) : Blk[chain[i]].prev = chain[i - 1]

\* What every start relies on: tables of the right shape, from which a pruned
\* store can be loaded, and consecutive blocks once it is.
StoreSound == TypeOK /\ RestartPossible /\ RetainedLinked

-----------------------------------------------------------------------------
(* What the documentation says and the code does not do *)

\* prune: "on the next reload the node runs in pruned mode".  Stated without
\* failing writes: the next start does not raise.
PrunedReloads == failures = 0 => Loadable

\* CHANGELOG.md: "utxo_set() now serves an authoritative in-memory cache (kept in
\* sync through mining and reorgs, verified against a full recompute)".  Stated for
\* a pruned node: its cache is the UTXO set of the branch of its tip.
PrunedUtxosExact == pruned => utxos = UtxosOf(Blk[Tip(chain)].branch)
=============================================================================
