--------------------------- MODULE ExplorerIndex ----------------------------
(***************************************************************************)
(* The SQLite index of netcoin/indexer_db.py: blocks flagged active, one row *)
(* per transaction with the block it was last indexed in, and the events of  *)
(* transactions.  Its caller follows a chain that reorganises: it applies    *)
(* the blocks of a branch from the fork upwards, any of them again, or rolls *)
(* back.  Blocks are a fixed tree above the genesis 0.                       *)
(***************************************************************************)
EXTENDS Integers, FiniteSets

CONSTANTS
  Tree,                    \* block ids
  Above, Level,            \* parent and height of each
  TxsOf                    \* the transactions of each block; one may be in
                           \* blocks of several branches, never twice on one

\* Heights grow along a branch, and a branch holds a transaction once: blocks
\* come from a chain that checked both.
Branch(S) == /\ \A b \in S : Above[b] \in S \union {0}
             /\ \A b, c \in S : Level[b] = Level[c] => b = c
ASSUME TreeAssumption ==
  /\ Tree \subseteq Nat \ {0}
  /\ Level \in [Tree -> Nat] /\ Above \in [Tree -> Tree \union {0}]
  /\ \A b \in Tree : Above[b] # 0 => Level[Above[b]] < Level[b]
  /\ \A S \in SUBSET Tree : Branch(S) => \A b, c \in S : TxsOf[b] \intersect TxsOf[c] # {} => b = c

VARIABLES
  rows,                    \* blocks: id -> "absent", "active" or "inactive"
  home,                    \* txs: txid -> the block of its row, -1 without one
  events                   \* txid -> address events stored for it

indexVars == <<rows, home, events>>

AllTxs == UNION {TxsOf[b] : b \in Tree}
Active == {b \in Tree : rows[b] = "active"}

IndexInit ==
  /\ rows = [b \in Tree |-> "absent"]
  /\ home = [t \in AllTxs |-> -1]
  /\ events = [t \in AllTxs |-> 0]

\* Faulty variant: only the block of the same height is replaced.
FaultyFlags(b) == [c \in Tree |-> IF c = b THEN "active"
                                  ELSE IF rows[c] # "absent" /\ Level[c] = Level[b] THEN "inactive" ELSE rows[c]]

\* apply_block: what was active from this height up no longer is.
Flags(b) == [c \in Tree |-> IF c = b THEN "active"
                            ELSE IF rows[c] # "absent" /\ Level[c] >= Level[b] THEN "inactive" ELSE rows[c]]

\* ... and its transactions' events are deleted before they are inserted.
\* Replacing a row of the block deletes, by the foreign keys' cascade, the rows
\* and events of the transactions indexed in it.
Reindexed(b) == [t \in AllTxs |-> IF t \in TxsOf[b] THEN 1 ELSE IF home[t] = b THEN 0 ELSE events[t]]

ApplyBlock(b) ==
  /\ Above[b] \in Active \union {0}
  /\ rows' = Flags(b)
  /\ home' = [t \in AllTxs |-> IF t \in TxsOf[b] THEN b ELSE IF home[t] = b THEN -1 ELSE home[t]]
  /\ events' = Reindexed(b)

\* rollback_to_height: the rows above it go, transactions by their own height.
Gone(h) == {t \in AllTxs : home[t] # -1 /\ Level[home[t]] > h}

RollbackToHeight(h) ==
  /\ rows' = [b \in Tree |-> IF Level[b] > h THEN "absent" ELSE rows[b]]
  /\ home' = [t \in AllTxs |-> IF t \in Gone(h) THEN -1 ELSE home[t]]
  /\ events' = [t \in AllTxs |-> IF t \in Gone(h) THEN 0 ELSE events[t]]

IndexNext ==
  \/ \E b \in Tree : ApplyBlock(b)
  \/ \E h \in {Level[b] : b \in Tree} \union {0} : RollbackToHeight(h)

IndexSpec == IndexInit /\ [][IndexNext]_indexVars

(* ---------------- properties --------------------------------------------- *)
\* After any reorganisations, replays and rollbacks the summaries are those of
\* a fresh index of one chain: the active blocks are linked, one per height, and
\* exactly their transactions are joined to them, each with its events once
\* (indexer_db.py:108-246).
IndexIsTheChain ==
  /\ Branch(Active)
  /\ \A t \in AllTxs : home[t] \in Active <=> \E b \in Active : t \in TxsOf[b]
  /\ \A t \in AllTxs : home[t] \in Active => t \in TxsOf[home[t]] /\ events[t] = 1

\* No transaction row outlives its block, nor events their row.
NoOrphanRows ==
  \A t \in AllTxs : /\ home[t] # -1 => rows[home[t]] # "absent"
                    /\ home[t] = -1 => events[t] = 0

\* The index and nothing else: what it answers is right and nothing is left over.
IndexExact == IndexIsTheChain /\ NoOrphanRows
=============================================================================
