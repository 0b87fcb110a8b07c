------------------------------ MODULE Mempool -------------------------------
(***************************************************************************)
(* The mempool policy of netcoin/chain.py as operators on a pool, which is  *)
(* a sequence of entries [tx, at]: self.mempool in list order, each with    *)
(* its mempool_times stamp.  A stamp left behind by a dropped transaction   *)
(* is never read again (admission sets it), so entries carry their own.     *)
(*                                                                         *)
(* u is always the confirmed UTXO set, h the height of the next block and   *)
(* now the clock.  An operator that raises in the code returns the pool     *)
(* as the code leaves it at that point.                                     *)
(***************************************************************************)
EXTENDS Ledger, Lists, SequencesExt

CONSTANTS
  MaxPoolTxs,           \* params.MAX_MEMPOOL_TRANSACTIONS
  MaxPoolBytes,         \* params.MAX_MEMPOOL_BYTES
  MempoolExpiry,        \* params.MEMPOOL_EXPIRY_SECONDS
  MaxAncestors,         \* params.MAX_MEMPOOL_ANCESTORS
  MinRelayFeePerKb,     \* params.MIN_RELAY_FEE_PER_KB
  IncrementalRelayFee   \* params.INCREMENTAL_RELAY_FEE

ASSUME PolicyAssumption ==
  /\ MaxPoolTxs \in Nat \ {0}
  /\ {MaxPoolBytes, MempoolExpiry, MaxAncestors,
      MinRelayFeePerKb, IncrementalRelayFee} \subseteq Nat

Entry == [tx : Txs, at : Nat]

\* Only({F(x) : x \in {e}}) is F(e), with e evaluated once.
Only(S) == CHOOSE x \in S : TRUE

PoolTxs(pool) == {pool[i].tx : i \in DOMAIN pool}
TxList(pool) == [i \in DOMAIN pool |-> pool[i].tx]
Without(pool, ts) == Kept(pool, {i \in DOMAIN pool : pool[i].tx \notin ts})

FeeFor(vsize, perKb) == (vsize * perKb + 999) \div 1000
FeeRate(fee, vsize) == (fee * 1000) \div vsize

SizeOf(ts) == SumFunctionOnSet([t \in ts |-> Tx[t].vsize], ts)
FeesOf(ts) == SumFunctionOnSet([t \in ts |-> Fee(t)], ts)

PaysMinimum(t) == Fee(t) >= FeeFor(Tx[t].vsize, MinRelayFeePerKb)

\* fee_rate on the confirmed set alone: a child of an unconfirmed parent has
\* no valid inputs there and counts as rate zero.
SafeFeeRate(t, u, h, now) ==
  IF TxValid(t, u, h, now) THEN FeeRate(Fee(t), Tx[t].vsize) ELSE 0

\* The pool as a whole replays on the confirmed set.
PoolReplays(pool, u, h, now) == ListValid(TxList(pool), u, h, now)

PoolView(pool, u) == ViewBefore(u, TxList(pool), Len(pool) + 1)

\* One greedy pass in list order: an entry is kept when it is one of ts and valid
\* on the confirmed set and the entries kept so far.
GreedyPass(pool, u, h, now, ts) ==
  LET kept[n \in 0..Len(pool)] ==
        IF n = 0 THEN <<>>
        ELSE Only({IF pool[n].tx \in ts /\ TxValid(pool[n].tx, PoolView(k, u), h, now)
                   THEN Append(k, pool[n]) ELSE k : k \in {kept[n - 1]}})
  IN kept[Len(pool)]

\* mempool_info's "bytes" counts only the entries that still replay.
Bytes(pool, u, h, now) ==
  Only({SizeOf(PoolTxs(counted)) : counted \in {GreedyPass(pool, u, h, now, PoolTxs(pool))}})

Conflicts(pool, t) == {s \in PoolTxs(pool) : Ins(s) \cap Ins(t) # {}}

Parents(t, ts) == {p \in ts : Outs(p) \cap Ins(t) # {}}

\* The least set of pooled transactions closed under "is a parent of".
Ancestors(t, ts) ==
  {a \in ts : \A S \in SUBSET ts :
     (\A x \in S \cup {t} : Parents(x, ts) \subseteq S) => a \in S}

-----------------------------------------------------------------------------
(* Eviction *)

Expire(pool, now) == Kept(pool, {i \in DOMAIN pool : now - pool[i].at <= MempoolExpiry})

\* Drops the lowest fee rates first; sorted() is stable, so the earlier of two
\* equal rates goes first.
EvictToSize(pool, n, u, h, now) ==
  Only({Without(pool, {pool[i].tx : i \in {k \in DOMAIN pool :
          Cardinality({j \in DOMAIN pool :
            rate[j] < rate[k] \/ (rate[j] = rate[k] /\ j < k)}) < Len(pool) - n}}) :
        rate \in {[i \in DOMAIN pool |-> SafeFeeRate(pool[i].tx, u, h, now)]}})

MakeRoom(pool, t, u, h, now) ==
  Only({IF Bytes(counted, u, h, now) + Tx[t].vsize > MaxPoolBytes
        THEN EvictToSize(counted, Len(counted) - 1, u, h, now)
        ELSE counted :
        counted \in {IF Len(pool) >= MaxPoolTxs
                     THEN EvictToSize(pool, MaxPoolTxs - 1, u, h, now)
                     ELSE pool}})

-----------------------------------------------------------------------------
(* Admission *)

\* calculate_fee of the transactions ts on the confirmed set: a fee that cannot be
\* computed there counts as zero.
ConfirmedFees(ts, u, h, now) ==
  SumFunctionOnSet([t \in ts |-> IF TxValid(t, u, h, now) THEN Fee(t) ELSE 0], ts)

\* Faulty variant: the incremental relay fee is not required.
FaultyMayReplace(t, old, u, h, now) ==
  /\ \A s \in old : Tx[s].rbf
  /\ TxValid(t, u, h, now)
  /\ Fee(t) > ConfirmedFees(old, u, h, now)

\* Opt-in replacement: calculate_fee(tx) needs every input of the newcomer to
\* be confirmed.
MayReplace(t, old, u, h, now) ==
  LET oldFees == ConfirmedFees(old, u, h, now)
  IN /\ \A s \in old : Tx[s].rbf
     /\ TxValid(t, u, h, now)
     /\ Fee(t) > oldFees
     /\ Fee(t) >= oldFees + FeeFor(SizeOf(old), IncrementalRelayFee)
     /\ FeeRate(Fee(t), Tx[t].vsize) > FeeRate(oldFees, SizeOf(old))

\* The checks that follow the removal of the conflicts.
Acceptable(pool, t, u, h, now) ==
  /\ PoolReplays(pool, u, h, now)
  /\ TxValid(t, PoolView(pool, u), h, now)
  /\ Tx[t].standard
  /\ PaysMinimum(t)
  /\ Cardinality(Ancestors(t, PoolTxs(pool))) < MaxAncestors

Admit(pool, t, u, h, now) ==
  LET full(room) == Bytes(room, u, h, now) + Tx[t].vsize > MaxPoolBytes
      mayEnter(old) == old = {} \/ MayReplace(t, old, u, h, now)
      entered(rest) == IF Acceptable(rest, t, u, h, now)
                       THEN Append(rest, [tx |-> t, at |-> now]) ELSE rest
      after(room) ==
        Only({IF full(room) \/ ~mayEnter(old) THEN room
              ELSE Only({entered(rest) : rest \in {Without(room, old)}}) :
              old \in {Conflicts(room, t)}})
  IN IF t \in PoolTxs(pool) THEN pool
     ELSE Only({after(room) : room \in {MakeRoom(evicted, t, u, h, now) :
                                        evicted \in {Expire(pool, now)}}})

PackageAcceptable(pool, ts, u, h, now) ==
  /\ ts # <<>>
  /\ NoDuplicates(ts)
  /\ Len(ts) <= MaxAncestors
  /\ PoolReplays(pool, u, h, now)
  /\ ListValid(ts, PoolView(pool, u), h, now)
  /\ \A i \in DOMAIN ts :
       /\ ts[i] \notin PoolTxs(pool)
       /\ Conflicts(pool, ts[i]) = {}
       /\ Tx[ts[i]].standard
       /\ Cardinality(Ancestors(ts[i], PoolTxs(pool))) < MaxAncestors
  /\ FeesOf(Range(ts)) >= FeeFor(SizeOf(Range(ts)), MinRelayFeePerKb)

AdmitPackage(pool, ts, u, h, now) ==
  IF PackageAcceptable(pool, ts, u, h, now)
  THEN pool \o [i \in DOMAIN ts |-> [tx |-> ts[i], at |-> now]]
  ELSE pool

-----------------------------------------------------------------------------
(* After the chain moved *)

\* Faulty variant: nothing is dropped.
FaultyPurge(pool, u, h, now) == pool

Purge(pool, u, h, now) ==
  GreedyPass(pool, u, h, now, {t \in PoolTxs(pool) : Tx[t].standard /\ PaysMinimum(t)})

\* mine_block's selection: the same pass without the policy checks, limited by
\* the block weight; vsize stands for weight, up to its factor of four.
Select(pool, u, h, now, budget) ==
  LET take(sel, e) ==
        IF /\ TxValid(e.tx, ViewBefore(u, sel, Len(sel) + 1), h, now)
           /\ MapThenSumSet(LAMBDA i : Tx[sel[i]].vsize, DOMAIN sel) + Tx[e.tx].vsize <= budget
        THEN Append(sel, e.tx) ELSE sel
  IN FoldLeft(take, <<>>, pool)
=============================================================================
