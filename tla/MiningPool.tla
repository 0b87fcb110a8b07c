----------------------------- MODULE MiningPool -----------------------------
(***************************************************************************)
(* The pool of netcoin/pool.py over a chain that may gain blocks from others *)
(* and reorganise.  Handlers run in threads: a submission is checked and     *)
(* given to the chain in one step and recorded in another.  Blocks form a    *)
(* fixed tree of equal work, block 0 the genesis; all of them are valid.  The *)
(* counters of accepted and rejected submissions are left out.               *)
(***************************************************************************)
EXTENDS Integers, Sequences, FiniteSets, Functions

CONSTANTS
  Miners, Threads,               \* miners are numbers, ordered as their names
  PoolBlocks,                    \* ids of blocks above the genesis
  BlockParent, BlockHeight,      \* the tree
  Zeroes, MinShareZeroes,        \* leading zeroes of a hash; the share target
  Solved,                        \* blocks that meet the proof-of-work target
  Reward,                        \* total output of a block's coinbase
  MaxShares                      \* bound of the submissions

ASSUME PoolAssumption ==
  /\ Miners \subseteq Nat /\ IsFiniteSet(Miners)
  /\ PoolBlocks \subseteq Nat \ {0} /\ IsFiniteSet(PoolBlocks)
  /\ BlockParent \in [PoolBlocks -> PoolBlocks \union {0}]
  /\ BlockHeight \in [PoolBlocks \union {0} -> Nat]
  /\ \A b \in PoolBlocks : BlockHeight[BlockParent[b]] < BlockHeight[b]
  /\ Zeroes \in [PoolBlocks -> Nat] /\ Reward \in Nat /\ MaxShares \in Nat

VARIABLES
  poolTip, poolKnown,   \* the chain: its best tip, the blocks it has
  issued,               \* jobs, by the block they build on
  poolShares,           \* [miner, weight] in the order they were recorded
  rewarded,             \* accepted_blocks: the blocks recorded with their reward
  submission            \* thread -> what it has still to record

poolVars == <<poolTip, poolKnown, issued, poolShares, rewarded, submission>>

NoSubmission == [miner |-> 0, block |-> 0, accepted |-> FALSE]

PoolInit ==
  /\ poolTip = 0 /\ poolKnown = {} /\ issued = {}
  /\ poolShares = <<>> /\ rewarded = <<>>
  /\ submission = [t \in Threads |-> NoSubmission]

\* The blocks from the genesis to b: in every set with b that is closed under parents.
ChainTo ==
  LET closed == {S \in SUBSET (PoolBlocks \union {0}) : \A b \in S \ {0} : BlockParent[b] \in S}
  IN  [b \in PoolBlocks \union {0} |->
         {c \in PoolBlocks \union {0} : \A S \in closed : b \in S => c \in S}]

\* Faulty variant: every block counts as accepted.
FaultyAddBlock(b) == [tip |-> poolTip, ok |-> TRUE]

\* Blockchain.add_block as the pool sees it: the new tip, and whether the call
\* returned.  A block already on the active chain is no error.
AddBlock(b) ==
  LET all == poolKnown \union {0, b}
      joined == {c \in all : ChainTo[c] \subseteq all}
      top == CHOOSE c \in joined : \A d \in joined : BlockHeight[d] <= BlockHeight[c]
      best == IF BlockHeight[top] > BlockHeight[poolTip] THEN top ELSE poolTip
  IN  [tip |-> best, ok |-> b \in ChainTo[best]]

PoolJob ==
  /\ issued' = issued \union {poolTip}
  /\ UNCHANGED <<poolTip, poolKnown, poolShares, rewarded, submission>>

\* submit, up to the answer of add_block: j is the job named, -1 for none.
Acceptable(b, j) ==
  /\ j # -1 => j \in issued /\ BlockParent[b] = j
  /\ Zeroes[b] >= MinShareZeroes \/ b \in Solved

Submit(t, m, b, j) ==
  /\ submission[t] = NoSubmission /\ Len(poolShares) < MaxShares
  /\ Acceptable(b, j)
  /\ poolTip' = IF b \in Solved THEN AddBlock(b).tip ELSE poolTip
  /\ poolKnown' = IF b \in Solved THEN poolKnown \union {b} ELSE poolKnown
  /\ submission' = [submission EXCEPT ![t] =
                      [miner |-> m, block |-> b, accepted |-> b \in Solved /\ AddBlock(b).ok]]
  /\ UNCHANGED <<issued, poolShares, rewarded>>

\* ... and what it records: a share in either case, the reward of a block.
Record(t) ==
  /\ submission[t] # NoSubmission
  /\ submission' = [submission EXCEPT ![t] = NoSubmission]
  /\ LET s == submission[t] IN
     /\ poolShares' = Append(poolShares, [miner |-> s.miner, weight |-> IF Zeroes[s.block] > 1 THEN Zeroes[s.block] ELSE 1])
     /\ rewarded' = IF s.accepted THEN Append(rewarded, s.block) ELSE rewarded
  /\ UNCHANGED <<poolTip, poolKnown, issued>>

\* A block of another miner reaches the node.
OthersBlock(b) ==
  /\ b \in Solved \ poolKnown
  /\ poolKnown' = poolKnown \union {b}
  /\ poolTip' = AddBlock(b).tip
  /\ UNCHANGED <<issued, poolShares, rewarded, submission>>

\* The weight of the shares at the positions I, and the positions of one miner.
Weight(shares, I) == SumFunctionOnSet([i \in I |-> shares[i].weight], I)
SharesOf(shares, m) == {i \in DOMAIN shares : shares[i].miner = m}

\* payout_plan: shares sorted by miner, each the floor of its part, and the
\* last whatever is left.  Only the miner of the last share matters here.
Parts(shares, reward) ==
  LET last == CHOOSE i \in DOMAIN shares : \A k \in DOMAIN shares :
                shares[k].miner < shares[i].miner \/ (shares[k].miner = shares[i].miner /\ k <= i)
      floors == [i \in DOMAIN shares |->
                   (reward * shares[i].weight) \div Weight(shares, DOMAIN shares)]
  IN  [floors EXCEPT ![last] = reward - SumFunctionOnSet(floors, DOMAIN shares \ {last})]

Payouts(shares, reward) ==
  [m \in Miners |-> SumFunctionOnSet(Parts(shares, reward), SharesOf(shares, m))]

PoolNext ==
  \/ PoolJob
  \/ \E t \in Threads : Record(t) \/ \E m \in Miners, b \in PoolBlocks, j \in PoolBlocks \union {0, -1} : Submit(t, m, b, j)
  \/ \E b \in PoolBlocks : OthersBlock(b)

PoolSpec == PoolInit /\ [][PoolNext]_poolVars

(* ---------------- properties --------------------------------------------- *)
\* A payout plan hands out the reward exactly, rounding included, and costs no
\* miner more than one sat for each of its shares (pool.py:143-170).
PlanIsExact ==
  poolShares # <<>> =>
    LET pay   == Payouts(poolShares, Reward)
        of(m) == SharesOf(poolShares, m)
        all   == Weight(poolShares, DOMAIN poolShares)
    IN  /\ SumFunctionOnSet(pay, Miners) = Reward
        /\ \A m \in Miners :
             (pay[m] + Cardinality(of(m))) * all >= Reward * Weight(poolShares, of(m))

\* A recorded reward is of a block that was on the best chain: it still is, or
\* a chain with more work has overtaken it, whatever threads and reorganisations
\* do between the chain's answer and the record (pool.py:90-135).
RewardsEarned ==
  \A i \in DOMAIN rewarded :
    rewarded[i] \in ChainTo[poolTip] \/ BlockHeight[rewarded[i]] < BlockHeight[poolTip]

\* What is paid was earned and is paid out in full.
RewardsExact == PlanIsExact /\ RewardsEarned
=============================================================================
