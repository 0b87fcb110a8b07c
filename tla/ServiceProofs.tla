--------------------------- MODULE ServiceProofs ----------------------------
(***************************************************************************)
(* Proofs about components that meet the chain from outside: the explorer    *)
(* index, for every tree of blocks; the soft-fork rehearsal, for every       *)
(* window, period and threshold; the approval of withdrawals, for any        *)
(* operators, accounts and limits; the bookkeeping of download jobs, for any *)
(* peers, blocks and limits; the mining pool, for any miners, threads, shares *)
(* and trees; and the deposits of an exchange, for any chains and crashes.   *)
(***************************************************************************)
EXTENDS ExplorerIndex, VersionBits, ExchangeDeposits, Withdrawals, HeaderSync,
        MiningPool, DataProofs

\* Every row of a transaction names a block that holds it, and has its events once.
RowsRight ==
  \A t \in AllTxs : IF home[t] = -1 THEN events[t] = 0
                    ELSE home[t] \in Tree /\ t \in TxsOf[home[t]] /\ rows[home[t]] # "absent" /\ events[t] = 1

\* Inductive: a transaction of an active block is at home in that block.
IndexInv ==
  /\ rows \in [Tree -> {"absent", "active", "inactive"}]
  /\ home \in [AllTxs -> Tree \union {-1}]
  /\ events \in [AllTxs -> Nat]
  /\ RowsRight
  /\ Branch(Active)
  /\ \A b \in Active : \A t \in TxsOf[b] : home[t] = b

LEMMA IndexInitially == IndexInit => IndexInv
BY TreeAssumption DEF IndexInit, IndexInv, RowsRight, Branch, Active

\* What an applied block leaves active: itself and what was active below it.
LEMMA ActiveAfterApply ==
  ASSUME IndexInv, NEW b \in Tree, ApplyBlock(b)
  PROVE  /\ Active' = {b} \union {c \in Active : Level[c] < Level[b]}
         /\ Branch(Active')
<1>1. Active' = {b} \union {c \in Active : Level[c] < Level[b]}
  <2>1. \A c \in Tree : c \in Active' <=> c = b \/ (c \in Active /\ Level[c] < Level[b])
    BY TreeAssumption DEF IndexInv, ApplyBlock, Flags, Active
  <2> QED
    BY <2>1 DEF Active
<1>2. Branch(Active')
  <2>1. \A c \in Active' : Above[c] \in Active' \union {0}
    <3> SUFFICES ASSUME NEW c \in Active', Above[c] # 0
                 PROVE  Above[c] \in Active'
      OBVIOUS
    <3>1. c \in Tree /\ Above[c] \in Active /\ Level[Above[c]] < Level[c]
      BY <1>1, TreeAssumption DEF IndexInv, Branch, Active, ApplyBlock
    <3>2. Above[c] \in Tree /\ Level[Above[c]] \in Nat /\ Level[c] \in Nat /\ Level[b] \in Nat
      BY <3>1, TreeAssumption DEF Active
    <3>3. Level[c] <= Level[b]
      BY <1>1, <3>2
    <3>4. Level[Above[c]] < Level[b]
      BY <3>1, <3>2, <3>3
    <3> QED
      BY <1>1, <3>1, <3>4
  <2>2. \A c, d \in Active' : Level[c] = Level[d] => c = d
    BY <1>1, TreeAssumption DEF IndexInv, Branch, Active
  <2> QED
    BY <2>1, <2>2 DEF Branch
<1> QED
  BY <1>1, <1>2

\* A rollback leaves what was active up to its height.
LEMMA ActiveAfterRollback ==
  ASSUME IndexInv, NEW h \in Nat, RollbackToHeight(h)
  PROVE  /\ Active' = {c \in Active : Level[c] <= h}
         /\ Branch(Active')
<1>1. Active' = {c \in Active : Level[c] <= h}
  <2>1. \A c \in Tree : c \in Active' <=> c \in Active /\ Level[c] <= h
    BY TreeAssumption DEF IndexInv, RollbackToHeight, Active
  <2> QED
    BY <2>1 DEF Active
<1>2. \A c \in Active' : Above[c] \in Active' \union {0}
  <2> SUFFICES ASSUME NEW c \in Active', Above[c] # 0
               PROVE  Above[c] \in Active'
    OBVIOUS
  <2>1. c \in Active /\ c \in Tree /\ Level[c] <= h
    BY <1>1 DEF Active
  <2>2. Above[c] \in Active /\ Above[c] \in Tree
    BY <2>1 DEF IndexInv, Branch, Active
  <2>3. Level[Above[c]] \in Nat /\ Level[c] \in Nat /\ Level[Above[c]] < Level[c]
    BY <2>1, <2>2, TreeAssumption
  <2>4. Level[Above[c]] <= h
    BY <2>1, <2>3
  <2> QED
    BY <1>1, <2>2, <2>4
<1>3. \A c, d \in Active' : Level[c] = Level[d] => c = d
  BY <1>1 DEF IndexInv, Branch
<1> QED
  BY <1>1, <1>2, <1>3 DEF Branch

LEMMA ApplyKeepsIndex ==
  ASSUME IndexInv, NEW b \in Tree, ApplyBlock(b)
  PROVE  IndexInv'
<1> USE DEF IndexInv, ApplyBlock
<1>1. rows' \in [Tree -> {"absent", "active", "inactive"}]
  BY DEF Flags
<1>2. home' \in [AllTxs -> Tree \union {-1}] /\ events' \in [AllTxs -> Nat]
  BY DEF Reindexed
<1>3. RowsRight'
  <2> SUFFICES ASSUME NEW t \in AllTxs
               PROVE  IF home'[t] = -1 THEN events'[t] = 0
                      ELSE home'[t] \in Tree /\ t \in TxsOf[home'[t]] /\ rows'[home'[t]] # "absent" /\ events'[t] = 1
    BY DEF RowsRight
  <2>1. rows'[b] = "active" /\ b # -1
    BY TreeAssumption DEF Flags
  <2>2. CASE t \in TxsOf[b]
    BY <2>1, <2>2 DEF Reindexed
  <2>3. CASE t \notin TxsOf[b]
    <3>1. home[t] # b
      BY <2>1, <2>3 DEF RowsRight
    <3>2. home'[t] = home[t] /\ events'[t] = events[t]
      BY <2>3, <3>1 DEF Reindexed
    <3>3. \A c \in Tree : rows[c] # "absent" => rows'[c] # "absent"
      BY DEF Flags
    <3> QED
      BY <3>2, <3>3 DEF RowsRight
  <2> QED
    BY <2>2, <2>3
<1>4. Branch(Active')
  BY ActiveAfterApply
<1>5. \A c \in Active' : \A t \in TxsOf[c] : home'[t] = c
  <2> SUFFICES ASSUME NEW c \in Active', NEW t \in TxsOf[c]
               PROVE  home'[t] = c
    OBVIOUS
  <2>1. c \in Tree /\ t \in AllTxs
    BY DEF Active, AllTxs
  <2>2. CASE c = b
    BY <2>1, <2>2
  <2>3. CASE c # b
    <3>1. home[t] = c
      BY <2>3, ActiveAfterApply
    <3>2. t \notin TxsOf[b]
      <4>1. Active' \in SUBSET Tree /\ b \in Active'
        BY ActiveAfterApply DEF Active
      <4> QED
        BY <4>1, <1>4, <2>3, TreeAssumption
    <3> QED
      BY <2>1, <2>3, <3>1, <3>2
  <2> QED
    BY <2>2, <2>3
<1> QED
  BY <1>1, <1>2, <1>3, <1>4, <1>5

LEMMA RollbackKeepsIndex ==
  ASSUME IndexInv, NEW h \in Nat, RollbackToHeight(h)
  PROVE  IndexInv'
<1> USE DEF IndexInv, RollbackToHeight
<1>1. /\ rows' \in [Tree -> {"absent", "active", "inactive"}]
      /\ home' \in [AllTxs -> Tree \union {-1}] /\ events' \in [AllTxs -> Nat]
  OBVIOUS
<1>2. RowsRight'
  <2> SUFFICES ASSUME NEW t \in AllTxs
               PROVE  IF home'[t] = -1 THEN events'[t] = 0
                      ELSE home'[t] \in Tree /\ t \in TxsOf[home'[t]] /\ rows'[home'[t]] # "absent" /\ events'[t] = 1
    BY DEF RowsRight
  <2>1. CASE t \in Gone(h)
    BY <2>1
  <2>2. CASE t \notin Gone(h)
    <3>1. home'[t] = home[t] /\ events'[t] = events[t]
      BY <2>2
    <3>2. home[t] # -1 => home[t] \in Tree /\ ~(Level[home[t]] > h)
      BY <2>2 DEF Gone
    <3> QED
      BY <3>1, <3>2 DEF RowsRight
  <2> QED
    BY <2>1, <2>2
<1>3. Branch(Active')
  BY ActiveAfterRollback
<1>4. \A c \in Active' : \A t \in TxsOf[c] : home'[t] = c
  <2> SUFFICES ASSUME NEW c \in Active', NEW t \in TxsOf[c]
               PROVE  home'[t] = c
    OBVIOUS
  <2>1. c \in Tree /\ t \in AllTxs /\ Level[c] \in Nat
    BY TreeAssumption DEF Active, AllTxs
  <2>2. home[t] = c /\ Level[c] <= h
    BY ActiveAfterRollback
  <2>3. t \notin Gone(h)
    BY <2>1, <2>2 DEF Gone
  <2> QED
    BY <2>1, <2>2, <2>3
<1> QED
  BY <1>1, <1>2, <1>3, <1>4

\* The inductive invariant holds for every tree of blocks that meets the
\* assumption, after any sequence of apply_block and rollback_to_height.
THEOREM IndexInvariant == IndexSpec => []IndexInv
<1>1. IndexInv /\ [IndexNext]_indexVars => IndexInv'
  <2> SUFFICES ASSUME IndexInv, [IndexNext]_indexVars
               PROVE  IndexInv'
    OBVIOUS
  <2>1. ASSUME NEW b \in Tree, ApplyBlock(b) PROVE IndexInv'
    BY <2>1, ApplyKeepsIndex
  <2>2. ASSUME NEW h \in {Level[b] : b \in Tree} \union {0}, RollbackToHeight(h) PROVE IndexInv'
    <3>1. \A b \in Tree : Level[b] \in Nat
      BY TreeAssumption
    <3>2. h \in Nat
      BY <3>1
    <3> QED
      BY <2>2, <3>2, RollbackKeepsIndex
  <2>3. CASE UNCHANGED indexVars
    BY <2>3 DEF indexVars, IndexInv, RowsRight, Branch, Active
  <2> QED
    BY <2>1, <2>2, <2>3 DEF IndexNext
<1> QED
  BY <1>1, IndexInitially, PTL DEF IndexSpec

\* The summaries are those of one chain: no sequence of reorganisations,
\* replays and rollbacks leaves a transaction joined to a block it is not in,
\* joined twice, or missing (indexer_db.py:108-246).
THEOREM IndexCorrect == IndexSpec => []IndexExact
<1>1. IndexInv => IndexIsTheChain
  <2> SUFFICES ASSUME IndexInv PROVE IndexIsTheChain
    OBVIOUS
  <2>1. \A t \in AllTxs : home[t] \in Active => t \in TxsOf[home[t]] /\ events[t] = 1
    BY TreeAssumption DEF IndexInv, RowsRight, Active
  <2>2. \A t \in AllTxs : home[t] \in Active <=> \E b \in Active : t \in TxsOf[b]
    BY <2>1 DEF IndexInv
  <2> QED
    BY <2>1, <2>2 DEF IndexIsTheChain, IndexInv
<1>2. IndexInv => NoOrphanRows
  BY DEF IndexInv, RowsRight, NoOrphanRows
<1>3. IndexInv => IndexExact
  BY <1>1, <1>2 DEF IndexExact
<1> QED
  BY <1>3, IndexInvariant, PTL

(* ---------------- the soft-fork rehearsal ---------------------------------- *)
\* Inductive: the property needs no more than that heights are numbers.
BitsInv == periodStart \in Nat /\ earned \in BOOLEAN /\ ActivationEarned

LEMMA BitsInvariant == BitsSpec => []BitsInv
<1>1. BitsInit => BitsInv
  <2> SUFFICES ASSUME BitsInit
               PROVE  BitsInv
    OBVIOUS
  <2>1. periodStart \in Nat
    BY DEF BitsInit
  <2>2. earned \in BOOLEAN
    BY Zenon DEF BitsInit
  <2>3. ActivationEarned
    BY DEF BitsInit, ActivationEarned
  <2> QED
    BY <2>1, <2>2, <2>3 DEF BitsInv
<1>2. BitsInv /\ [BitsNext]_bitsVars => BitsInv'
  <2> SUFFICES ASSUME BitsInv, [BitsNext]_bitsVars
               PROVE  BitsInv'
    OBVIOUS
  <2>1. ASSUME NEW size \in 1..Period, NEW signals \in 0..size, EvaluatePeriod(size, signals)
        PROVE  BitsInv'
    <3>1. periodStart' \in Nat /\ earned' \in BOOLEAN
      BY <2>1, DeploymentAssumption DEF EvaluatePeriod, BitsInv
    <3>2. CASE deployment \in {"locked_in", "active"}
      BY <2>1, <3>1, <3>2 DEF EvaluatePeriod, BitsInv, ActivationEarned
    <3>3. CASE deployment \notin {"locked_in", "active"}
      <4> SUFFICES ASSUME deployment' \in {"locked_in", "active"}
                   PROVE  earned'
        BY <3>1 DEF BitsInv, ActivationEarned
      <4>1. /\ deployment = "started" /\ size = Period /\ signals >= Threshold
            /\ ~(periodStart < StartHeight) /\ ~(periodStart >= TimeoutHeight)
        BY <2>1, <3>3 DEF EvaluatePeriod, NextState
      <4>2. StartHeight <= periodStart /\ periodStart < TimeoutHeight
        BY <4>1, DeploymentAssumption DEF BitsInv
      <4> QED
        BY <2>1, <4>1, <4>2 DEF EvaluatePeriod
    <3> QED
      BY <3>2, <3>3
  <2>2. CASE UNCHANGED bitsVars
    BY <2>2 DEF bitsVars, BitsInv, ActivationEarned
  <2> QED
    BY <2>1, <2>2 DEF BitsNext
<1> QED
  BY <1>1, <1>2, PTL DEF BitsSpec

\* For every valid deployment and every sequence of periods, lock-in and
\* activation were earned inside the window (versionbits.py:128-185).
THEOREM ActivationIsEarned == BitsSpec => []ActivationEarned
<1>1. BitsInv => ActivationEarned
  BY DEF BitsInv
<1> QED
  BY <1>1, BitsInvariant, PTL

\* Inductive: nobody is locked in before the window opens.
Opened == periodStart \in Nat /\ (deployment \in {"started", "locked_in", "active"} => periodStart > StartHeight)

\* Lock-in is final for every deployment, past the timeout too.
THEOREM LockInStays == BitsSpec => LockInIsFinal
<1>1. BitsInit => Opened
  BY DEF BitsInit, Opened
<1>2. Opened /\ [BitsNext]_bitsVars => Opened'
  <2> SUFFICES ASSUME Opened, [BitsNext]_bitsVars
               PROVE  Opened'
    OBVIOUS
  <2>1. ASSUME NEW size \in 1..Period, NEW signals \in 0..size, EvaluatePeriod(size, signals)
        PROVE  Opened'
    BY <2>1, DeploymentAssumption DEF EvaluatePeriod, NextState, Opened
  <2>2. CASE UNCHANGED bitsVars
    BY <2>2 DEF bitsVars, Opened
  <2> QED
    BY <2>1, <2>2 DEF BitsNext
<1>3. Opened /\ [BitsNext]_bitsVars
        => [(deployment \in {"locked_in", "active"}) => (deployment' = "active")]_bitsVars
  <2> SUFFICES ASSUME Opened, BitsNext, deployment \in {"locked_in", "active"}
               PROVE  deployment' = "active"
    OBVIOUS
  <2>1. PICK size \in 1..Period : \E signals \in 0..size : EvaluatePeriod(size, signals)
    BY DEF BitsNext
  <2> QED
    BY <2>1, DeploymentAssumption DEF EvaluatePeriod, NextState, Opened
<1> QED
  BY <1>1, <1>2, <1>3, PTL DEF BitsSpec, LockInIsFinal

(* ---------------- the approval of withdrawals ------------------------------ *)
CallType ==
  [at : {"idle", "decided", "ready", "approving", "moving"}, order : Orders \union {"none"},
   amount : Int, seen : Int, to : Hots \union {"none"}]

CustodyTypes ==
  /\ balance \in [Hots \union {Cold} -> Int]
  /\ order \in [Orders -> OrderStates \union {"none"}]
  /\ vote \in [Orders \X Operators -> {"none", "approved", "denied"}]
  /\ call \in [Operators -> CallType]

\* An order that waits, and that nobody is deciding, is not ready.
Waiting(w) == order[w] = "requested" /\ \A o \in Operators : call[o].order # w
QuorumInv == CustodyTypes /\ \A w \in Orders \ touched : Waiting(w) => ~ReadyToSign(w)

LEMMA CustodyInitially == CustodyInit => QuorumInv
<1> SUFFICES ASSUME CustodyInit PROVE QuorumInv
  OBVIOUS
<1>1. CustodyTypes
  BY CustodyAssumption DEF CustodyInit, CustodyTypes, CallType, Idle
<1> QED
  BY <1>1 DEF CustodyInit, QuorumInv

LEMMA CustodyTypesHold == CustodyTypes /\ [CustodyNext]_custodyVars => CustodyTypes'
<1> SUFFICES ASSUME CustodyTypes, [CustodyNext]_custodyVars
             PROVE  CustodyTypes'
  OBVIOUS
<1> USE DEF CustodyTypes
<1>1. ASSUME NEW w \in Orders, RequestWithdrawal(w) PROVE CustodyTypes'
  BY <1>1 DEF RequestWithdrawal, OrderStates
<1>2. ASSUME NEW w \in Orders, NEW s \in OrderStates, TransitionWithdrawal(w, s) PROVE CustodyTypes'
  BY <1>2 DEF TransitionWithdrawal
<1>i. Idle \in CallType
  BY DEF Idle, CallType
<1>3. ASSUME NEW o \in Operators, NEW w \in Orders, NEW d \in {"approved", "denied"}, Decide(o, w, d)
      PROVE  CustodyTypes'
  <2>1. [at |-> "decided", order |-> w, amount |-> 0, seen |-> 0, to |-> "none"] \in CallType
    BY DEF CallType
  <2> QED
    BY <1>3, <2>1 DEF Decide
<1>4. ASSUME NEW o \in Operators, Evaluate(o) \/ Look(o) PROVE CustodyTypes'
  <2>1. \A s \in {"ready", "approving"} : [call[o] EXCEPT !.at = s] \in CallType
    BY DEF CallType
  <2>2. \/ call' = [call EXCEPT ![o] = Idle]
        \/ \E s \in {"ready", "approving"} : call' = [call EXCEPT ![o] = [call[o] EXCEPT !.at = s]]
    BY <1>4 DEF Evaluate, Look
  <2>3. CASE call' = [call EXCEPT ![o] = Idle]
    BY <1>4, <1>i, <2>3 DEF Evaluate, Look
  <2>4. ASSUME NEW s \in {"ready", "approving"}, call' = [call EXCEPT ![o] = [call[o] EXCEPT !.at = s]]
        PROVE  CustodyTypes'
    BY <1>4, <2>1, <2>4 DEF Evaluate, Look
  <2> QED
    BY <2>2, <2>3, <2>4
<1>5. ASSUME NEW o \in Operators, Approve(o) PROVE CustodyTypes'
  BY <1>5, <1>i DEF Approve, OrderStates
<1>6. ASSUME NEW o \in Operators, Transfer(o) PROVE CustodyTypes'
  <2>1. call[o].amount \in Int
    BY DEF CallType
  <2>2. Transferred(call[o]) \in [Hots \union {Cold} -> Int]
    BY <2>1 DEF Transferred
  <2> QED
    BY <1>6, <1>i, <2>2 DEF Transfer
<1>7. ASSUME NEW o \in Operators, NEW h \in Hots, NEW n \in Sent, CheckCold(o, h, n) PROVE CustodyTypes'
  <2>1. [at |-> "moving", order |-> "none", amount |-> n, seen |-> balance[Cold], to |-> h] \in CallType
    BY CustodyAssumption DEF CallType
  <2> QED
    BY <1>7, <2>1 DEF CheckCold
<1>8. ASSUME NEW a \in Hots \union {Cold}, NEW n \in Granted, Configure(a, n) PROVE CustodyTypes'
  BY <1>8, CustodyAssumption DEF Configure
<1>9. CASE UNCHANGED custodyVars
  BY <1>9 DEF custodyVars
<1> QED
  BY <1>1, <1>2, <1>3, <1>4, <1>5, <1>6, <1>7, <1>8, <1>9 DEF CustodyNext

\* Readiness is about the votes on the order and the balances.
LEMMA ReadinessKept ==
  ASSUME NEW w \in Orders, balance' = balance,
         \A o \in Operators : vote'[<<w, o>>] = vote[<<w, o>>]
  PROVE  ReadyToSign(w)' <=> ReadyToSign(w)
<1>1. \A d \in {"approved", "denied"} : Votes(w, d)' = Votes(w, d)
  BY DEF Votes
<1> QED
  BY <1>1 DEF ReadyToSign

\* The inductive step: who looked last saw the last vote, or somebody changed
\* the order or the funds since.
LEMMA QuorumStep == QuorumInv /\ [CustodyNext]_custodyVars => QuorumInv'
<1> SUFFICES ASSUME QuorumInv, [CustodyNext]_custodyVars,
                    NEW w \in Orders \ touched', Waiting(w)'
             PROVE  ~ReadyToSign(w)'
  BY CustodyTypesHold DEF QuorumInv
<1>t. CustodyTypes /\ (w \notin touched /\ Waiting(w) => ~ReadyToSign(w))
  BY DEF QuorumInv
<1>1. ASSUME NEW v \in Orders, RequestWithdrawal(v) \/ \E s \in OrderStates : TransitionWithdrawal(v, s)
      PROVE  ~ReadyToSign(w)'
  <2>1. w # v /\ w \notin touched /\ balance' = balance /\ vote' = vote /\ call' = call
    BY <1>1 DEF RequestWithdrawal, TransitionWithdrawal
  <2>2. order'[w] = order[w]
    BY <1>1, <1>t, <2>1 DEF RequestWithdrawal, TransitionWithdrawal, CustodyTypes
  <2> QED
    BY <1>t, <2>1, <2>2, ReadinessKept DEF Waiting
<1>2. ASSUME NEW o \in Operators, NEW v \in Orders, NEW d \in {"approved", "denied"}, Decide(o, v, d)
      PROVE  ~ReadyToSign(w)'
  <2>1. w # v
    BY <1>2, <1>t DEF Decide, Waiting, CustodyTypes, Idle
  <2>2. w \notin touched /\ balance' = balance /\ \A p \in Operators : vote'[<<w, p>>] = vote[<<w, p>>]
    BY <1>2, <1>t, <2>1 DEF Decide, CustodyTypes
  <2>3. Waiting(w)
    BY <1>2, <1>t, CustodyAssumption DEF Decide, Waiting, CustodyTypes, Idle
  <2> QED
    BY <1>t, <2>2, <2>3, ReadinessKept
<1>3. ASSUME NEW o \in Operators, Evaluate(o) PROVE ~ReadyToSign(w)'
  <2>1. /\ balance' = balance /\ vote' = vote /\ order' = order
        /\ call' \in {call, [call EXCEPT ![o] = Idle], [call EXCEPT ![o].at = "ready"]}
        /\ call[o].order # w => w \notin touched
    BY <1>3, <1>t DEF Evaluate, CustodyTypes
  <2>2. CASE call[o].order = w
    <3>1. call'[o].order # w
      BY DEF Waiting
    <3>2. ~ReadyToSign(w)
      BY <1>3, <1>t, <2>2, <3>1 DEF Evaluate, Waiting, CustodyTypes, OrderStates
    <3> QED
      BY <2>1, <3>2, ReadinessKept
  <2>3. CASE call[o].order # w
    <3>1. Waiting(w)
      BY <1>3, <1>t, <2>1, <2>3 DEF Evaluate, Waiting, CustodyTypes
    <3> QED
      BY <1>t, <2>1, <2>3, <3>1, ReadinessKept
  <2> QED
    BY <2>2, <2>3
<1>4. ASSUME NEW o \in Operators, Look(o) PROVE ~ReadyToSign(w)'
  <2>1. balance' = balance /\ vote' = vote /\ order' = order /\ touched' = touched
    BY <1>4 DEF Look
  <2>2. Waiting(w)
    BY <1>4, <1>t, <2>1 DEF Look, Waiting, CustodyTypes, Idle
  <2> QED
    BY <1>t, <2>1, <2>2, ReadinessKept
<1>5. ASSUME NEW o \in Operators, Approve(o) PROVE ~ReadyToSign(w)'
  <2>1. balance' = balance /\ vote' = vote /\ touched' = touched
    BY <1>5 DEF Approve
  <2>2. call[o].order # w /\ order'[w] = order[w]
    BY <1>5, <1>t DEF Approve, Waiting, CustodyTypes
  <2>3. Waiting(w)
    BY <1>5, <1>t, <2>2 DEF Approve, Waiting, CustodyTypes
  <2> QED
    BY <1>t, <2>1, <2>3, ReadinessKept
<1>6. ASSUME NEW o \in Operators, NEW h \in Hots, NEW n \in Sent, CheckCold(o, h, n) PROVE ~ReadyToSign(w)'
  <2>1. balance' = balance /\ vote' = vote /\ order' = order /\ touched' = touched
    BY <1>6 DEF CheckCold
  <2>2. Waiting(w)
    BY <1>6, <1>t, <2>1, CustodyAssumption DEF CheckCold, Waiting, CustodyTypes, Idle
  <2> QED
    BY <1>t, <2>1, <2>2, ReadinessKept
<1>7. ASSUME \/ \E o \in Operators : Transfer(o)
             \/ \E a \in Hots \union {Cold}, n \in Granted : Configure(a, n)
      PROVE  ~ReadyToSign(w)'
  BY <1>7 DEF Transfer, Configure
<1>8. CASE UNCHANGED custodyVars
  BY <1>8, <1>t, ReadinessKept DEF custodyVars, Waiting
<1> QED
  BY <1>1, <1>2, <1>3, <1>4, <1>5, <1>6, <1>7, <1>8 DEF CustodyNext

\* For any number of operators, accounts and orders, deciding at the same time
\* misses no quorum (exchange.py:416-476).
THEOREM QuorumIsActedOn == CustodySpec => []QuorumActedOn
<1>1. QuorumInv => QuorumActedOn
  <2> SUFFICES ASSUME QuorumInv, NEW w \in Orders \ touched, Waiting(w)
               PROVE  \/ \E h \in Hots : Cardinality(Votes(w, "approved")) < MinApprovals[h]
                      \/ Votes(w, "approved") = {} \/ Votes(w, "denied") # {}
                      \/ \E h \in Hots : SingleLimit[h] # 0 /\ Due[w] > SingleLimit[h]
                      \/ \A h \in Hots : balance[h] < Due[w]
    BY DEF QuorumActedOn, Waiting
  <2>1. IsFiniteSet(Votes(w, "approved"))
    <3>1. IsFiniteSet(Operators) /\ Votes(w, "approved") \in SUBSET Operators
      BY CustodyAssumption DEF Votes
    <3> QED
      BY <3>1, FS_Subset
  <2>2. Cardinality(Votes(w, "approved")) \in Nat
        /\ (Cardinality(Votes(w, "approved")) = 0 => Votes(w, "approved") = {})
    BY <2>1, FS_CardinalityType, FS_EmptySet
  <2>3. ~ReadyToSign(w) /\ CustodyTypes
    BY DEF QuorumInv
  <2> QED
    BY <2>2, <2>3, CustodyAssumption DEF ReadyToSign, CustodyTypes
<1> QED
  BY <1>1, CustodyInitially, QuorumStep, PTL DEF CustodySpec

-----------------------------------------------------------------------------
(* Download jobs: no order of headers, plans, answers, failures and sweeps   *)
(* gives a job up early, asks for it without end, or leaves it with a peer   *)
(* marked bad.                                                               *)

JobType ==
  [status : {"none", "queued", "retry", "downloading", "done", "failed"},
   peer : {"nobody"} \union Addresses \union Sources, attempts : Nat, age : Int]

SyncTypes ==
  /\ jobs \in [Blocks -> JobType]
  /\ bad \in SUBSET Addresses
  /\ asked \in [Blocks -> Nat]

\* What may be asked for in all: each marked peer may cost one request more.
Allowed == MaxRequests + Cardinality(bad)

JobFine(b) ==
  /\ jobs[b].status \in {"none", "queued"} => jobs[b].attempts = 0
  /\ jobs[b].status = "retry" => jobs[b].attempts < Allowed
  /\ jobs[b].status = "downloading" => jobs[b].peer \notin bad
  /\ jobs[b].status = "failed" => jobs[b].attempts >= MaxRequests
  /\ jobs[b].attempts <= Allowed
  /\ asked[b] <= jobs[b].attempts

\* Inductive: a job that waits for a retry has a request to spare.
SyncInv == SyncTypes /\ \A b \in Blocks : JobFine(b)

\* The number of marked peers, and what marking one does to it.
LEMMA BadCount ==
  ASSUME bad \in SUBSET Addresses, NEW a \in Addresses
  PROVE  /\ Cardinality(bad) \in Nat
         /\ Cardinality(bad \union {a}) \in Nat
         /\ a \in bad => Cardinality(bad \union {a}) = Cardinality(bad) /\ Cardinality(bad) > 0
         /\ a \notin bad => Cardinality(bad \union {a}) = Cardinality(bad) + 1
<1>1. IsFiniteSet(bad)
  BY FS_Subset, SchedulerAssumption
<1>2. Cardinality(bad) \in Nat
  BY <1>1, FS_CardinalityType
<1>3. CASE a \in bad
  <2>1. bad \union {a} = bad /\ bad # {}
    BY <1>3
  <2>2. Cardinality(bad) # 0
    BY <1>1, <2>1, FS_EmptySet
  <2>3. Cardinality(bad \union {a}) = Cardinality(bad)
    BY <2>1
  <2> QED
    BY <1>2, <1>3, <2>2, <2>3
<1>4. CASE a \notin bad
  <2>1. Cardinality(bad \union {a}) = Cardinality(bad) + 1
    BY <1>1, <1>4, FS_AddElement
  <2> QED
    BY <1>2, <1>4, <2>1
<1> QED
  BY <1>3, <1>4

LEMMA AllowedType ==
  ASSUME bad \in SUBSET Addresses
  PROVE  Allowed \in Nat /\ Allowed > 0
<1>1. Cardinality(bad) \in Nat
  BY FS_Subset, FS_CardinalityType, SchedulerAssumption
<1> QED
  BY <1>1, SchedulerAssumption DEF Allowed

LEMMA SyncInitially == SyncInit => SyncInv
<1> SUFFICES ASSUME SyncInit PROVE SyncInv
  OBVIOUS
<1>1. SyncTypes
  BY DEF SyncInit, SyncTypes, JobType, NoJob
<1>2. Allowed \in Nat
  BY <1>1, AllowedType DEF SyncTypes
<1>3. \A b \in Blocks : JobFine(b)
  BY <1>2 DEF SyncInit, NoJob, JobFine
<1> QED
  BY <1>1, <1>3 DEF SyncInv

\* Headers that link: only blocks without a job get one.
LEMMA HeadersKeep ==
  ASSUME SyncInv, NEW a \in Addresses, NEW top \in Blocks, RecordHeaders(a, top)
  PROVE  SyncInv'
<1>1. SyncTypes'
  BY SchedulerAssumption DEF SyncInv, SyncTypes, JobType, RecordHeaders, Old
<1>2. Allowed \in Nat /\ Allowed' = Allowed
  BY AllowedType DEF SyncInv, SyncTypes, RecordHeaders, Allowed
<1>3. ASSUME NEW b \in Blocks PROVE JobFine(b)'
  <2>1. JobFine(b) /\ jobs[b] \in JobType /\ asked'[b] = asked[b] /\ bad' = bad
    BY DEF SyncInv, SyncTypes, RecordHeaders
  <2>2. CASE jobs'[b] = jobs[b]
    BY <1>2, <2>1, <2>2 DEF JobFine
  <2>3. CASE jobs'[b] # jobs[b]
    <3>1. jobs[b] = NoJob /\ jobs'[b].status = "queued" /\ jobs'[b].attempts = 0
      BY <2>3 DEF RecordHeaders, SyncInv, SyncTypes
    <3> QED
      BY <1>2, <2>1, <3>1 DEF JobFine, NoJob
  <2> QED
    BY <2>2, <2>3
<1> QED
  BY <1>1, <1>3 DEF SyncInv

\* Marking a peer takes its running jobs back and allows one request more.
LEMMA MarkingKeeps ==
  ASSUME SyncInv, NEW a \in Addresses, BadHeaders(a)
  PROVE  SyncInv'
<1>1. SyncTypes'
  BY DEF SyncInv, SyncTypes, JobType, BadHeaders, MarkedBad
<1>2. /\ Allowed \in Nat /\ Allowed' \in Nat /\ Allowed <= Allowed'
      /\ a \notin bad => Allowed' = Allowed + 1
  <2>1. bad \in SUBSET Addresses /\ bad' = bad \union {a}
    BY DEF SyncInv, SyncTypes, BadHeaders
  <2> QED
    BY <2>1, BadCount, SchedulerAssumption DEF Allowed
<1>3. Allowed > 0
  BY AllowedType DEF SyncInv, SyncTypes
<1>4. ASSUME NEW b \in Blocks PROVE JobFine(b)'
  <2>1. JobFine(b) /\ jobs[b] \in JobType /\ asked'[b] = asked[b] /\ bad' = bad \union {a}
    BY DEF SyncInv, SyncTypes, BadHeaders
  <2>2. asked[b] \in Nat /\ jobs[b].attempts \in Nat
    BY <2>1 DEF SyncInv, SyncTypes, JobType
  <2>3. CASE jobs[b].peer = a /\ jobs[b].status \notin {"none", "done", "failed"}
    <3>1. jobs'[b].status = "retry" /\ jobs'[b].attempts = jobs[b].attempts
      BY <2>1, <2>3 DEF BadHeaders, MarkedBad, JobType
    <3>2. jobs[b].attempts < Allowed'
      <4>1. jobs[b].status \in {"queued", "retry", "downloading"}
        BY <2>1, <2>3 DEF JobType
      <4>2. CASE jobs[b].status = "downloading"
        BY <1>2, <2>1, <2>2, <2>3, <4>2 DEF JobFine
      <4>3. CASE jobs[b].status \in {"queued", "retry"}
        BY <1>2, <1>3, <2>1, <2>2, <4>3 DEF JobFine
      <4> QED
        BY <4>1, <4>2, <4>3
    <3> QED
      BY <2>1, <2>2, <3>1, <3>2, <1>2 DEF JobFine
  <2>4. CASE ~(jobs[b].peer = a /\ jobs[b].status \notin {"none", "done", "failed"})
    <3>1. jobs'[b] = jobs[b]
      BY <2>4 DEF BadHeaders, MarkedBad
    <3>2. jobs[b].status = "downloading" => jobs[b].peer \notin bad'
      BY <2>1, <2>4 DEF JobFine
    <3> QED
      BY <1>2, <2>1, <2>2, <3>1, <3>2 DEF JobFine
  <2> QED
    BY <2>3, <2>4
<1> QED
  BY <1>1, <1>4 DEF SyncInv

\* A plan: what was ready is asked of a peer that is not marked.
LEMMA AssignKeeps ==
  ASSUME SyncInv, Assign
  PROVE  SyncInv'
<1>1. PICK S \in Selections(db) : \E to \in [Ready -> S \ bad] :
        /\ jobs' = [b \in Blocks |->
                      IF b \in Ready
                      THEN [status |-> "downloading", peer |-> to[b], attempts |-> jobs[b].attempts + 1, age |-> 0]
                      ELSE jobs[b]]
        /\ asked' = [b \in Blocks |-> IF b \in Ready THEN asked[b] + 1 ELSE asked[b]]
        /\ bad' = bad
  BY Zenon DEF Assign
<1>2. PICK to \in [Ready -> S \ bad] :
        /\ jobs' = [b \in Blocks |->
                      IF b \in Ready
                      THEN [status |-> "downloading", peer |-> to[b], attempts |-> jobs[b].attempts + 1, age |-> 0]
                      ELSE jobs[b]]
        /\ asked' = [b \in Blocks |-> IF b \in Ready THEN asked[b] + 1 ELSE asked[b]]
        /\ bad' = bad
  BY <1>1
<1>3. S \subseteq Sources
  BY DEF Selections, Candidates
<1>4. SyncTypes'
  BY <1>2, <1>3 DEF SyncInv, SyncTypes, JobType
<1>5. Allowed \in Nat /\ Allowed > 0 /\ Allowed' = Allowed
  BY <1>2, AllowedType DEF SyncInv, SyncTypes, Allowed
<1>6. ASSUME NEW b \in Blocks PROVE JobFine(b)'
  <2>1. JobFine(b) /\ jobs[b] \in JobType /\ bad' = bad /\ asked[b] \in Nat
    BY <1>2 DEF SyncInv, SyncTypes
  <2>2. CASE b \in Ready
    <3>1. jobs[b].status \in {"queued", "retry"}
      BY <2>2 DEF Ready, Known
    <3>2. /\ jobs'[b].status = "downloading" /\ jobs'[b].peer = to[b]
          /\ jobs'[b].attempts = jobs[b].attempts + 1 /\ asked'[b] = asked[b] + 1
      BY <1>2, <2>2
    <3>3. to[b] \notin bad'
      BY <1>2, <2>2
    <3>4. jobs[b].attempts + 1 <= Allowed
      BY <1>5, <2>1, <3>1 DEF JobFine, JobType
    <3> QED
      BY <1>5, <2>1, <3>2, <3>3, <3>4 DEF JobFine, JobType
  <2>3. CASE b \notin Ready
    BY <1>2, <1>5, <2>1, <2>3 DEF JobFine
  <2> QED
    BY <2>2, <2>3
<1> QED
  BY <1>4, <1>6 DEF SyncInv

\* An answer, a failure and a sweep, whenever they come: the attempts stay.
LEMMA AnswersKeep ==
  ASSUME SyncInv, NEW b \in Blocks, BodyArrives(b) \/ BodyFails(b)
  PROVE  SyncInv'
<1>1. SyncTypes'
  BY DEF SyncInv, SyncTypes, JobType, BodyArrives, BodyFails, AfterFailure
<1>2. Allowed \in Nat /\ Allowed' = Allowed /\ MaxRequests \in Nat /\ Allowed >= MaxRequests
  <2>1. Cardinality(bad) \in Nat
    BY FS_Subset, FS_CardinalityType, SchedulerAssumption DEF SyncInv, SyncTypes
  <2> QED
    BY <2>1, SchedulerAssumption DEF Allowed, BodyArrives, BodyFails
<1>3. ASSUME NEW c \in Blocks PROVE JobFine(c)'
  <2>1. /\ JobFine(c) /\ jobs[c].attempts \in Nat /\ asked[c] \in Nat /\ bad' = bad
        /\ jobs'[c].attempts = jobs[c].attempts /\ asked'[c] <= asked[c]
    BY DEF SyncInv, SyncTypes, JobType, BodyArrives, BodyFails
  <2>2. CASE c # b
    <3>1. jobs'[c] = jobs[c]
      BY <2>2 DEF SyncInv, SyncTypes, BodyArrives, BodyFails
    <3> QED
      BY <1>1, <1>2, <2>1, <3>1 DEF JobFine, SyncTypes
  <2>3. CASE c = b
    <3>1. \/ jobs'[c].status = "done"
          \/ jobs'[c].status = "failed" /\ jobs[c].attempts >= MaxRequests
          \/ jobs'[c].status = "retry" /\ jobs[c].attempts < MaxRequests
      BY <1>2, <2>1, <2>3 DEF SyncInv, SyncTypes, JobType, BodyArrives, BodyFails, AfterFailure
    <3> QED
      BY <1>1, <1>2, <2>1, <3>1 DEF JobFine, SyncTypes
  <2> QED
    BY <2>2, <2>3
<1> QED
  BY <1>1, <1>3 DEF SyncInv

LEMMA SweepKeeps ==
  ASSUME SyncInv, RetryStalled
  PROVE  SyncInv'
<1>1. SyncTypes'
  BY DEF SyncInv, SyncTypes, JobType, RetryStalled, AfterFailure
<1>2. Allowed \in Nat /\ Allowed' = Allowed /\ MaxRequests \in Nat /\ Allowed >= MaxRequests
  <2>1. Cardinality(bad) \in Nat
    BY FS_Subset, FS_CardinalityType, SchedulerAssumption DEF SyncInv, SyncTypes
  <2> QED
    BY <2>1, SchedulerAssumption DEF Allowed, RetryStalled
<1>3. ASSUME NEW c \in Blocks PROVE JobFine(c)'
  <2>1. JobFine(c) /\ jobs[c].attempts \in Nat /\ asked'[c] = asked[c] /\ bad' = bad
    BY DEF SyncInv, SyncTypes, JobType, RetryStalled
  <2>2. CASE c \notin Stalled
    BY <1>2, <2>1, <2>2 DEF JobFine, RetryStalled
  <2>3. CASE c \in Stalled
    <3>1. /\ jobs'[c].attempts = jobs[c].attempts
          /\ \/ jobs'[c].status = "failed" /\ jobs[c].attempts >= MaxRequests
             \/ jobs'[c].status = "retry" /\ jobs[c].attempts < MaxRequests
      BY <1>2, <2>1, <2>3 DEF SyncInv, SyncTypes, JobType, RetryStalled, AfterFailure
    <3> QED
      BY <1>2, <2>1, <3>1 DEF JobFine
  <2> QED
    BY <2>2, <2>3
<1> QED
  BY <1>1, <1>3 DEF SyncInv

LEMMA TickKeeps ==
  ASSUME SyncInv, SyncTick
  PROVE  SyncInv'
<1>1. SyncTypes'
  <2>1. ASSUME NEW b \in Blocks PROVE jobs'[b] \in JobType
    <3>1. jobs[b] \in JobType
      BY DEF SyncInv, SyncTypes
    <3>2. CASE b \in Known /\ jobs[b].age < Old
      BY <3>1, <3>2 DEF SyncTick, JobType
    <3>3. CASE ~(b \in Known /\ jobs[b].age < Old)
      BY <3>1, <3>3 DEF SyncTick, JobType
    <3> QED
      BY <3>2, <3>3
  <2> QED
    BY <2>1 DEF SyncInv, SyncTypes, SyncTick
<1>2. Allowed' = Allowed
  BY DEF Allowed, SyncTick
<1>3. ASSUME NEW c \in Blocks PROVE JobFine(c)'
  <2>1. /\ JobFine(c) /\ asked' = asked /\ bad' = bad
        /\ jobs'[c].status = jobs[c].status /\ jobs'[c].peer = jobs[c].peer
        /\ jobs'[c].attempts = jobs[c].attempts
    BY DEF SyncInv, SyncTypes, JobType, SyncTick
  <2> QED
    BY <1>2, <2>1 DEF JobFine
<1> QED
  BY <1>1, <1>3 DEF SyncInv

\* The inductive invariant holds of every scheduler, whatever its transport does.
THEOREM SyncInvariant == SyncSpec => []SyncInv
<1>1. SyncInv /\ [SyncNext]_syncVars => SyncInv'
  <2> SUFFICES ASSUME SyncInv, [SyncNext]_syncVars
               PROVE  SyncInv'
    OBVIOUS
  <2>1. CASE UNCHANGED syncVars
    BY <2>1 DEF syncVars, SyncInv, SyncTypes, JobFine, Allowed
  <2>2. CASE SyncNext
    BY <2>2, HeadersKeep, MarkingKeeps, AssignKeeps, SweepKeeps, TickKeeps, AnswersKeep DEF SyncNext
  <2> QED
    BY <2>1, <2>2
<1> QED
  BY <1>1, SyncInitially, PTL DEF SyncSpec

\* No job is given up before max_attempts requests or asked for without end, and
\* none is downloaded from a peer that is marked bad (sync.py:248-336).
THEOREM JobsStaySound == SyncSpec => []JobsSound
<1>1. SyncInv => JobsSound
  BY DEF SyncInv, JobFine, Allowed, JobsSound, BadPeersReleased, AttemptsCounted, Known
<1> QED
  BY <1>1, SyncInvariant, PTL

(* ------------------------------- the mining pool ------------------------------- *)
LEMMA Floors ==
  ASSUME NEW a \in Nat, NEW b \in Nat, b > 0
  PROVE  a \div b \in Nat /\ (a \div b) * b <= a /\ a <= (a \div b + 1) * b
<1>1. a \div b \in Nat /\ (a \div b) * b <= a /\ a < (a \div b) * b + b
  OBVIOUS
<1>2. (a \div b + 1) * b = (a \div b) * b + b
  BY <1>1
<1> QED
  BY <1>1, <1>2

LEMMA CancelFactor ==
  ASSUME NEW x \in Int, NEW y \in Int, NEW b \in Nat, b > 0, x * b <= y * b
  PROVE  x <= y
OBVIOUS

LEMMA GrowFactor ==
  ASSUME NEW x \in Int, NEW y \in Int, NEW b \in Nat, x <= y
  PROVE  x * b <= y * b
OBVIOUS

ShareType == [miner : Miners, weight : Nat \ {0}]

LEMMA SharesTyped ==
  ASSUME NEW shares \in Seq(ShareType)
  PROVE  /\ IsFiniteSet(DOMAIN shares)
         /\ \A i \in DOMAIN shares : /\ i \in Int /\ shares[i].miner \in Miners /\ shares[i].miner \in Int
                                     /\ shares[i].weight \in Nat /\ shares[i].weight > 0
         /\ shares # <<>> => DOMAIN shares # {}
<1>1. DOMAIN shares = 1..Len(shares) /\ Len(shares) \in Nat /\ (shares # <<>> => Len(shares) # 0)
  OBVIOUS
<1>2. IsFiniteSet(1..Len(shares))
  BY <1>1, FS_Interval
<1>3. \A i \in DOMAIN shares : shares[i] \in ShareType
  OBVIOUS
<1>4. \A s \in ShareType : s.miner \in Miners /\ s.weight \in Nat /\ s.weight > 0
  <2>1. \A s \in ShareType : s.miner \in Miners /\ s.weight \in Nat \ {0}
    BY DEF ShareType
  <2> QED
    BY <2>1
<1>5. Miners \subseteq Int
  <2>1. Miners \subseteq Nat
    BY PoolAssumption
  <2> QED
    BY <2>1
<1>6. \A i \in DOMAIN shares : shares[i].miner \in Miners /\ shares[i].weight \in Nat /\ shares[i].weight > 0
  BY <1>3, <1>4
<1>7. \A i \in DOMAIN shares : i \in Int
  BY <1>1
<1>8. shares # <<>> => DOMAIN shares # {}
  <2>1. shares # <<>> => 1 \in 1..Len(shares)
    BY <1>1
  <2> QED
    BY <1>1, <2>1
<1>9. IsFiniteSet(DOMAIN shares)
  BY <1>1, <1>2
<1> QED
  BY <1>5, <1>6, <1>7, <1>8, <1>9

\* The last of the shares, sorted by miner, whatever the shares are.
LEMMA LastShare ==
  ASSUME NEW shares \in Seq(ShareType), shares # <<>>
  PROVE  \E i \in DOMAIN shares : \A k \in DOMAIN shares :
           shares[k].miner < shares[i].miner \/ (shares[k].miner = shares[i].miner /\ k <= i)
<1> DEFINE D == DOMAIN shares
           miner == [i \in D |-> shares[i].miner]
<1>1. IsFiniteSet(D) /\ D # {} /\ D \subseteq Int
  BY SharesTyped
<1>2. \A i \in D : shares[i].miner \in Int
  BY SharesTyped
<1>3. PICK m \in D : \A k \in D : miner[k] <= miner[m]
  <2>1. \A i \in D : miner[i] \in Int
    BY <1>2
  <2> QED
    BY <1>1, <2>1, LargestElement
<1> DEFINE top == {i \in D : shares[i].miner = shares[m].miner}
           place == [i \in D |-> i]
<1>4. PICK i \in top : \A k \in top : place[k] <= place[i]
  <2>1. IsFiniteSet(top) /\ m \in top /\ \A k \in top : place[k] \in Int
    BY <1>1, FS_Subset
  <2> HIDE DEF top, place
  <2> QED
    BY <2>1, LargestElement
<1>5. \A k \in D : shares[k].miner < shares[i].miner \/ (shares[k].miner = shares[i].miner /\ k <= i)
  <2> SUFFICES ASSUME NEW k \in D
               PROVE  shares[k].miner < shares[i].miner \/ (shares[k].miner = shares[i].miner /\ k <= i)
    OBVIOUS
  <2>1. shares[k].miner <= shares[m].miner /\ shares[i].miner = shares[m].miner
    BY <1>3, <1>4
  <2>2. CASE k \in top
    BY <1>4, <2>1, <2>2
  <2>3. CASE k \notin top
    BY <1>2, <1>4, <2>1, <2>3
  <2> QED
    BY <2>2, <2>3
<1> QED
  BY <1>4, <1>5

\* The parts of the shares: integers, together the reward, none short by more
\* than one of what its weight is worth.
LEMMA PartsExact ==
  ASSUME NEW shares \in Seq(ShareType), shares # <<>>, NEW R \in Nat
  PROVE  LET D == DOMAIN shares
             W == Weight(shares, D)
         IN  /\ W \in Nat
             /\ \A i \in D : /\ Parts(shares, R)[i] \in Int
                             /\ (Parts(shares, R)[i] + 1) * W >= R * shares[i].weight
             /\ SumFunctionOnSet(Parts(shares, R), D) = R
<1> DEFINE D == DOMAIN shares
           w == [i \in D |-> shares[i].weight]
           W == Weight(shares, D)
           floors == [i \in D |-> (R * shares[i].weight) \div W]
           last == CHOOSE i \in D : \A k \in D :
                     shares[k].miner < shares[i].miner \/ (shares[k].miner = shares[i].miner /\ k <= i)
           rest == R - SumFunctionOnSet(floors, D \ {last})
           p == Parts(shares, R)
<1>1. IsFiniteSet(D) /\ \A i \in D : w[i] \in Nat /\ w[i] > 0 /\ w[i] = shares[i].weight
  BY SharesTyped
<1>2. last \in D
  BY LastShare
<1>3. W \in Nat /\ W > 0 /\ W = SumFunctionOnSet(w, D)
  <2>1. W = SumFunctionOnSet(w, D)
    BY DEF Weight
  <2> HIDE DEF w, last, D, W
  <2>2. SumFunctionOnSet(w, D) = w[last] + SumFunctionOnSet(w, D \ {last})
    BY <1>1, <1>2, SumTakeOut
  <2>3. SumFunctionOnSet(w, D \ {last}) \in Nat
    BY <1>1, SumNat, FS_Subset
  <2> QED
    BY <1>1, <1>2, <2>1, <2>2, <2>3
<1>4. p = [floors EXCEPT ![last] = rest]
  BY DEF Parts
<1> HIDE DEF last, p, W, w
<1>5. \A i \in D : /\ floors[i] \in Int /\ R * w[i] \in Nat
                   /\ floors[i] * W <= R * w[i] /\ R * w[i] <= (floors[i] + 1) * W
  <2> SUFFICES ASSUME NEW i \in D
               PROVE  /\ floors[i] \in Int /\ R * w[i] \in Nat
                      /\ floors[i] * W <= R * w[i] /\ R * w[i] <= (floors[i] + 1) * W
    OBVIOUS
  <2>1. R * w[i] \in Nat
    BY <1>1
  <2>2. floors[i] = (R * w[i]) \div W
    BY <1>1
  <2> HIDE DEF floors
  <2>3. \A a \in Nat : a \div W \in Nat /\ (a \div W) * W <= a /\ a <= (a \div W + 1) * W
    BY <1>3, Floors
  <2>4. floors[i] \in Nat
    BY <2>1, <2>2, <2>3
  <2>5. floors[i] * W <= R * w[i] /\ R * w[i] <= (floors[i] + 1) * W
    BY <2>1, <2>2, <2>3
  <2> QED
    BY <2>1, <2>4, <2>5
<1> HIDE DEF floors
<1>6. SumFunctionOnSet(floors, D) <= R
  <2>1. SumFunctionOnSet(floors, D) * W <= R * SumFunctionOnSet(w, D)
    <3>1. \A i \in D : floors[i] \in Int /\ w[i] \in Int /\ floors[i] * W <= R * w[i]
      BY <1>1, <1>5
    <3> HIDE DEF D
    <3> QED
      BY <1>1, <1>3, <3>1, PartsFit
  <2>2. SumFunctionOnSet(floors, D) \in Int
    BY <1>1, <1>5, SumInt
  <2> QED
    BY <1>3, <2>1, <2>2, CancelFactor
<1>7. /\ SumFunctionOnSet(floors, D \ {last}) \in Int
      /\ SumFunctionOnSet(floors, D) = floors[last] + SumFunctionOnSet(floors, D \ {last})
  <2>1. IsFiniteSet(D \ {last})
    BY <1>1, FS_Subset
  <2> QED
    BY <1>1, <1>2, <1>5, <2>1, SumInt, SumTakeOut
<1>8. floors[last] <= rest /\ rest \in Int /\ floors[last] \in Int
  BY <1>2, <1>5, <1>6, <1>7
<1>9. \A i \in D : p[i] \in Int /\ floors[i] <= p[i] /\ (i # last => p[i] = floors[i])
  <2>1. DOMAIN floors = D
    BY DEF floors
  <2> QED
    BY <1>4, <1>5, <1>8, <2>1
<1>10. \A i \in D : (p[i] + 1) * W >= R * shares[i].weight
  <2> SUFFICES ASSUME NEW i \in D
               PROVE  (p[i] + 1) * W >= R * shares[i].weight
    OBVIOUS
  <2>1. (floors[i] + 1) * W <= (p[i] + 1) * W
    BY <1>3, <1>5, <1>9, GrowFactor
  <2>2. (floors[i] + 1) * W \in Int /\ (p[i] + 1) * W \in Int
    BY <1>3, <1>5, <1>9
  <2> QED
    BY <1>1, <1>5, <2>1, <2>2, SMTT(30)
<1>11. SumFunctionOnSet(p, D) = R
  <2>1. SumFunctionOnSet(p, D) = p[last] + SumFunctionOnSet(p, D \ {last})
    BY <1>1, <1>2, <1>9, SumTakeOut
  <2>2. SumFunctionOnSet(p, D \ {last}) = SumFunctionOnSet(floors, D \ {last})
    <3>1. IsFiniteSet(D \ {last}) /\ \A x \in D \ {last} : p[x] \in Int /\ p[x] = floors[x]
      BY <1>1, <1>9, FS_Subset
    <3> QED
      BY <3>1, SumEqual
  <2>3. p[last] = rest
    <3>1. DOMAIN floors = D
      BY DEF floors
    <3> QED
      BY <1>2, <1>4, <3>1
  <2> QED
    BY <1>7, <2>1, <2>2, <2>3
<1> QED
  BY <1>3, <1>9, <1>10, <1>11 DEF p, W

\* The plan of any shares.
LEMMA PlanOfShares ==
  ASSUME NEW shares \in Seq(ShareType), shares # <<>>, NEW R \in Nat
  PROVE  /\ SumFunctionOnSet(Payouts(shares, R), Miners) = R
         /\ \A m \in Miners :
              (Payouts(shares, R)[m] + Cardinality(SharesOf(shares, m))) * Weight(shares, DOMAIN shares)
                >= R * Weight(shares, SharesOf(shares, m))
<1> DEFINE D == DOMAIN shares
           W == Weight(shares, D)
           p == Parts(shares, R)
           part == [m \in Miners |-> SharesOf(shares, m)]
<1>1. /\ W \in Nat /\ SumFunctionOnSet(p, D) = R
      /\ \A i \in D : p[i] \in Int /\ (p[i] + 1) * W >= R * shares[i].weight
  BY PartsExact
<1>2. IsFiniteSet(D) /\ \A i \in D : shares[i].weight \in Nat /\ shares[i].miner \in Miners
  BY SharesTyped
<1>3. \A m \in Miners : part[m] = SharesOf(shares, m) /\ part[m] \subseteq D /\ IsFiniteSet(part[m])
  BY <1>2, FS_Subset DEF SharesOf
<1>4. SumFunctionOnSet(Payouts(shares, R), Miners) = R
  <2>1. \A i \in D : shares[i].miner \in Miners /\ i \in part[shares[i].miner]
    BY <1>2 DEF SharesOf
  <2>2. \A m \in Miners : part[m] \subseteq D /\ IsFiniteSet(part[m])
    BY <1>3
  <2>3. \A m, n \in Miners : m # n => part[m] \cap part[n] = {}
    BY DEF SharesOf
  <2>4. \A m \in Miners : Payouts(shares, R)[m] = SumFunctionOnSet(p, part[m])
    BY DEF Payouts
  <2>5. IsFiniteSet(Miners)
    BY PoolAssumption
  <2> DEFINE pay == Payouts(shares, R)
  <2> HIDE DEF part, p, D, pay, W
  <2>6. \A i \in D : \E m \in Miners : i \in part[m]
    BY <2>1
  <2>7. (\A i \in D : p[i] \in Int) /\ (\A m \in Miners : pay[m] = SumFunctionOnSet(p, part[m]))
    BY <1>1, <2>4 DEF pay
  <2>8. PartsOf(D, Miners, part)
    BY <2>2, <2>3, <2>6 DEF PartsOf
  <2>9. SumFunctionOnSet(p, D) = SumFunctionOnSet(pay, Miners)
    BY <2>5, <2>7, <2>8, SumOfPartition
  <2> QED
    BY <1>1, <2>9 DEF pay
<1>5. ASSUME NEW m \in Miners
      PROVE  (Payouts(shares, R)[m] + Cardinality(SharesOf(shares, m))) * W >= R * Weight(shares, SharesOf(shares, m))
  <2> DEFINE S == SharesOf(shares, m)
             w == [i \in S |-> shares[i].weight]
  <2>1. Payouts(shares, R)[m] = SumFunctionOnSet(p, S) /\ Weight(shares, S) = SumFunctionOnSet(w, S)
    BY DEF Payouts, Weight
  <2>2. \A i \in S : i \in D /\ p[i] \in Int /\ w[i] \in Int /\ (p[i] + 1) * W >= R * w[i]
    BY <1>1, <1>2 DEF SharesOf
  <2>3. IsFiniteSet(S)
    BY <1>3
  <2> HIDE DEF S, w, p, W
  <2>4. (SumFunctionOnSet(p, S) + Cardinality(S)) * W >= R * SumFunctionOnSet(w, S)
    BY <1>1, <2>2, <2>3, PartsShort
  <2> QED
    BY <2>1, <2>4 DEF S
<1> QED
  BY <1>4, <1>5

\* The blocks, and whether one has earned its reward when the tip is as given.
PoolTree == PoolBlocks \union {0}
Earned(b, tip) == b \in ChainTo[tip] \/ BlockHeight[b] < BlockHeight[tip]

\* Inductive: a submission that waits for its record with an accepted block has
\* earned its reward as one that is recorded has.
PoolInv ==
  /\ poolTip \in PoolTree /\ poolKnown \subseteq PoolBlocks
  /\ poolShares \in Seq(ShareType) /\ rewarded \in Seq(PoolBlocks)
  /\ submission \in [Threads -> [miner : Miners, block : PoolBlocks, accepted : BOOLEAN] \union {NoSubmission}]
  /\ \A i \in DOMAIN rewarded : Earned(rewarded[i], poolTip)
  /\ \A t \in Threads : submission[t].accepted => Earned(submission[t].block, poolTip)

\* Chains: what lies on the way to a block is no higher; the genesis stands alone.
LEMMA ChainHeights ==
  ASSUME NEW c \in PoolTree, NEW b \in ChainTo[c]
  PROVE  b \in PoolTree /\ BlockHeight[b] <= BlockHeight[c]
<1> DEFINE low == {d \in PoolTree : BlockHeight[d] <= BlockHeight[c]}
           closed == {S \in SUBSET PoolTree : \A d \in S \ {0} : BlockParent[d] \in S}
<1>1. \A d \in PoolTree : BlockHeight[d] \in Nat
  BY PoolAssumption DEF PoolTree
<1>2. \A d \in PoolTree \ {0} : BlockParent[d] \in PoolTree /\ BlockHeight[BlockParent[d]] < BlockHeight[d]
  BY PoolAssumption DEF PoolTree
<1>3. \A d \in low \ {0} : BlockParent[d] \in low
  <2> SUFFICES ASSUME NEW d \in low, d # 0 PROVE BlockParent[d] \in low
    OBVIOUS
  <2>1. BlockHeight[BlockParent[d]] < BlockHeight[d] /\ BlockHeight[d] <= BlockHeight[c] /\ BlockParent[d] \in PoolTree
    BY <1>2
  <2> QED
    BY <1>1, <2>1
<1>4. low \in closed /\ c \in low
  BY <1>1, <1>3
<1>5. ChainTo[c] = {d \in PoolTree : \A S \in closed : c \in S => d \in S}
  BY DEF ChainTo, PoolTree
<1> QED
  BY <1>4, <1>5

LEMMA ChainToGenesis == ChainTo[0] \subseteq {0}
<1> DEFINE closed == {S \in SUBSET PoolTree : \A d \in S \ {0} : BlockParent[d] \in S}
<1>1. {0} \in closed
  BY DEF PoolTree
<1>2. ChainTo[0] = {d \in PoolTree : \A S \in closed : 0 \in S => d \in S}
  BY DEF ChainTo, PoolTree
<1> QED
  BY <1>1, <1>2

\* The chain moves to a higher block or stays.
LEMMA TipMoves ==
  ASSUME PoolInv, NEW b \in PoolBlocks
  PROVE  /\ AddBlock(b).tip \in PoolTree
         /\ AddBlock(b).tip = poolTip \/ BlockHeight[AddBlock(b).tip] > BlockHeight[poolTip]
         /\ AddBlock(b).ok => b \in ChainTo[AddBlock(b).tip]
<1> DEFINE all == poolKnown \union {0, b}
           joined == {c \in all : ChainTo[c] \subseteq all}
           top == CHOOSE c \in joined : \A d \in joined : BlockHeight[d] <= BlockHeight[c]
           best == IF BlockHeight[top] > BlockHeight[poolTip] THEN top ELSE poolTip
<1>1. AddBlock(b) = [tip |-> best, ok |-> b \in ChainTo[best]]
  BY DEF AddBlock
<1>2. top \in PoolTree
  <2>1. joined \subseteq PoolTree /\ IsFiniteSet(joined)
    <3>1. all \subseteq PoolTree
      BY DEF PoolInv, PoolTree
    <3>2. IsFiniteSet(PoolTree)
      BY PoolAssumption, FS_AddElement DEF PoolTree
    <3> QED
      BY <3>1, <3>2, FS_Subset
  <2>2. 0 \in joined
    BY ChainToGenesis
  <2>3. \A c \in joined : BlockHeight[c] \in Int
    <3>1. \A c \in PoolTree : BlockHeight[c] \in Int
      BY PoolAssumption DEF PoolTree
    <3> HIDE DEF joined
    <3> QED
      BY <2>1, <3>1
  <2> HIDE DEF joined
  <2>4. \E c \in joined : \A d \in joined : BlockHeight[d] <= BlockHeight[c]
    BY <2>1, <2>2, <2>3, LargestElement
  <2> QED
    BY <2>1, <2>4
<1> HIDE DEF top
<1>3. best \in PoolTree /\ (best = poolTip \/ BlockHeight[best] > BlockHeight[poolTip])
  BY <1>2 DEF PoolInv
<1>4. AddBlock(b).tip = best /\ (AddBlock(b).ok => b \in ChainTo[best])
  <2> HIDE DEF best
  <2>1. AddBlock(b).tip = best /\ AddBlock(b).ok = (b \in ChainTo[best])
    BY <1>1
  <2> QED
    BY <2>1
<1> QED
  BY <1>3, <1>4

\* What was earned stays earned when the chain moves.
LEMMA EarnedStays ==
  ASSUME PoolInv, poolTip' \in PoolTree,
         poolTip' = poolTip \/ BlockHeight[poolTip'] > BlockHeight[poolTip]
  PROVE  \A b \in PoolBlocks : Earned(b, poolTip) => Earned(b, poolTip')
<1> SUFFICES ASSUME NEW b \in PoolBlocks, Earned(b, poolTip), poolTip' # poolTip
             PROVE  BlockHeight[b] < BlockHeight[poolTip']
  BY DEF Earned
<1>1. BlockHeight[b] \in Nat /\ BlockHeight[poolTip] \in Nat /\ BlockHeight[poolTip'] \in Nat
  BY PoolAssumption DEF PoolInv, PoolTree
<1>2. BlockHeight[b] <= BlockHeight[poolTip]
  BY <1>1, ChainHeights DEF Earned, PoolInv
<1> QED
  BY <1>1, <1>2

LEMMA PoolInitially == PoolInit => PoolInv
<1> SUFFICES ASSUME PoolInit PROVE PoolInv
  OBVIOUS
<1>1. poolTip \in PoolTree /\ poolKnown \subseteq PoolBlocks
  BY DEF PoolInit, PoolTree
<1>2. poolShares \in Seq(ShareType) /\ rewarded \in Seq(PoolBlocks) /\ DOMAIN rewarded = {}
  BY EmptySeq DEF PoolInit
<1>3. \A t \in Threads : submission[t] = NoSubmission /\ ~submission[t].accepted
  BY DEF PoolInit, NoSubmission
<1>4. submission \in [Threads -> [miner : Miners, block : PoolBlocks, accepted : BOOLEAN] \union {NoSubmission}]
  BY DEF PoolInit
<1> QED
  BY <1>1, <1>2, <1>3, <1>4 DEF PoolInv

LEMMA SubmitKeeps ==
  ASSUME PoolInv, NEW t \in Threads, NEW m \in Miners, NEW b \in PoolBlocks, NEW j, Submit(t, m, b, j)
  PROVE  PoolInv'
<1> DEFINE s == [miner |-> m, block |-> b, accepted |-> b \in Solved /\ AddBlock(b).ok]
           Pending == [miner : Miners, block : PoolBlocks, accepted : BOOLEAN]
<1>1. /\ poolTip' \in PoolTree /\ poolKnown' \subseteq PoolBlocks
      /\ poolTip' = poolTip \/ BlockHeight[poolTip'] > BlockHeight[poolTip]
  BY TipMoves DEF Submit, PoolInv
<1>2. \A c \in PoolBlocks : Earned(c, poolTip) => Earned(c, poolTip')
  BY <1>1, EarnedStays
<1>3. submission' = [submission EXCEPT ![t] = s] /\ s \in Pending
  <2>1. submission' = [submission EXCEPT ![t] = s]
    BY DEF Submit
  <2>2. AddBlock(b).ok \in BOOLEAN
    BY DEF AddBlock
  <2> QED
    BY <2>1, <2>2
<1>4. s.accepted => Earned(b, poolTip')
  <2>1. CASE b \in Solved
    BY <2>1, TipMoves DEF Submit, Earned
  <2>2. CASE b \notin Solved
    BY <2>2
  <2> QED
    BY <2>1, <2>2
<1>5. submission' \in [Threads -> Pending \union {NoSubmission}]
  BY <1>3 DEF PoolInv
<1>6. \A u \in Threads : submission'[u].accepted => Earned(submission'[u].block, poolTip')
  <2> SUFFICES ASSUME NEW u \in Threads, submission'[u].accepted
               PROVE  Earned(submission'[u].block, poolTip')
    OBVIOUS
  <2>1. CASE u = t
    <3>1. submission'[u] = s /\ s.block = b
      BY <1>3, <2>1 DEF PoolInv
    <3> QED
      BY <1>4, <3>1
  <2>2. CASE u # t
    <3>1. submission'[u] = submission[u]
      BY <1>3, <2>2 DEF PoolInv
    <3>2. submission[u] \in Pending
      <4>1. submission[u] \in Pending \union {NoSubmission} /\ ~NoSubmission.accepted
        BY DEF PoolInv, NoSubmission
      <4> QED
        BY <3>1, <4>1
    <3>3. submission[u].block \in PoolBlocks /\ Earned(submission[u].block, poolTip)
      BY <3>1, <3>2 DEF PoolInv
    <3> QED
      BY <1>2, <3>1, <3>3
  <2> QED
    BY <2>1, <2>2
<1>7. poolShares' = poolShares /\ rewarded' = rewarded
  BY DEF Submit
<1>8. \A i \in DOMAIN rewarded' : Earned(rewarded'[i], poolTip')
  <2>1. \A i \in DOMAIN rewarded : rewarded[i] \in PoolBlocks /\ Earned(rewarded[i], poolTip)
    BY DEF PoolInv
  <2> QED
    BY <1>2, <1>7, <2>1
<1> QED
  BY <1>1, <1>5, <1>6, <1>7, <1>8 DEF PoolInv

LEMMA RecordKeeps ==
  ASSUME PoolInv, NEW t \in Threads, Record(t)
  PROVE  PoolInv'
<1> DEFINE s == submission[t]
           Pending == [miner : Miners, block : PoolBlocks, accepted : BOOLEAN]
           share == [miner |-> s.miner, weight |-> IF Zeroes[s.block] > 1 THEN Zeroes[s.block] ELSE 1]
<1>1. s \in Pending
  BY DEF Record, PoolInv
<1>2. share \in ShareType
  <2>1. s.miner \in Miners /\ s.block \in PoolBlocks
    BY <1>1
  <2>2. share.weight \in Nat \ {0}
    <3>1. Zeroes[s.block] \in Nat
      BY <2>1, PoolAssumption
    <3> QED
      BY <3>1
  <2> QED
    BY <2>1, <2>2 DEF ShareType
<1>3. poolTip' = poolTip /\ poolKnown' = poolKnown
  BY DEF Record
<1>5. poolShares' \in Seq(ShareType)
  <2>1. poolShares' = Append(poolShares, share) /\ poolShares \in Seq(ShareType)
    BY DEF Record, PoolInv
  <2> HIDE DEF share
  <2> QED
    BY <1>2, <2>1
<1>6. rewarded' \in Seq(PoolBlocks) /\ \A i \in DOMAIN rewarded' : Earned(rewarded'[i], poolTip')
  <2>1. CASE s.accepted
    <3>1. rewarded' = Append(rewarded, s.block) /\ s.block \in PoolBlocks /\ Earned(s.block, poolTip)
      BY <1>1, <2>1 DEF Record, PoolInv
    <3>2. rewarded' \in Seq(PoolBlocks)
      BY <3>1 DEF PoolInv
    <3>3. \A i \in DOMAIN rewarded' : rewarded'[i] = s.block \/ (i \in DOMAIN rewarded /\ rewarded'[i] = rewarded[i])
      <4>1. rewarded \in Seq(PoolBlocks)
        BY DEF PoolInv
      <4> HIDE DEF s
      <4> QED
        BY <3>1, <4>1
    <3>4. \A i \in DOMAIN rewarded : Earned(rewarded[i], poolTip)
      BY DEF PoolInv
    <3> QED
      BY <1>3, <3>1, <3>2, <3>3, <3>4
  <2>2. CASE ~s.accepted
    <3>1. rewarded' = rewarded
      BY <2>2 DEF Record
    <3> QED
      BY <1>3, <3>1 DEF PoolInv
  <2> QED
    BY <2>1, <2>2
<1>7. /\ submission' \in [Threads -> Pending \union {NoSubmission}]
      /\ \A u \in Threads : submission'[u].accepted => Earned(submission'[u].block, poolTip')
  <2>1. submission' = [submission EXCEPT ![t] = NoSubmission] /\ submission \in [Threads -> Pending \union {NoSubmission}]
    BY DEF Record, PoolInv
  <2>2. ~NoSubmission.accepted
    BY DEF NoSubmission
  <2>3. \A u \in Threads : submission[u].accepted => Earned(submission[u].block, poolTip)
    BY DEF PoolInv
  <2>4. \A u \in Threads : submission'[u] = NoSubmission \/ submission'[u] = submission[u]
    BY <2>1
  <2>5. \A u \in Threads : submission'[u].accepted => Earned(submission'[u].block, poolTip')
    BY <1>3, <2>2, <2>3, <2>4
  <2> QED
    BY <2>1, <2>5
<1> QED
  BY <1>3, <1>5, <1>6, <1>7 DEF PoolInv

LEMMA OthersKeep ==
  ASSUME PoolInv, NEW b \in PoolBlocks, OthersBlock(b)
  PROVE  PoolInv'
<1>1. /\ poolTip' \in PoolTree /\ poolKnown' \subseteq PoolBlocks
      /\ poolTip' = poolTip \/ BlockHeight[poolTip'] > BlockHeight[poolTip]
  BY TipMoves DEF OthersBlock, PoolInv
<1>2. \A c \in PoolBlocks : Earned(c, poolTip) => Earned(c, poolTip')
  BY <1>1, EarnedStays
<1>3. poolShares' = poolShares /\ rewarded' = rewarded /\ submission' = submission
  BY DEF OthersBlock
<1>4. \A i \in DOMAIN rewarded : Earned(rewarded[i], poolTip')
  <2>1. \A i \in DOMAIN rewarded : rewarded[i] \in PoolBlocks /\ Earned(rewarded[i], poolTip)
    BY DEF PoolInv
  <2> QED
    BY <1>2, <2>1
<1>5. \A t \in Threads : submission[t].accepted => Earned(submission[t].block, poolTip')
  <2>1. \A t \in Threads : submission[t].accepted => submission[t].block \in PoolBlocks
    BY DEF PoolInv, NoSubmission
  <2> QED
    BY <1>2, <2>1 DEF PoolInv
<1> QED
  BY <1>1, <1>3, <1>4, <1>5 DEF PoolInv

LEMMA PoolStep == PoolInv /\ [PoolNext]_poolVars => PoolInv'
<1> SUFFICES ASSUME PoolInv, [PoolNext]_poolVars PROVE PoolInv'
  OBVIOUS
<1>1. CASE PoolJob \/ UNCHANGED poolVars
  BY <1>1 DEF PoolJob, poolVars, PoolInv, Earned
<1>2. ASSUME NEW t \in Threads, Record(t)
      PROVE  PoolInv'
  BY <1>2, RecordKeeps
<1>3. ASSUME NEW t \in Threads, NEW m \in Miners, NEW b \in PoolBlocks, NEW j, Submit(t, m, b, j)
      PROVE  PoolInv'
  BY <1>3, SubmitKeeps
<1>4. ASSUME NEW b \in PoolBlocks, OthersBlock(b)
      PROVE  PoolInv'
  BY <1>4, OthersKeep
<1> QED
  BY <1>1, <1>2, <1>3, <1>4 DEF PoolNext

\* Whatever miners submit and chains arrive, a payout plan hands out the reward
\* to the last sat and leaves nobody short by more than one for each share, and
\* every reward on record is of a block the best chain held (pool.py:90-170).
THEOREM RewardsAreExact == PoolSpec => []RewardsExact
<1>1. PoolInv => RewardsExact
  <2> SUFFICES ASSUME PoolInv PROVE PlanIsExact /\ RewardsEarned
    BY DEF RewardsExact
  <2>1. poolShares \in Seq(ShareType) /\ Reward \in Nat
    BY PoolAssumption DEF PoolInv
  <2>2. PlanIsExact
    BY <2>1, PlanOfShares DEF PlanIsExact
  <2>3. RewardsEarned
    BY DEF PoolInv, RewardsEarned, Earned
  <2> QED
    BY <2>2, <2>3
<1> QED
  BY <1>1, PoolInitially, PoolStep, PTL DEF PoolSpec

(***************************************************************************)
(* Deposits.  PostedOnce is inductive together with the types: Post adds     *)
(* only where there is nothing, and ReverseReference compensates only what   *)
(* was posted.  That a deficit is reported needs what the pass in progress   *)
(* knows: the account it has just debited is judged before the pass does     *)
(* another step.                                                             *)
(***************************************************************************)

LEMMA StateForType ==
  ASSUME NEW n \in Int
  PROVE  StateFor(n) \in {"seen", "confirming", "credited"}
BY DEF StateFor

\* The height of any chain is an integer and the position of a block on it,
\* counted from zero, a natural number.
LEMMA Heights ==
  ASSUME NEW c \in Chains
  PROVE  /\ Len(c) - 1 \in Int
         /\ \A i \in DOMAIN c : c[i] \in Hashes /\ i - 1 \in Nat
<1>1. c \in Seq(Hashes)
  BY ExchangeAssumption
<1> QED
  BY <1>1

\* Recording a deposit leaves a row of the table's type.
LEMMA RecordedRow ==
  ASSUME NEW d \in Deposits, TypeOK, RecordDeposit(d)
  PROVE  row' \in [Deposits -> Row]
<1>1. PICK i \in DOMAIN chain, how \in Reports :
        row' = [row EXCEPT ![d] =
          [state |-> StateFor(IF how.height THEN Confirmations(Height, i - 1) ELSE 0),
           block |-> IF how.block THEN chain[i] ELSE NoBlock,
           seen |-> IF @.state = "absent" THEN i - 1 ELSE @.seen]]
  BY DEF RecordDeposit
<1>2. chain[i] \in Hashes /\ i - 1 \in Nat /\ Height \in Int
  BY Heights DEF TypeOK, Height
<1>3. (IF how.height THEN Confirmations(Height, i - 1) ELSE 0) \in Int
  BY <1>2 DEF Confirmations
<1>4. StateFor(IF how.height THEN Confirmations(Height, i - 1) ELSE 0) \in States
  BY <1>3, StateForType DEF States
<1>5. row[d].seen \in Nat
  BY DEF TypeOK, Row
<1>6. [state |-> StateFor(IF how.height THEN Confirmations(Height, i - 1) ELSE 0),
       block |-> IF how.block THEN chain[i] ELSE NoBlock,
       seen |-> IF row[d].state = "absent" THEN i - 1 ELSE row[d].seen] \in Row
  BY <1>2, <1>4, <1>5 DEF Row
<1> QED
  BY <1>1, <1>6 DEF TypeOK

\* So does a pass that counts confirmations.
LEMMA UpdatedRows ==
  ASSUME TypeOK, UpdatePending
  PROVE  row' \in [Deposits -> Row]
<1>1. ASSUME NEW d \in Deposits
      PROVE  [row[d] EXCEPT !.state = StateFor(Confirmations(height, row[d].seen))] \in Row
  <2>1. row[d] \in Row /\ height \in Int
    BY DEF TypeOK
  <2>2. Confirmations(height, row[d].seen) \in Int
    BY <2>1 DEF Confirmations, Row
  <2>3. StateFor(Confirmations(height, row[d].seen)) \in States
    BY <2>2, StateForType DEF States
  <2> QED
    BY <2>1, <2>3 DEF Row
<1> QED
  BY <1>1 DEF UpdatePending, TypeOK

-----------------------------------------------------------------------------
\* Types and PostedOnce hold together.
JournalInv == TypeOK /\ PostedOnce

LEMMA SnapshotType ==
  ASSUME TypeOK, NEW states
  PROVE  RowsIn(states) \subseteq [dep : Deposits, block : Hashes \cup {NoBlock}]
BY DEF RowsIn, Snapshot, TypeOK, Row

LEMMA JournalInitially == Init => JournalInv
<1> SUFFICES ASSUME Init PROVE JournalInv
  OBVIOUS
<1>1. NoRow \in Row
  BY DEF NoRow, Row, States
<1>2. cut \in BOOLEAN
  BY DEF Init
<1>3. TypeOK
  BY <1>1, <1>2, ExchangeAssumption DEF Init, TypeOK
<1> QED
  BY <1>3 DEF Init, JournalInv, PostedOnce

\* The steps of a pass before it touches the journal.
LEMMA JournalReorgSteps ==
  ASSUME JournalInv,
         \/ StartPass
         \/ \E r \in todo : KeepRow(r) \/ MarkReorged(r)
         \/ \E d \in cur : NothingToReverse(d) \/ Flag(d)
  PROVE  JournalInv'
<1> USE DEF JournalInv, PostedOnce
<1>1. CASE StartPass
  BY <1>1, SnapshotType DEF StartPass, store, TypeOK
<1>2. ASSUME NEW r \in todo, KeepRow(r) PROVE JournalInv'
  BY <1>2 DEF KeepRow, store, TypeOK
<1>3. ASSUME NEW r \in todo, MarkReorged(r) PROVE JournalInv'
  <2>1. r.dep \in Deposits
    BY DEF TypeOK
  <2>2. [row[r.dep] EXCEPT !.state = "reorged"] \in Row
    BY <2>1 DEF TypeOK, Row, States
  <2>3. row' \in [Deposits -> Row]
    BY <1>3, <2>1, <2>2 DEF MarkReorged, TypeOK
  <2> QED
    BY <1>3, <2>1, <2>3 DEF MarkReorged, TypeOK
<1>4. ASSUME NEW d \in cur, NothingToReverse(d) PROVE JournalInv'
  BY <1>4 DEF NothingToReverse, Drop, TypeOK
<1>5. ASSUME NEW d \in cur, Flag(d) PROVE JournalInv'
  <2>1. Owner[d] \in Customers
    BY ExchangeAssumption DEF TypeOK
  <2>2. frozen' \subseteq Customers
    BY <1>5, <2>1 DEF Flag, TypeOK
  <2> QED
    BY <1>5, <2>2 DEF Flag, store, TypeOK
<1> QED
  BY <1>1, <1>2, <1>3, <1>4, <1>5

\* The two steps that write the journal.
LEMMA JournalReverse ==
  ASSUME JournalInv, NEW d \in cur, ReverseReference(d)
  PROVE  JournalInv'
<1>1. d \in Deposits
  BY DEF JournalInv, TypeOK
<1>2. compensated' \in [Deposits -> Nat] /\ posted' = posted
  BY <1>1 DEF ReverseReference, JournalInv, TypeOK
<1>3. TypeOK'
  BY <1>2 DEF ReverseReference, JournalInv, TypeOK
<1>4. \A x \in Deposits : compensated'[x] <= posted[x]
  BY <1>1 DEF ReverseReference, JournalInv, TypeOK, PostedOnce
<1> QED
  BY <1>2, <1>3, <1>4 DEF JournalInv, PostedOnce

LEMMA JournalPost ==
  ASSUME JournalInv, NEW r \in todo, Post(r)
  PROVE  JournalInv'
<1>1. r.dep \in Deposits
  BY DEF JournalInv, TypeOK
<1>2. posted' \in [Deposits -> Nat] /\ compensated' = compensated
  BY <1>1 DEF Post, JournalInv, TypeOK
<1>3. TypeOK'
  BY <1>2 DEF Post, JournalInv, TypeOK
<1>4. \A x \in Deposits : posted'[x] <= 1 /\ compensated[x] <= posted'[x]
  BY <1>1 DEF Post, JournalInv, TypeOK, PostedOnce
<1> QED
  BY <1>2, <1>3, <1>4 DEF JournalInv, PostedOnce

\* The rest of a pass, and its end by a crash.
LEMMA JournalCreditSteps ==
  ASSUME JournalInv,
         ReadHeight \/ SelectPending \/ UpdatePending \/ ListCredited \/ Finish \/ Crash
  PROVE  JournalInv'
<1> USE DEF JournalInv, PostedOnce
<1>1. CASE ReadHeight
  <2>1. height' \in Int
    BY <1>1, Heights DEF ReadHeight, Height, TypeOK
  <2> QED
    BY <1>1, <2>1 DEF ReadHeight, store, TypeOK
<1>2. CASE SelectPending
  BY <1>2, SnapshotType DEF SelectPending, store, TypeOK
<1>3. CASE UpdatePending
  BY <1>3, UpdatedRows DEF UpdatePending, TypeOK
<1>4. CASE ListCredited
  BY <1>4, SnapshotType DEF ListCredited, store, TypeOK
<1>5. CASE Finish
  BY <1>5 DEF Finish, store, TypeOK
<1>6. CASE Crash
  BY <1>6, ExchangeAssumption DEF Crash, Drop, TypeOK
<1> QED
  BY <1>1, <1>2, <1>3, <1>4, <1>5, <1>6

\* What happens around the watcher.
LEMMA JournalEnvironment ==
  ASSUME JournalInv, Environment
  PROVE  JournalInv'
<1> USE DEF JournalInv, PostedOnce
<1>1. CASE MoveChain
  BY <1>1 DEF MoveChain, store, pass, TypeOK
<1>2. ASSUME NEW d \in Deposits, RecordDeposit(d) PROVE JournalInv'
  BY <1>2, RecordedRow DEF RecordDeposit, pass, TypeOK
<1>3. ASSUME NEW d \in Deposits, ReverseByOperator(d) PROVE JournalInv'
  <2>1. [row[d] EXCEPT !.state = "reversed"] \in Row
    BY DEF TypeOK, Row, States
  <2> QED
    BY <1>3, <2>1 DEF ReverseByOperator, pass, TypeOK
<1>4. ASSUME NEW c \in Customers, Withdraw(c) PROVE JournalInv'
  BY <1>4 DEF Withdraw, pass, TypeOK
<1> QED
  BY <1>1, <1>2, <1>3, <1>4 DEF Environment

LEMMA JournalNext == JournalInv /\ [Next]_vars => JournalInv'
<1> SUFFICES ASSUME JournalInv, [Next]_vars PROVE JournalInv'
  OBVIOUS
<1>1. CASE PassStep
  BY <1>1, JournalReorgSteps, JournalReverse, JournalPost, JournalCreditSteps DEF PassStep
<1>2. CASE Crash
  BY <1>2, JournalCreditSteps
<1>3. CASE Environment
  BY <1>3, JournalEnvironment
<1>4. CASE UNCHANGED vars
  BY <1>4 DEF vars, store, pass, JournalInv, TypeOK, PostedOnce
<1> QED
  BY <1>1, <1>2, <1>3, <1>4 DEF Next

\* The tables keep their types, and no deposit is ever posted twice to the
\* journal or reversed beyond what was posted: has_reference is enough, however
\* passes are cut off and whatever is written around them.
THEOREM DepositsPostedOnce == Spec => [](TypeOK /\ PostedOnce)
<1>1. Init => JournalInv
  BY JournalInitially
<1>2. JournalInv /\ [Next]_vars => JournalInv'
  BY JournalNext
<1>3. JournalInv => TypeOK /\ PostedOnce
  BY DEF JournalInv
<1> QED
  BY <1>1, <1>2, <1>3, PTL DEF Spec
-----------------------------------------------------------------------------
(* Deficits *)

\* The account that a reversal has just debited and the pass has not judged yet.
Unjudged == IF pc = "flag" THEN {Owner[d] : d \in cur} ELSE {}

\* Inductive: as long as every pass has returned, an account in deficit is in a
\* report, in the one being made, or is about to be judged.
DeficitsNoted ==
  /\ \A d, e \in cur : d = e
  /\ pc = "idle" => frozen = {}
  /\ ~cut => \A c \in Customers : Liability(c) < 0 => c \in flagged \union frozen \union Unjudged

Net == [d \in Deposits |-> posted[d] - compensated[d]]
Of(c) == {d \in Deposits : Owner[d] = c}

LEMMA LiabilityIs ==
  ASSUME TypeOK, NEW c \in Customers
  PROVE  /\ Liability(c) = SumFunctionOnSet(Net, Of(c)) - withdrawn[c]
         /\ \A d \in Deposits : Net[d] = posted[d] - compensated[d] /\ Net[d] \in Int
         /\ IsFiniteSet(Of(c)) /\ Of(c) \subseteq Deposits
         /\ SumFunctionOnSet(Net, Of(c)) \in Int /\ withdrawn[c] \in Nat /\ Liability(c) \in Int
<1>1. \A d \in Deposits : Net[d] = posted[d] - compensated[d] /\ Net[d] \in Int
  BY DEF Net, TypeOK
<1>2. IsFiniteSet(Of(c)) /\ Of(c) \subseteq Deposits
  <2>1. Of(c) \subseteq Deposits
    BY DEF Of
  <2> QED
    BY <2>1, FS_Subset, ExchangeAssumption
<1>3. SumFunctionOnSet(Net, Of(c)) \in Int
  BY <1>1, <1>2, SumInt
<1>4. withdrawn[c] \in Nat
  BY DEF TypeOK
<1>5. Liability(c) = SumFunctionOnSet(Net, Of(c)) - withdrawn[c]
  BY DEF Liability, Net, Of
<1> QED
  BY <1>1, <1>2, <1>3, <1>4, <1>5

\* The journal moves at one deposit: its customer's account moves with it and
\* no other does.
LEMMA LiabilityMoves ==
  ASSUME TypeOK, TypeOK', NEW d \in Deposits, withdrawn' = withdrawn,
         \A x \in Deposits \ {d} : posted'[x] = posted[x] /\ compensated'[x] = compensated[x],
         NEW c \in Customers
  PROVE  /\ Owner[d] = c => Liability(c)' = Liability(c) + (Net'[d] - Net[d])
         /\ Owner[d] # c => Liability(c)' = Liability(c)
<1> DEFINE f == Net
           g == Net'
           S == Of(c)
<1>1. /\ Liability(c) = SumFunctionOnSet(f, S) - withdrawn[c]
      /\ \A x \in Deposits : f[x] = posted[x] - compensated[x] /\ f[x] \in Int
      /\ IsFiniteSet(S) /\ S \subseteq Deposits /\ SumFunctionOnSet(f, S) \in Int /\ withdrawn[c] \in Int
  BY LiabilityIs
<1>2. /\ Liability(c)' = SumFunctionOnSet(g, S) - withdrawn[c]
      /\ \A x \in Deposits : g[x] = posted'[x] - compensated'[x] /\ g[x] \in Int
  <2>1. withdrawn' \in [Customers -> Nat] /\ withdrawn'[c] = withdrawn[c]
    BY DEF TypeOK
  <2>2. \A x \in Deposits : g[x] = posted'[x] - compensated'[x] /\ g[x] \in Int
    BY DEF Net, TypeOK
  <2>3. Liability(c)' = SumFunctionOnSet(g, S) - withdrawn'[c]
    BY DEF Liability, Net, Of
  <2> QED
    BY <2>1, <2>2, <2>3
<1>3. \A x \in Deposits \ {d} : f[x] = g[x]
  BY <1>1, <1>2
<1>4. Owner[d] = c <=> d \in S
  BY DEF Of
<1> HIDE DEF f, g, S
<1>5. CASE d \in S
  <2>1. SumFunctionOnSet(g, S) = SumFunctionOnSet(f, S) + (g[d] - f[d])
    BY <1>1, <1>2, <1>3, <1>5, SumChange
  <2>2. g[d] \in Int /\ f[d] \in Int
    BY <1>1, <1>2
  <2> QED
    BY <1>1, <1>2, <1>4, <1>5, <2>1, <2>2 DEF f, g
<1>6. CASE d \notin S
  <2>1. \A x \in S : f[x] \in Int /\ f[x] = g[x]
    BY <1>1, <1>3, <1>6
  <2>2. SumFunctionOnSet(f, S) = SumFunctionOnSet(g, S)
    BY <1>1, <2>1, SumEqual
  <2> QED
    BY <1>1, <1>2, <1>4, <1>6, <2>2
<1> QED
  BY <1>5, <1>6

\* Steps that leave the journal as it is.
LEMMA LiabilityStays ==
  ASSUME UNCHANGED <<posted, compensated, withdrawn>>
  PROVE  \A c \in Customers : Liability(c)' = Liability(c)
BY DEF Liability

LEMMA NotedInit == Init => DeficitsNoted
<1> SUFFICES ASSUME Init
             PROVE  DeficitsNoted
  OBVIOUS
<1>1. TypeOK
  BY JournalInitially DEF JournalInv
<1>2. ASSUME NEW c \in Customers
      PROVE  Liability(c) = 0
  <2> DEFINE zero == [d \in Deposits |-> 0]
  <2>1. \A d \in Of(c) : Net[d] \in Int /\ Net[d] <= zero[d] /\ zero[d] <= Net[d] /\ zero[d] = 0
    BY DEF Init, Net, Of
  <2>2. IsFiniteSet(Of(c)) /\ withdrawn[c] = 0 /\ Liability(c) = SumFunctionOnSet(Net, Of(c)) - withdrawn[c]
    BY <1>1, LiabilityIs DEF Init
  <2>3. SumFunctionOnSet(Net, Of(c)) = SumFunctionOnSet(zero, Of(c))
    <3>1. \A d \in Of(c) : Net[d] \in Int /\ Net[d] = zero[d]
      BY <2>1
    <3> QED
      BY <2>2, <3>1, SumEqual
  <2>4. SumFunctionOnSet(zero, Of(c)) = 0
    BY <2>1, <2>2, SumZero
  <2> QED
    BY <2>2, <2>3, <2>4
<1> QED
  BY <1>2 DEF Init, DeficitsNoted

LEMMA NotedNext == JournalInv /\ DeficitsNoted /\ [Next]_vars => DeficitsNoted'
<1> SUFFICES ASSUME JournalInv, DeficitsNoted, [Next]_vars
             PROVE  DeficitsNoted'
  OBVIOUS
<1>0. TypeOK /\ TypeOK'
  BY JournalNext DEF JournalInv
<1>1. ASSUME UNCHANGED <<posted, compensated, withdrawn, flagged, frozen, cur, cut>>, pc # "flag", pc' # "flag",
             pc' = "idle" => pc = "idle"
      PROVE  DeficitsNoted'
  BY <1>1, LiabilityStays DEF DeficitsNoted, Unjudged
<1>2. ASSUME UNCHANGED <<posted, compensated, withdrawn, flagged, frozen, cur, cut, pc>>
      PROVE  DeficitsNoted'
  BY <1>2, LiabilityStays DEF DeficitsNoted, Unjudged
<1>3. CASE StartPass \/ ReadHeight \/ SelectPending \/ UpdatePending \/ ListCredited
  BY <1>1, <1>3 DEF StartPass, ReadHeight, SelectPending, UpdatePending, ListCredited, store
<1>4. ASSUME NEW r \in todo, KeepRow(r)
      PROVE  DeficitsNoted'
  BY <1>2, <1>4 DEF KeepRow, store
<1>5. ASSUME NEW r \in todo, MarkReorged(r)
      PROVE  DeficitsNoted'
  <2>1. /\ UNCHANGED <<posted, compensated, withdrawn, flagged, frozen, cut>> /\ pc = "reorgs" /\ pc' = "reverse"
        /\ cur' = {r.dep}
    BY <1>5 DEF MarkReorged
  <2> QED
    BY <2>1, LiabilityStays DEF DeficitsNoted, Unjudged
<1>6. ASSUME NEW d \in cur, ReverseReference(d)
      PROVE  DeficitsNoted'
  <2>1. /\ UNCHANGED <<posted, withdrawn, flagged, frozen, cut, cur>> /\ pc = "reverse" /\ pc' = "flag" /\ d \in Deposits
        /\ \A x \in Deposits \ {d} : compensated'[x] = compensated[x]
    BY <1>0, <1>6 DEF ReverseReference, TypeOK
  <2>2. \A c \in Customers : Owner[d] # c => Liability(c)' = Liability(c)
    BY <1>0, <2>1, LiabilityMoves
  <2>3. Unjudged = {} /\ Owner[d] \in Unjudged'
    BY <1>6, <2>1 DEF Unjudged
  <2> QED
    BY <2>1, <2>2, <2>3 DEF DeficitsNoted
<1>7. ASSUME NEW d \in cur, Flag(d)
      PROVE  DeficitsNoted'
  <2>1. /\ UNCHANGED <<posted, compensated, withdrawn, flagged, cut>> /\ pc = "flag" /\ pc' = "reorgs" /\ cur' = {}
        /\ frozen' = IF Liability(Owner[d]) < 0 THEN frozen \cup {Owner[d]} ELSE frozen
    BY <1>7 DEF Flag, store
  <2>2. Unjudged = {Owner[d]}
    BY <1>7, <2>1 DEF DeficitsNoted, Unjudged
  <2> QED
    BY <2>1, <2>2, LiabilityStays DEF DeficitsNoted
<1>8. CASE Crash \/ \E d \in cur : NothingToReverse(d)
  <2>1. cut' = TRUE /\ frozen' = {} /\ cur' = {}
    BY <1>8 DEF Crash, NothingToReverse, Drop
  <2> QED
    BY <2>1 DEF DeficitsNoted
<1>9. ASSUME NEW r \in todo, Post(r)
      PROVE  DeficitsNoted'
  <2>1. /\ UNCHANGED <<compensated, withdrawn, flagged, frozen, cut, cur, pc>> /\ r.dep \in Deposits
        /\ \A x \in Deposits \ {r.dep} : posted'[x] = posted[x]
        /\ posted'[r.dep] >= posted[r.dep]
    BY <1>0, <1>9 DEF Post, TypeOK
  <2>2. ASSUME NEW c \in Customers
        PROVE  Liability(c)' >= Liability(c) /\ Liability(c) \in Int /\ Liability(c)' \in Int
    <3>1. Net'[r.dep] - Net[r.dep] \in Nat
      BY <1>0, <2>1 DEF Net, TypeOK
    <3>2. Liability(c) \in Int
      BY <1>0, LiabilityIs
    <3> QED
      BY <1>0, <2>1, <3>1, <3>2, LiabilityMoves
  <2>3. Unjudged' = Unjudged
    BY <2>1 DEF Unjudged
  <2> QED
    BY <2>1, <2>2, <2>3 DEF DeficitsNoted
<1>10. CASE Finish
  <2>1. /\ UNCHANGED <<posted, compensated, withdrawn, cut, cur>> /\ pc = "post" /\ pc' = "idle"
        /\ flagged' = flagged \cup frozen /\ frozen' = {}
    BY <1>10 DEF Finish, store
  <2> QED
    BY <2>1, LiabilityStays DEF DeficitsNoted, Unjudged
<1>11. CASE MoveChain \/ \E d \in Deposits : RecordDeposit(d) \/ ReverseByOperator(d)
  BY <1>2, <1>11 DEF MoveChain, RecordDeposit, ReverseByOperator, store, pass
<1>12. ASSUME NEW c \in Customers, Withdraw(c)
       PROVE  DeficitsNoted'
  <2>1. /\ UNCHANGED <<posted, compensated, flagged, frozen, cut, cur, pc>> /\ Liability(c) > 0
        /\ withdrawn' = [withdrawn EXCEPT ![c] = withdrawn[c] + 1]
    BY <1>12 DEF Withdraw, pass
  <2>2. ASSUME NEW e \in Customers
        PROVE  Liability(e)' < 0 => Liability(e) < 0
    <3>1. /\ Liability(e) = SumFunctionOnSet(Net, Of(e)) - withdrawn[e] /\ withdrawn[e] \in Nat
          /\ SumFunctionOnSet(Net, Of(e)) \in Int
      BY <1>0, LiabilityIs
    <3>2. Liability(e)' = SumFunctionOnSet(Net, Of(e)) - withdrawn'[e]
      BY <2>1 DEF Liability, Net, Of
    <3>3. withdrawn'[e] = IF e = c THEN withdrawn[e] + 1 ELSE withdrawn[e]
      BY <1>0, <2>1 DEF TypeOK
    <3> QED
      BY <2>1, <3>1, <3>2, <3>3
  <2>3. Unjudged' = Unjudged
    BY <2>1 DEF Unjudged
  <2> QED
    BY <2>1, <2>2, <2>3 DEF DeficitsNoted
<1>13. CASE UNCHANGED vars
  BY <1>2, <1>13 DEF vars, store, pass
<1> QED
  BY <1>3, <1>4, <1>5, <1>6, <1>7, <1>8, <1>9, <1>10, <1>11, <1>12, <1>13 DEF Next, PassStep, Environment

\* As long as every pass of the watcher returns, an account that reversals leave
\* owing the exchange is in the report of one, whatever is recorded, reversed by
\* hand or withdrawn between two calls (exchange_deposit_watcher.py, check_for_reorgs).
THEOREM DeficitsReported == Spec => []DeficitIsReported
<1>1. Init => JournalInv /\ DeficitsNoted
  BY JournalInitially, NotedInit
<1>2. JournalInv /\ DeficitsNoted /\ [Next]_vars => (JournalInv /\ DeficitsNoted)'
  BY JournalNext, NotedNext
<1>3. JournalInv /\ DeficitsNoted => DeficitIsReported
  BY DEF DeficitsNoted, DeficitIsReported, Unjudged
<1> QED
  BY <1>1, <1>2, <1>3, PTL DEF Spec

=============================================================================
