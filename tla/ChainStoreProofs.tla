-------------------------- MODULE ChainStoreProofs --------------------------
(***************************************************************************)
(* What a node serves, and what its tables hold, after any number of        *)
(* crashes, failed writes, prunes and restarts, for every block tree.       *)
(*                                                                         *)
(* As in BlockchainProofs, validity and exactness of what a node serves     *)
(* need each other between restarts; a restart establishes both afresh,     *)
(* because it validates what it read and rescans it, and falls back on a    *)
(* chain that is valid (IInv).                                             *)
(*                                                                         *)
(* The tables (StoreInv): a block is never stored above its height, so the  *)
(* next append overwrites or follows the last row; the last row is the last *)
(* commit unless a write was lost; and a full store that lost nothing holds *)
(* one valid branch, row by row, which is therefore what a start reads.     *)
(***************************************************************************)
EXTENDS ChainStore, LedgerProofs

IInv == pc # "down" /\ ~pruned => Serves(chain, utxos, Now)

\* A block whose branch passes validation gives a ledger that can be served.
LEMMA TipServes ==
  ASSUME NEW b \in ValidTips
  PROVE  Serves(Blk[b].branch, UtxosOf(Blk[b].branch), Now)
BY BranchServes DEF ValidTips

\* The first start serves genesis.
LEMMA InitServes ==
  ASSUME Init
  PROVE  IInv
<1>1. Genesis \in ValidTips /\ Blk[Genesis].branch = <<Genesis>>
  BY StoreAssumption, BranchAssumption
<1> QED
  BY <1>1, TipServes DEF Init, IInv

\* No commit, fault or restart breaks it.
LEMMA StepServes ==
  ASSUME IInv, [Next]_vars
  PROVE  IInv'
<1>1. ASSUME NEW b \in Blocks, Connect(b)
      PROVE  IInv'
  <2>1. /\ pc # "down" /\ pruned' = pruned
        /\ BlockValid(b, Tip(chain), utxos, Now)
        /\ chain' = Append(chain, b) /\ utxos' = ApplyBlock(b, utxos)
    BY <1>1 DEF Connect
  <2>2. ~pruned => Serves(Append(chain, b), ApplyBlock(b, utxos), Now)
    BY <2>1, ConnectServes DEF IInv
  <2> QED
    BY <2>1, <2>2 DEF IInv
<1>2. ASSUME NEW b \in Blocks, SwitchTo(b)
      PROVE  IInv'
  <2>1. b \in ValidTips /\ chain' = Blk[b].branch /\ pruned' = pruned
        /\ (~pruned => utxos' = UtxosOf(Blk[b].branch))
    BY <1>2 DEF SwitchTo
  <2> QED
    BY <2>1, TipServes DEF IInv
<1>3. ASSUME NEW b \in Blocks, RestartFull(b)
      PROVE  IInv'
  <2>1. /\ b \in ValidTips
        /\ chain' = Blk[b].branch /\ utxos' = UtxosOf(Blk[b].branch)
    BY <1>3 DEF RestartFull, Serve
  <2> QED
    BY <2>1, TipServes DEF IInv
<1>4. ASSUME RestartFromBackup
      PROVE  IInv'
  <2>1. chain' = Blk[Backup].branch /\ utxos' = UtxosOf(Blk[Backup].branch)
    BY <1>4 DEF RestartFromBackup, Serve
  <2>2. Backup \in ValidTips
    BY StoreAssumption
  <2> QED
    BY <2>1, <2>2, TipServes DEF IInv
<1>5. ASSUME RestartPruned \/ Crash
      PROVE  IInv'
  BY <1>5 DEF RestartPruned, Crash, IInv
<1>6. ASSUME \/ \E k \in KeepDepths : Prune(k)
             \/ AppendBlock \/ SaveChain \/ SaveSnapshot \/ PruneBodies \/ SetMeta
             \/ WriteFails \/ UNCHANGED vars
      PROVE  IInv'
  <2>1. UNCHANGED memory /\ (pc = "down" => pc' = "down")
    BY <1>6 DEF Prune, AppendBlock, SaveChain, SaveSnapshot, PruneBodies, SetMeta,
                WriteFails, Commits, vars
  <2>2. chain' = chain /\ utxos' = utxos /\ pruned' = pruned
    BY <2>1 DEF memory
  <2>3. ASSUME pc' # "down", ~pruned'
        PROVE  Serves(chain', utxos', Now)
    BY <2>1, <2>2, <2>3 DEF IInv
  <2> QED
    BY <2>3 DEF IInv
<1> QED
  BY <1>1, <1>2, <1>3, <1>4, <1>5, <1>6 DEF Next

\* Whatever died or failed before, a node that does not run from a pruned store
\* serves a valid chain and exactly its UTXO set.
THEOREM FullNodesServeValid == Spec => []FullNodeServesValid
<1>1. Init => IInv
  BY InitServes
<1>2. IInv /\ [Next]_vars => IInv'
  BY StepServes
<1>3. IInv => FullNodeServesValid
  BY DEF IInv, FullNodeServesValid, Serves
<1> QED
  BY <1>1, <1>2, <1>3, PTL DEF Spec

-----------------------------------------------------------------------------
(* What the tables hold, and what a start reads from them *)

\* Every block comes from a chain that checked its height against its parent's.
Proper == {b \in Blocks : b = Genesis \/ Blk[b].height = Blk[Blk[b].prev].height + 1}

\* The positions with a row, and those whose row has its body.
Rows(act) == {p \in 0..MaxHeight : act[p] # None}
Whole(act, bod) == {p \in 0..MaxHeight : act[p] \in bod}

\* A list in memory, or a table of positions, that leaves no room for more blocks
\* than the heights say.
Roomy(c) == c \in Seq(Proper) /\ \A i \in 1..Len(c) : i - 1 <= Blk[c[i]].height
RoomyTable(act) ==
  /\ act \in [0..MaxHeight -> Proper \cup {None}]
  /\ \A p \in Rows(act) : p <= Blk[act[p]].height

Links(c) == \A i \in 2..Len(c) : Blk[c[i]].prev = c[i - 1]

\* Neighbours among the whole rows are parent and child.
LinkedTable(act, bod) ==
  \A p, q \in Whole(act, bod) :
    p < q /\ (\A r \in Whole(act, bod) : ~(p < r /\ r < q)) => Blk[act[q]].prev = act[p]

\* Later rows are not lower.
Climbs(act) ==
  \A p, q \in Rows(act) : p <= q => Blk[act[p]].height <= Blk[act[q]].height

\* p is the last row, and it has its body unless only genesis was there to prune.
LastRow(act, bod, p) ==
  /\ p \in 0..MaxHeight
  /\ act[p] \in bod \cup {Genesis}
  /\ \A q \in 0..MaxHeight : q > p => act[q] = None

\* load_chain of these two tables.
Loaded(act, bod) ==
  LET rows == [i \in 1..(MaxHeight + 1) |-> act[i - 1]]
  IN Kept(rows, {i \in DOMAIN rows : rows[i] \in bod})

\* f says from which position each block that is loaded comes.
ReadFrom(f, q, act, bod) ==
  /\ f \in [1..Len(q) -> 0..MaxHeight]
  /\ \A i, j \in 1..Len(q) : i < j => f[i] < f[j]
  /\ \A i \in 1..Len(q) : q[i] = act[f[i]] /\ q[i] \in bod
  /\ \A p \in Whole(act, bod) : \E i \in 1..Len(q) : f[i] = p

\* What is loaded is the whole rows in their order.
LEMMA LoadedRows ==
  ASSUME NEW act, act \in [0..MaxHeight -> Proper \cup {None}], NEW bod, bod \subseteq Proper
  PROVE  /\ Loaded(act, bod) \in Seq(Proper)
         /\ \E f : ReadFrom(f, Loaded(act, bod), act, bod)
<1> DEFINE rows == [i \in 1..(MaxHeight + 1) |-> act[i - 1]]
           I == {i \in DOMAIN rows : rows[i] \in bod}
           q == Kept(rows, I)
<1>1. MaxHeight \in Nat
  BY StoreAssumption
<1>2. rows \in Seq(Proper \cup {None}) /\ Len(rows) = MaxHeight + 1
  <2>1. \A i \in 1..(MaxHeight + 1) : i - 1 \in 0..MaxHeight
    BY <1>1
  <2>2. rows \in [1..(MaxHeight + 1) -> Proper \cup {None}]
    BY <2>1
  <2> QED
    BY <1>1, <2>2
<1>3. Loaded(act, bod) = q
  BY DEF Loaded
<1>4. \A i \in 1..(MaxHeight + 1) : rows[i] = act[i - 1]
  OBVIOUS
<1>5. \A i \in I : i \in 1..(MaxHeight + 1) /\ rows[i] \in bod
  OBVIOUS
<1>6. \A i \in 1..(MaxHeight + 1) : rows[i] \in bod => i \in I
  OBVIOUS
<1> HIDE DEF rows, I
<1>7. q \in Seq(Proper \cup {None}) /\ \E g : Drawn(g, q, rows, I, Len(rows))
  BY <1>2, KeptDrawn
<1> HIDE DEF q
<1>8. PICK g : Drawn(g, q, rows, I, MaxHeight + 1)
  BY <1>2, <1>7
<1>9. /\ g \in [1..Len(q) -> 1..(MaxHeight + 1)]
      /\ \A i, j \in 1..Len(q) : i < j => g[i] < g[j]
      /\ \A i \in 1..Len(q) : q[i] = rows[g[i]] /\ g[i] \in I
      /\ \A m \in 1..(MaxHeight + 1) : m \in I => \E i \in 1..Len(q) : g[i] = m
  BY <1>8 DEF Drawn
<1> DEFINE f == [i \in 1..Len(q) |-> g[i] - 1]
<1>10. f \in [1..Len(q) -> 0..MaxHeight]
  <2>1. \A i \in 1..Len(q) : g[i] - 1 \in 0..MaxHeight
    BY <1>1, <1>9
  <2> QED
    BY <2>1
<1>11. \A i \in 1..Len(q) : f[i] = g[i] - 1 /\ g[i] \in 1..(MaxHeight + 1)
  BY <1>9
<1> HIDE DEF f
<1>12. \A i, j \in 1..Len(q) : i < j => f[i] < f[j]
  BY <1>1, <1>9, <1>11
<1>13. \A i \in 1..Len(q) : q[i] = act[f[i]] /\ q[i] \in bod
  BY <1>4, <1>5, <1>9, <1>11
<1>14. ASSUME NEW p \in Whole(act, bod)
       PROVE  \E i \in 1..Len(q) : f[i] = p
  <2>1. p \in 0..MaxHeight /\ act[p] \in bod
    BY <1>14 DEF Whole
  <2>2. p + 1 \in 1..(MaxHeight + 1) /\ (p + 1) - 1 = p
    BY <1>1, <2>1
  <2>3. p + 1 \in I
    BY <1>4, <1>6, <2>1, <2>2
  <2>4. PICK i \in 1..Len(q) : g[i] = p + 1
    BY <1>9, <2>2, <2>3
  <2> QED
    BY <1>11, <2>2, <2>4
<1>15. q \in Seq(Proper)
  <2>1. \A i \in 1..Len(q) : q[i] \in Proper
    BY <1>13
  <2> QED
    BY <1>7, <2>1
<1> QED
  BY <1>3, <1>10, <1>12, <1>13, <1>14, <1>15 DEF ReadFrom

\* Nothing is loaded from below its place in the list.
LEMMA ReadFromAbove ==
  ASSUME NEW q, Len(q) \in Nat, NEW act, NEW bod, NEW f, ReadFrom(f, q, act, bod)
  PROVE  \A i \in 1..Len(q) : i - 1 <= f[i] /\ f[i] \in 0..MaxHeight
<1> DEFINE N == Len(q)
           P == {n \in 0..N : n = 0 \/ n - 1 <= f[n]}
<1>1. /\ \A i \in 1..N : f[i] \in 0..MaxHeight
      /\ \A i, j \in 1..N : i < j => f[i] < f[j]
  BY DEF ReadFrom
<1>2. 0 \in P
  OBVIOUS
<1>3. MaxHeight \in Nat
  BY StoreAssumption
<1>4. \A n \in 1..N : n - 1 \in P => n \in P
  <2> SUFFICES ASSUME NEW n \in 1..N, n - 1 \in P PROVE n \in P
    OBVIOUS
  <2>1. CASE n = 1
    BY <1>1, <1>3, <2>1
  <2>2. CASE n # 1
    <3>1. n - 1 \in 1..N /\ (n - 1) - 1 <= f[n - 1]
      BY <2>2
    <3>2. f[n - 1] < f[n] /\ f[n - 1] \in Int /\ f[n] \in Int
      BY <1>1, <1>3, <3>1
    <3> QED
      BY <3>1, <3>2
  <2> QED
    BY <2>1, <2>2
<1> HIDE DEF P
<1>5. \A n \in 0..N : n \in P
  BY <1>2, <1>4, Upward
<1> QED
  BY <1>1, <1>5 DEF P

\* What is loaded leaves the room the table leaves.
LEMMA LoadedIsRoomy ==
  ASSUME NEW act, RoomyTable(act), NEW bod, bod \subseteq Proper
  PROVE  Roomy(Loaded(act, bod))
<1> DEFINE q == Loaded(act, bod)
<1>1. q \in Seq(Proper) /\ Len(q) \in Nat
  BY LoadedRows DEF RoomyTable
<1>2. PICK f : ReadFrom(f, q, act, bod)
  BY LoadedRows DEF RoomyTable
<1> HIDE DEF q
<1>3. ASSUME NEW i \in 1..Len(q)
      PROVE  i - 1 <= Blk[q[i]].height
  <2>1. i - 1 <= f[i] /\ f[i] \in 0..MaxHeight
    BY <1>1, <1>2, ReadFromAbove
  <2>2. q[i] = act[f[i]] /\ q[i] \in Proper
    BY <1>1, <1>2 DEF ReadFrom
  <2>3. f[i] \in Rows(act)
    BY <2>1, <2>2, StoreAssumption DEF Rows, Proper
  <2>4. f[i] <= Blk[q[i]].height
    BY <2>2, <2>3 DEF RoomyTable
  <2>5. Blk[q[i]].height \in Nat /\ MaxHeight \in Nat
    BY <2>2, BlockTypes, StoreAssumption DEF Proper
  <2> QED
    BY <2>1, <2>4, <2>5
<1> QED
  BY <1>1, <1>3 DEF Roomy, q

\* The last block that is loaded is the one of the last row.
LEMMA LoadedEnds ==
  ASSUME NEW act, RoomyTable(act), NEW bod, bod \subseteq Proper,
         NEW p, LastRow(act, bod, p), Loaded(act, bod) # <<>>
  PROVE  Tip(Loaded(act, bod)) = act[p] /\ p \in Whole(act, bod)
<1> DEFINE q == Loaded(act, bod)
<1>1. q \in Seq(Proper) /\ Len(q) \in Nat \ {0} /\ Tip(q) = q[Len(q)]
  BY LoadedRows DEF RoomyTable, Tip
<1>2. PICK f : ReadFrom(f, q, act, bod)
  BY LoadedRows DEF RoomyTable
<1> HIDE DEF q
<1> DEFINE n == Len(q)
<1>3. n \in 1..n /\ f[n] \in 0..MaxHeight /\ q[n] = act[f[n]] /\ q[n] \in bod
  BY <1>1, <1>2 DEF ReadFrom
<1>4. MaxHeight \in Nat /\ None \notin bod
  BY StoreAssumption DEF Proper
<1>5. f[n] <= p
  BY <1>3, <1>4 DEF LastRow
<1>6. CASE act[p] \in bod
  <2>1. p \in Whole(act, bod)
    BY <1>6 DEF LastRow, Whole
  <2>2. PICK i \in 1..n : f[i] = p
    BY <1>2, <2>1 DEF ReadFrom
  <2>3. i = n
    BY <1>1, <1>2, <1>3, <1>4, <1>5, <2>2 DEF ReadFrom
  <2> QED
    BY <1>1, <1>3, <2>1, <2>2, <2>3 DEF q
<1>7. CASE act[p] \notin bod
  <2>1. act[p] = Genesis /\ p \in Rows(act)
    BY <1>7, BranchAssumption, CatalogueAssumption, StoreAssumption DEF LastRow, Rows
  <2>2. p <= 0
    BY <2>1, BranchAssumption DEF RoomyTable
  <2>3. f[n] = p
    BY <1>3, <1>4, <1>5, <2>2 DEF LastRow
  <2> QED
    BY <1>3, <1>7, <2>3
<1> QED
  BY <1>6, <1>7

\* Neighbours in what is loaded are parent and child when they are so in the table.
LEMMA LoadedLinks ==
  ASSUME NEW act, RoomyTable(act), NEW bod, bod \subseteq Proper, LinkedTable(act, bod)
  PROVE  Links(Loaded(act, bod))
<1> DEFINE q == Loaded(act, bod)
<1>1. q \in Seq(Proper) /\ Len(q) \in Nat
  BY LoadedRows DEF RoomyTable
<1>2. PICK f : ReadFrom(f, q, act, bod)
  BY LoadedRows DEF RoomyTable
<1> HIDE DEF q
<1>3. ASSUME NEW i \in 2..Len(q)
      PROVE  Blk[q[i]].prev = q[i - 1]
  <2>1. i \in 1..Len(q) /\ i - 1 \in 1..Len(q) /\ i - 1 < i
    BY <1>1
  <2>2. /\ f[i - 1] < f[i]
        /\ f[i] \in Whole(act, bod) /\ f[i - 1] \in Whole(act, bod)
        /\ q[i] = act[f[i]] /\ q[i - 1] = act[f[i - 1]]
    BY <1>2, <2>1 DEF ReadFrom, Whole
  <2>3. ASSUME NEW r \in Whole(act, bod), f[i - 1] < r, r < f[i]
        PROVE  FALSE
    <3>1. PICK j \in 1..Len(q) : f[j] = r
      BY <1>2, <2>3 DEF ReadFrom
    <3>2. \A k \in 1..Len(q) : f[k] \in 0..MaxHeight
      BY <1>2 DEF ReadFrom
    <3>3. MaxHeight \in Nat
      BY StoreAssumption
    <3>4. f[j] \in Int /\ f[i] \in Int /\ f[i - 1] \in Int
      BY <2>1, <3>2, <3>3
    <3>5. ~(f[j] < f[i - 1]) /\ ~(f[i] < f[j]) /\ j # i /\ j # i - 1
      BY <2>3, <3>1, <3>4
    <3>6. ~(j < i - 1) /\ ~(i < j)
      BY <1>2, <2>1, <3>1, <3>5 DEF ReadFrom
    <3> QED
      BY <1>1, <3>5, <3>6
  <2> QED
    BY <2>2, <2>3 DEF LinkedTable
<1> QED
  BY <1>3 DEF Links, q

\* A table that holds one list of blocks gives that list back.
LEMMA WholeListLoads ==
  ASSUME NEW s \in Seq(Blocks), Len(s) <= MaxHeight + 1,
         NEW bod, bod \subseteq Proper, BlocksIn(s) \subseteq bod
  PROVE  Loaded(OrderOf(s), bod) = s
<1> DEFINE act == OrderOf(s)
           q == Loaded(act, bod)
           N == Len(s)
<1>1. MaxHeight \in Nat /\ N \in Nat /\ None \notin bod
  BY StoreAssumption DEF Proper
<1>2. \A i \in 1..N : s[i] \in bod
  BY DEF BlocksIn
<1>3. \A p \in 0..MaxHeight : act[p] = IF p < N THEN s[p + 1] ELSE None
  BY DEF OrderOf
<1>4. act \in [0..MaxHeight -> Proper \cup {None}]
  <2>1. \A p \in 0..MaxHeight : act[p] \in Proper \cup {None}
    BY <1>1, <1>2, <1>3
  <2> QED
    BY <2>1 DEF OrderOf
<1> HIDE DEF act
<1>5. \A p : p \in Whole(act, bod) <=> p \in 0..(N - 1)
  BY <1>1, <1>2, <1>3 DEF Whole
<1>6. q \in Seq(Proper) /\ Len(q) \in Nat
  BY <1>4, LoadedRows
<1>7. PICK f : ReadFrom(f, q, act, bod)
  BY <1>4, LoadedRows
<1> HIDE DEF q
<1>8. \A i \in 1..Len(q) : i - 1 <= f[i] /\ f[i] \in 0..(N - 1)
  <2>1. \A i \in 1..Len(q) : f[i] \in Whole(act, bod)
    BY <1>7 DEF ReadFrom, Whole
  <2> QED
    BY <1>5, <1>6, <1>7, <2>1, ReadFromAbove
<1>9. /\ \A i, j \in 1..Len(q) : i < j => f[i] < f[j]
      /\ \A p \in 0..(N - 1) : \E i \in 1..Len(q) : f[i] = p
      /\ \A i \in 1..Len(q) : q[i] = act[f[i]]
  BY <1>5, <1>7 DEF ReadFrom
<1> DEFINE P == {n \in 0..Len(q) : n = 0 \/ (\A m \in 1..n : f[m] = m - 1)}
<1>10. 0 \in P
  BY <1>6
<1>11. \A n \in 1..Len(q) : n - 1 \in P => n \in P
  <2> SUFFICES ASSUME NEW n \in 1..Len(q), n - 1 \in P PROVE n \in P
    OBVIOUS
  <2>1. \A m \in 1..(n - 1) : f[m] = m - 1
    BY <1>6
  <2>2. n - 1 \in 0..(N - 1) /\ n \in Int
    BY <1>1, <1>6, <1>8
  <2>3. PICK j \in 1..Len(q) : f[j] = n - 1
    BY <1>9, <2>2
  <2>4. ~(n < j)
    BY <1>1, <1>8, <1>9, <2>2, <2>3
  <2>5. ~(j < n)
    BY <2>1, <2>2, <2>3
  <2>6. f[n] = n - 1
    BY <2>2, <2>3, <2>4, <2>5
  <2>7. ASSUME NEW m \in 1..n PROVE f[m] = m - 1
    <3>1. m = n \/ m \in 1..(n - 1)
      BY <2>2
    <3> QED
      BY <2>1, <2>6, <3>1
  <2> QED
    BY <2>7
<1> HIDE DEF P
<1>12. \A n \in 0..Len(q) : n \in P
  BY <1>6, <1>10, <1>11, Upward
<1>13. \A i \in 1..Len(q) : f[i] = i - 1
  BY <1>6, <1>12 DEF P
<1>14. Len(q) = N
  <2>1. Len(q) <= N
    BY <1>1, <1>6, <1>8
  <2>2. CASE N # 0
    <3>1. N - 1 \in 0..(N - 1)
      BY <1>1, <2>2
    <3>2. PICK j \in 1..Len(q) : f[j] = N - 1
      BY <1>9, <3>1
    <3> QED
      BY <1>1, <1>6, <1>13, <2>1, <3>2
  <2> QED
    BY <1>1, <1>6, <2>1, <2>2
<1>15. \A i \in 1..N : q[i] = s[i]
  <2> SUFFICES ASSUME NEW i \in 1..N PROVE q[i] = s[i]
    OBVIOUS
  <2>1. i - 1 \in 0..MaxHeight /\ i - 1 < N /\ (i - 1) + 1 = i
    BY <1>1
  <2> QED
    BY <1>3, <1>9, <1>13, <1>14, <2>1
<1>16. q = s
  <2>1. q \in Seq(Proper) /\ s \in Seq(Blocks)
    BY <1>6
  <2> QED
    BY <1>14, <1>15, <2>1
<1> QED
  BY <1>16 DEF q, act

\* A chain that is served is roomy and linked: its heights are its positions.
LEMMA ServedIsRoomy ==
  ASSUME NEW c, NEW u, Serves(c, u, Now)
  PROVE  Roomy(c) /\ Links(c) /\ Len(c) = Blk[Tip(c)].height + 1
<1>1. c \in Seq(Blocks) /\ Len(c) \in Nat \ {0} /\ ValidBranch(c, Now)
  BY DEF Serves
<1>2. \A i \in 1..Len(c) : Blk[c[i]].height = i - 1
  BY <1>1, HeightIsPosition
<1>3. ASSUME NEW i \in 2..Len(c)
      PROVE  Blk[c[i]].prev = c[i - 1] /\ Blk[c[i]].height = Blk[c[i - 1]].height + 1
  BY <1>1, <1>3 DEF ValidBranch, BlockValid
<1>4. \A i \in 1..Len(c) : c[i] \in Proper
  <2> SUFFICES ASSUME NEW i \in 1..Len(c) PROVE c[i] \in Proper
    OBVIOUS
  <2>1. CASE i = 1
    BY <1>1, <2>1, CatalogueAssumption DEF ValidBranch, Proper
  <2>2. CASE i \in 2..Len(c)
    BY <1>1, <1>3, <2>2 DEF Proper
  <2> QED
    BY <1>1, <2>1, <2>2
<1>5. c \in Seq(Proper)
  BY <1>1, <1>4
<1> QED
  BY <1>1, <1>2, <1>3, <1>5 DEF Roomy, Links, Tip

\* A table from which a served chain is loaded holds that chain and nothing else.
LEMMA BranchIsTable ==
  ASSUME NEW act, RoomyTable(act), NEW bod, bod \subseteq Proper,
         NEW p, LastRow(act, bod, p),
         NEW u, Serves(Loaded(act, bod), u, Now)
  PROVE  act = OrderOf(Loaded(act, bod)) /\ BlocksIn(Loaded(act, bod)) \subseteq bod
<1> DEFINE q == Loaded(act, bod)
           N == Len(q)
<1>1. q \in Seq(Proper) /\ N \in Nat
  BY LoadedRows DEF RoomyTable
<1>2. PICK f : ReadFrom(f, q, act, bod)
  BY LoadedRows DEF RoomyTable
<1>3. Tip(q) = act[p] /\ p \in Whole(act, bod) /\ q # <<>>
  BY LoadedEnds DEF Serves
<1>4. \A i \in 1..N : Blk[q[i]].height = i - 1
  BY HeightIsPosition DEF Serves
<1> HIDE DEF q
<1>5. MaxHeight \in Nat /\ None \notin bod /\ N # 0
  BY <1>1, <1>3, StoreAssumption DEF Proper
<1>6. \A i \in 1..N : f[i] \in 0..MaxHeight /\ q[i] = act[f[i]] /\ q[i] \in bod
  BY <1>2 DEF ReadFrom
<1>7. ASSUME NEW i \in 1..N
      PROVE  f[i] = i - 1
  <2>1. i - 1 <= f[i]
    BY <1>1, <1>2, ReadFromAbove
  <2>2. f[i] \in Rows(act)
    BY <1>5, <1>6 DEF Rows
  <2>3. f[i] <= Blk[act[f[i]]].height
    BY <2>2 DEF RoomyTable
  <2>4. f[i] <= i - 1
    BY <1>4, <1>6, <2>3
  <2> QED
    BY <1>5, <1>6, <2>1, <2>4
<1>8. \A i \in 1..N : q[i] = act[i - 1] /\ i - 1 \in 0..MaxHeight
  BY <1>6, <1>7
<1>9. p = N - 1
  <2>1. PICK i \in 1..N : f[i] = p
    BY <1>2, <1>3 DEF ReadFrom
  <2>2. p \in 0..MaxHeight /\ \A r \in 0..MaxHeight : r > p => act[r] = None
    BY DEF LastRow
  <2>3. N \in 1..N
    BY <1>1, <1>5
  <2>4. ~(N - 1 > p)
    BY <1>5, <1>6, <1>8, <2>2, <2>3
  <2>5. p = i - 1
    BY <1>7, <2>1
  <2> QED
    BY <1>1, <2>4, <2>5
<1>10. ASSUME NEW r \in 0..MaxHeight
       PROVE  act[r] = OrderOf(q)[r]
  <2>1. CASE r < N
    <3>1. r + 1 \in 1..N /\ (r + 1) - 1 = r
      BY <1>1, <1>5, <2>1
    <3> QED
      BY <1>8, <2>1, <3>1 DEF OrderOf
  <2>2. CASE ~(r < N)
    <3>1. r > p
      BY <1>1, <1>5, <1>9, <2>2
    <3> QED
      BY <2>2, <3>1 DEF OrderOf, LastRow
  <2> QED
    BY <2>1, <2>2
<1>11. act = OrderOf(q)
  <2>1. act = [r \in 0..MaxHeight |-> act[r]] /\ OrderOf(q) = [r \in 0..MaxHeight |-> OrderOf(q)[r]]
    BY DEF RoomyTable, OrderOf
  <2> QED
    BY <1>10, <2>1
<1>12. BlocksIn(q) \subseteq bod
  BY <1>1, <1>6 DEF BlocksIn
<1> QED
  BY <1>11, <1>12 DEF q

-----------------------------------------------------------------------------
(* What each commit makes of the tables *)

\* save_chain.
LEMMA Saved ==
  ASSUME NEW c, Roomy(c), c # <<>>
  PROVE  /\ Len(c) \in 1..(MaxHeight + 1) /\ Len(c) - 1 <= Blk[Tip(c)].height
         /\ RoomyTable(OrderOf(c))
         /\ OrderOf(c)[Len(c) - 1] = Tip(c) /\ Tip(c) \in BlocksIn(c)
         /\ \A bod : BlocksIn(c) \subseteq bod => LastRow(OrderOf(c), bod, Len(c) - 1)
         /\ Links(c) =>
              /\ Climbs(OrderOf(c))
              /\ \A bod : None \notin bod => LinkedTable(OrderOf(c), bod \cup BlocksIn(c))
<1> DEFINE N == Len(c)
           act == OrderOf(c)
<1>1. c \in Seq(Proper) /\ N \in Nat \ {0} /\ \A i \in 1..N : i - 1 <= Blk[c[i]].height
  BY DEF Roomy
<1>2. \A i \in 1..N : c[i] \in Proper /\ c[i] \in Blocks /\ c[i] # None
  BY <1>1, StoreAssumption DEF Proper
<1>3. MaxHeight \in Nat /\ \A b \in Blocks : Blk[b].height <= MaxHeight /\ Blk[b].height \in Nat
  BY StoreAssumption, BlockTypes
<1>4. N - 1 <= Blk[c[N]].height /\ N - 1 <= MaxHeight
  <2>1. N \in 1..N
    BY <1>1
  <2>2. c[N] \in Blocks
    BY <1>2, <2>1
  <2>3. N - 1 <= Blk[c[N]].height
    BY <1>1, <2>1
  <2>4. Blk[c[N]].height <= MaxHeight /\ Blk[c[N]].height \in Nat
    BY <1>3, <2>2
  <2> QED
    BY <1>1, <1>3, <2>3, <2>4
<1>5. \A p \in 0..MaxHeight : act[p] = IF p < N THEN c[p + 1] ELSE None
  BY DEF OrderOf
<1>6. \A p \in 0..MaxHeight : p < N => p + 1 \in 1..N
  BY <1>1, <1>3
<1>7. RoomyTable(act)
  <2>1. ASSUME NEW p \in 0..MaxHeight
        PROVE  act[p] \in Proper \cup {None} /\ (act[p] # None => p <= Blk[act[p]].height)
    <3>1. CASE p < N
      <4>1. act[p] = c[p + 1] /\ p + 1 \in 1..N
        BY <1>5, <1>6, <3>1
      <4>2. (p + 1) - 1 <= Blk[c[p + 1]].height /\ (p + 1) - 1 = p /\ c[p + 1] \in Proper
        BY <1>1, <1>2, <1>3, <4>1
      <4> QED
        BY <4>1, <4>2
    <3>2. CASE ~(p < N)
      BY <1>5, <3>2
    <3> QED
      BY <3>1, <3>2
  <2>2. act = [p \in 0..MaxHeight |-> act[p]]
    BY DEF OrderOf
  <2> HIDE DEF act
  <2>3. act \in [0..MaxHeight -> Proper \cup {None}]
    BY <2>1, <2>2
  <2> QED
    BY <2>1, <2>3 DEF RoomyTable, Rows
<1>8. N - 1 \in 0..MaxHeight /\ N - 1 < N /\ (N - 1) + 1 = N
  BY <1>1, <1>3, <1>4
<1>9. act[N - 1] = c[N]
  BY <1>5, <1>8
<1>10. c[N] \in BlocksIn(c)
  BY <1>1 DEF BlocksIn
<1>11. ASSUME NEW bod, BlocksIn(c) \subseteq bod
       PROVE  LastRow(act, bod, N - 1)
  <2>1. \A q \in 0..MaxHeight : q > N - 1 => ~(q < N)
    BY <1>1, <1>3
  <2> HIDE DEF act
  <2> QED
    BY <1>5, <1>8, <1>9, <1>10, <1>11, <2>1 DEF LastRow
<1>12. ASSUME Links(c), NEW bod, None \notin bod
       PROVE  LinkedTable(act, bod \cup BlocksIn(c))
  <2> DEFINE all == bod \cup BlocksIn(c)
  <2>1. \A p : p \in Whole(act, all) <=> p \in 0..(N - 1)
    <3>1. None \notin all /\ \A i \in 1..N : c[i] \in all
      BY <1>1, <1>2, <1>12 DEF BlocksIn
    <3> HIDE DEF act, all
    <3> QED
      BY <1>1, <1>3, <1>4, <1>5, <1>6, <3>1 DEF Whole
  <2> HIDE DEF all
  <2> SUFFICES ASSUME NEW p \in Whole(act, all), NEW q \in Whole(act, all), p < q,
                      \A r \in Whole(act, all) : ~(p < r /\ r < q)
               PROVE  Blk[act[q]].prev = act[p]
    BY DEF LinkedTable, all
  <2>2. p \in 0..(N - 1) /\ q \in 0..(N - 1)
    BY <2>1
  <2>3. q = p + 1
    <3>1. p + 1 \in 0..(N - 1)
      BY <1>1, <2>2
    <3>2. ~(p < p + 1 /\ p + 1 < q)
      BY <2>1, <3>1
    <3> QED
      BY <1>1, <2>2, <3>2
  <2>4. p \in 0..MaxHeight /\ q \in 0..MaxHeight /\ p < N /\ q < N /\ q + 1 \in 2..N /\ (q + 1) - 1 = p + 1
    BY <1>1, <1>3, <1>4, <2>2, <2>3
  <2>5. act[q] = c[q + 1] /\ act[p] = c[p + 1]
    BY <1>5, <2>4
  <2>6. Blk[c[q + 1]].prev = c[(q + 1) - 1]
    BY <1>12, <2>4 DEF Links
  <2> QED
    BY <2>4, <2>5, <2>6
<1>16. ASSUME Links(c)
       PROVE  Climbs(act)
  <2> DEFINE H(i) == Blk[c[i]].height
             P == {n \in 0..N : \A i \in 1..n : \A j \in 1..i : H(j) <= H(i)}
  <2>1. \A i \in 1..N : H(i) \in Nat
    BY <1>2, <1>3
  <2>2. ASSUME NEW i \in 2..N
        PROVE  H(i - 1) < H(i)
    <3>1. i \in 1..N /\ i - 1 \in 1..N /\ i - 1 <= H(i)
      BY <1>1
    <3>2. c[i] # Genesis
      BY <1>1, <3>1, BranchAssumption
    <3>3. H(i) = H(i - 1) + 1
      BY <1>2, <1>16, <3>1, <3>2 DEF Links, Proper
    <3> QED
      BY <2>1, <3>1, <3>3
  <2> HIDE DEF H
  <2>3. 0 \in P
    BY <1>1
  <2>4. \A n \in 1..N : n - 1 \in P => n \in P
    <3> SUFFICES ASSUME NEW n \in 1..N, n - 1 \in P PROVE n \in P
      OBVIOUS
    <3>1. ASSUME NEW i \in 1..n, NEW j \in 1..i
          PROVE  H(j) <= H(i)
      <4>1. CASE i < n
        <5>1. i \in 1..(n - 1)
          BY <1>1, <4>1
        <5> QED
          BY <5>1
      <4>2. CASE i = n /\ j = i
        BY <1>1, <2>1, <4>2
      <4>3. CASE i = n /\ j < i
        <5>1. n - 1 \in 1..(n - 1) /\ j \in 1..(n - 1) /\ n \in 2..N /\ j \in 1..N /\ n - 1 \in 1..N
          BY <1>1, <4>3
        <5>2. H(j) <= H(n - 1) /\ H(n - 1) < H(n)
          BY <2>2, <5>1
        <5> QED
          BY <2>1, <4>3, <5>1, <5>2
      <4> QED
        BY <1>1, <4>1, <4>2, <4>3
    <3> QED
      BY <1>1, <3>1
  <2> HIDE DEF P
  <2>5. N \in P
    <3>1. N \in Nat /\ N \in 0..N
      BY <1>1
    <3> HIDE DEF N
    <3>2. \A n \in 0..N : n \in P
      BY <2>3, <2>4, <3>1, Upward
    <3> QED
      BY <3>1, <3>2
  <2>6. \A i \in 1..N : \A j \in 1..i : H(j) <= H(i)
    BY <2>5 DEF P
  <2>7. ASSUME NEW p \in Rows(act), NEW q \in Rows(act), p <= q
        PROVE  Blk[act[p]].height <= Blk[act[q]].height
    <3>1. p \in 0..MaxHeight /\ q \in 0..MaxHeight /\ p < N /\ q < N
      BY <1>5, <2>7 DEF Rows
    <3>2. act[p] = c[p + 1] /\ act[q] = c[q + 1] /\ q + 1 \in 1..N /\ p + 1 \in 1..(q + 1)
      BY <1>3, <1>5, <1>6, <2>7, <3>1
    <3> HIDE DEF act
    <3>3. H(p + 1) <= H(q + 1)
      BY <2>6, <3>2
    <3> QED
      BY <3>2, <3>3 DEF H
  <2> QED
    BY <2>7 DEF Climbs
<1>13. N \in 1..(MaxHeight + 1)
  BY <1>1, <1>3, <1>4
<1>14. \A bod : BlocksIn(c) \subseteq bod => LastRow(act, bod, N - 1)
  BY <1>11
<1>15. Links(c) => \A bod : None \notin bod => LinkedTable(act, bod \cup BlocksIn(c))
  BY <1>12
<1> HIDE DEF act
<1> QED
  BY <1>4, <1>7, <1>9, <1>10, <1>13, <1>14, <1>15, <1>16 DEF Tip, act

\* append_block of a block b that is not genesis, and the table after it.
Puts(act, bod, p, b) ==
  /\ RoomyTable(act) /\ bod \subseteq Proper /\ LastRow(act, bod, p)
  /\ b \in Proper /\ b # Genesis

AfterPut(next, act, bod, p, b) ==
  /\ Blk[b].height \in 0..MaxHeight /\ next[Blk[b].height] = b
  /\ RoomyTable(next)
  /\ \E q : LastRow(next, bod \cup {b}, q) /\ (act[p] = Blk[b].prev => next[q] = b)
  /\ act[p] = Blk[b].prev /\ Climbs(act) /\ LinkedTable(act, bod) =>
       Climbs(next) /\ LinkedTable(next, bod \cup {b})

\* Whatever the rows held.
LEMMA Put ==
  ASSUME NEW act, NEW bod, NEW p, NEW b, Puts(act, bod, p, b)
  PROVE  AfterPut([act EXCEPT ![Blk[b].height] = b], act, bod, p, b)
<1>0. /\ RoomyTable(act) /\ bod \subseteq Proper /\ LastRow(act, bod, p)
      /\ b \in Proper /\ b # Genesis
  BY DEF Puts
<1> DEFINE h == Blk[b].height
           next == [act EXCEPT ![h] = b]
<1>1. b \in Blocks /\ h = Blk[Blk[b].prev].height + 1
  BY <1>0 DEF Proper
<1>2. h \in 0..MaxHeight /\ MaxHeight \in Nat /\ h # 0
  BY <1>1, BlockTypes, StoreAssumption
<1>3. None \notin bod /\ b # None /\ p \in 0..MaxHeight /\ act[p] \in bod \cup {Genesis}
      /\ (\A q \in 0..MaxHeight : q > p => act[q] = None) /\ act[p] # None
  BY <1>0, <1>1, StoreAssumption, CatalogueAssumption DEF LastRow, Proper
<1>4. act \in [0..MaxHeight -> Proper \cup {None}] /\ \A q \in Rows(act) : q <= Blk[act[q]].height
  BY <1>0 DEF RoomyTable
<1>5. next \in [0..MaxHeight -> Proper \cup {None}]
      /\ next[h] = b /\ \A q \in 0..MaxHeight : q # h => next[q] = act[q]
  BY <1>0, <1>2, <1>4
<1> HIDE DEF next, h
<1>6. RoomyTable(next)
  <2>1. ASSUME NEW q \in Rows(next)
        PROVE  q <= Blk[next[q]].height
    <3>1. CASE q = h
      BY <1>2, <1>5, <3>1 DEF h
    <3>2. CASE q # h
      <4>1. q \in Rows(act) /\ next[q] = act[q]
        BY <1>5, <2>1, <3>2 DEF Rows
      <4> QED
        BY <1>4, <4>1
    <3> QED
      BY <3>1, <3>2
  <2> QED
    BY <1>5, <2>1 DEF RoomyTable
<1>7. act[p] = Blk[b].prev => p < h
  <2>1. p \in Rows(act)
    BY <1>3 DEF Rows
  <2>2. p <= Blk[act[p]].height
    BY <1>4, <2>1
  <2>3. Blk[Blk[b].prev].height \in Nat
    BY <1>1, BlockTypes
  <2> QED
    BY <1>1, <1>2, <1>3, <2>2, <2>3
<1>8. ASSUME p <= h
      PROVE  LastRow(next, bod \cup {b}, h) /\ next[h] = b
  <2>1. \A q \in 0..MaxHeight : q > h => next[q] = None
    BY <1>2, <1>3, <1>5, <1>8
  <2> QED
    BY <1>2, <1>5, <2>1 DEF LastRow
<1>9. ASSUME h < p
      PROVE  LastRow(next, bod \cup {b}, p) /\ act[p] # Blk[b].prev
  <2>1. next[p] = act[p] /\ \A q \in 0..MaxHeight : q > p => next[q] = None
    BY <1>2, <1>3, <1>5, <1>9
  <2> QED
    BY <1>2, <1>3, <1>7, <1>9, <2>1 DEF LastRow
<1>10. \E q : LastRow(next, bod \cup {b}, q) /\ (act[p] = Blk[b].prev => next[q] = b)
  <2>1. p <= h \/ h < p
    BY <1>2, <1>3
  <2> QED
    BY <1>8, <1>9, <2>1
<1>11. ASSUME act[p] = Blk[b].prev, Climbs(act)
       PROVE  /\ p < h /\ p \in Rows(act) /\ Blk[act[p]].height + 1 = h
              /\ \A q \in Rows(next) : q = h \/ (q \in Rows(act) /\ q <= p /\ next[q] = act[q])
              /\ \A q \in Rows(act) : q <= p /\ q # h /\ next[q] = act[q] /\ act[q] # b
              /\ Climbs(next)
  <2>1. p < h /\ p \in Rows(act) /\ Blk[act[p]].height + 1 = h
    BY <1>1, <1>3, <1>7, <1>11 DEF Rows, h
  <2>2. \A q \in Rows(act) : q \in 0..MaxHeight /\ q <= p /\ act[q] \in Blocks
    BY <1>2, <1>3, <1>4 DEF Rows, Proper
  <2>3. \A q \in Rows(act) : q # h /\ next[q] = act[q]
    BY <1>2, <1>3, <1>5, <2>1, <2>2
  <2>4. \A q \in Rows(act) : Blk[act[q]].height <= Blk[act[p]].height
    BY <1>11, <2>1, <2>2 DEF Climbs
  <2>5. \A q \in Rows(act) : Blk[act[q]].height < h /\ Blk[act[q]].height \in Nat
    BY <1>2, <2>1, <2>2, <2>4, BlockTypes
  <2>6. \A q \in Rows(act) : act[q] # b
    BY <2>5 DEF h
  <2>7. ASSUME NEW q \in Rows(next)
        PROVE  q = h \/ (q \in Rows(act) /\ q <= p /\ next[q] = act[q])
    <3>1. CASE q # h
      <4>1. q \in Rows(act)
        BY <1>5, <2>7, <3>1 DEF Rows
      <4> QED
        BY <2>2, <2>3, <4>1
    <3> QED
      BY <3>1
  <2>8. ASSUME NEW q \in Rows(next), NEW r \in Rows(next), q <= r
        PROVE  Blk[next[q]].height <= Blk[next[r]].height
    <3>1. CASE r = h /\ q = h
      BY <1>2, <1>5, <3>1 DEF h
    <3>2. CASE r = h /\ q # h
      BY <1>2, <1>5, <2>5, <2>7, <3>2 DEF h
    <3>3. CASE r # h
      <4>1. r \in Rows(act) /\ r <= p /\ next[r] = act[r]
        BY <2>7, <3>3
      <4>2. q # h
        BY <1>2, <1>3, <2>1, <2>2, <2>8, <4>1
      <4>3. q \in Rows(act) /\ next[q] = act[q]
        BY <2>7, <4>2
      <4> QED
        BY <1>11, <2>8, <4>1, <4>3 DEF Climbs
    <3> QED
      BY <3>1, <3>2, <3>3
  <2> QED
    BY <2>1, <2>2, <2>3, <2>6, <2>7, <2>8 DEF Climbs
<1>12. ASSUME act[p] = Blk[b].prev, Climbs(act), LinkedTable(act, bod)
       PROVE  LinkedTable(next, bod \cup {b})
  <2> DEFINE all == bod \cup {b}
  <2>1. \A q \in Whole(next, all) : q = h \/ (q \in Whole(act, bod) /\ q <= p /\ next[q] = act[q])
    <3> SUFFICES ASSUME NEW q \in Whole(next, all), q # h
                 PROVE  q \in Whole(act, bod) /\ q <= p /\ next[q] = act[q]
      OBVIOUS
    <3>1. q \in Rows(next) /\ next[q] \in bod \cup {b} /\ q \in 0..MaxHeight
      BY <1>3 DEF Rows, Whole
    <3>2. q \in Rows(act) /\ q <= p /\ next[q] = act[q] /\ act[q] # b
      BY <1>11, <1>12, <3>1
    <3> QED
      BY <3>1, <3>2 DEF Whole
  <2>2. \A q \in Whole(act, bod) : q \in Whole(next, all) /\ q <= p /\ next[q] = act[q]
    <3> SUFFICES ASSUME NEW q \in Whole(act, bod)
                 PROVE  q \in Whole(next, all) /\ q <= p /\ next[q] = act[q]
      OBVIOUS
    <3>1. q \in Rows(act) /\ act[q] \in bod /\ q \in 0..MaxHeight
      BY <1>3 DEF Rows, Whole
    <3> QED
      BY <1>11, <1>12, <3>1 DEF Whole
  <2>3. p < h /\ p \in 0..MaxHeight
    BY <1>3, <1>11, <1>12
  <2>4. \A q \in Whole(next, all) \cup Whole(act, bod) : q \in Int
    BY <1>2 DEF Whole
  <2>5. ASSUME act[p] \notin bod, NEW q \in Whole(act, bod)
        PROVE  FALSE
    <3>1. act[p] = Genesis /\ p \in Rows(act)
      BY <1>3, <2>5 DEF Rows
    <3>2. p <= 0
      BY <1>4, <3>1, BranchAssumption
    <3>3. q = p
      BY <1>2, <2>2, <2>3, <3>2 DEF Whole
    <3> QED
      BY <2>5, <3>3 DEF Whole
  <2> HIDE DEF all
  <2> SUFFICES ASSUME NEW q \in Whole(next, all), NEW r \in Whole(next, all), q < r,
                      \A m \in Whole(next, all) : ~(q < m /\ m < r)
               PROVE  Blk[next[r]].prev = next[q]
    BY DEF LinkedTable, all
  <2>6. q # h
    BY <1>2, <2>1, <2>3, <2>4
  <2>7. q \in Whole(act, bod) /\ q <= p /\ next[q] = act[q]
    BY <2>1, <2>6
  <2>8. CASE r = h
    <3>1. p \in Whole(act, bod)
      BY <2>3, <2>5, <2>7 DEF Whole
    <3>2. ~(q < p)
      BY <2>2, <2>3, <2>8, <3>1
    <3>3. q = p
      BY <2>3, <2>4, <2>7, <3>2
    <3> QED
      BY <1>5, <1>12, <2>7, <2>8, <3>3
  <2>9. CASE r # h
    <3>1. r \in Whole(act, bod) /\ next[r] = act[r]
      BY <2>1, <2>9
    <3>2. \A m \in Whole(act, bod) : ~(q < m /\ m < r)
      BY <2>2
    <3> QED
      BY <1>12, <2>7, <3>1, <3>2 DEF LinkedTable
  <2> QED
    BY <2>8, <2>9
<1>13. h \in 0..MaxHeight /\ next[h] = b
  BY <1>2, <1>5
<1>14. /\ h \in 0..MaxHeight /\ next[h] = b
       /\ RoomyTable(next)
       /\ \E q : LastRow(next, bod \cup {b}, q) /\ (act[p] = Blk[b].prev => next[q] = b)
       /\ act[p] = Blk[b].prev /\ Climbs(act) /\ LinkedTable(act, bod) =>
            Climbs(next) /\ LinkedTable(next, bod \cup {b})
  BY <1>6, <1>10, <1>11, <1>12, <1>13
<1> QED
  BY <1>14 DEF AfterPut, next, h

\* prune_bodies on the table save_chain has just written.
LEMMA Dropped ==
  ASSUME NEW c, Roomy(c), c # <<>>, NEW bod, bod \subseteq Proper, BlocksIn(c) \subseteq bod,
         NEW low \in 1..Blk[Tip(c)].height \cup {1}
  PROVE  LET less == {b \in bod : Blk[b].height >= low}
         IN /\ LastRow(OrderOf(c), less, Len(c) - 1)
            /\ Tip(c) # Genesis => Len(c) - 1 \in Whole(OrderOf(c), less)
            /\ Links(c) => LinkedTable(OrderOf(c), less)
<1> DEFINE less == {b \in bod : Blk[b].height >= low}
           act == OrderOf(c)
           N == Len(c)
<1>1. /\ N \in 1..(MaxHeight + 1) /\ RoomyTable(act)
      /\ act[N - 1] = Tip(c) /\ Tip(c) \in BlocksIn(c)
      /\ LastRow(act, bod, N - 1)
      /\ Links(c) => Climbs(act) /\ \A all : None \notin all => LinkedTable(act, all \cup BlocksIn(c))
  BY Saved
<1>2. MaxHeight \in Nat /\ None \notin bod /\ bod \cup BlocksIn(c) = bod
  BY StoreAssumption DEF Proper
<1>3. Tip(c) # Genesis => Tip(c) \in less
  <2>1. Tip(c) \in Proper /\ Tip(c) \in bod
    BY <1>1
  <2>2. Tip(c) # Genesis => Blk[Tip(c)].height = Blk[Blk[Tip(c)].prev].height + 1
    BY <2>1 DEF Proper
  <2>3. Blk[Blk[Tip(c)].prev].height \in Nat
    BY <2>1, BlockTypes DEF Proper
  <2> QED
    BY <2>1, <2>2, <2>3
<1>4. act[N - 1] \in less \cup {Genesis}
  BY <1>1, <1>3
<1> HIDE DEF act, N
<1>5. LastRow(act, less, N - 1)
  BY <1>1, <1>4 DEF LastRow
<1>6. Tip(c) # Genesis => N - 1 \in Whole(act, less)
  BY <1>1, <1>2, <1>3 DEF Whole
<1>7. ASSUME Links(c)
      PROVE  LinkedTable(act, less)
  <2>1. LinkedTable(act, bod) /\ Climbs(act)
    BY <1>1, <1>2, <1>7
  <2>2. \A p \in Whole(act, less) : p \in Whole(act, bod)
    BY DEF Whole
  <2>3. \A p \in Whole(act, bod) : p \in Rows(act) /\ p \in Int /\ act[p] \in Blocks
    BY <1>2 DEF Whole, Rows, Proper
  <2>4. \A p \in Whole(act, bod) : Blk[act[p]].height >= low => p \in Whole(act, less)
    BY DEF Whole
  <2>5. \A p \in Whole(act, less) : Blk[act[p]].height >= low
    BY DEF Whole
  <2> HIDE DEF less
  <2> SUFFICES ASSUME NEW p \in Whole(act, less), NEW q \in Whole(act, less), p < q,
                      \A r \in Whole(act, less) : ~(p < r /\ r < q)
               PROVE  Blk[act[q]].prev = act[p]
    BY DEF LinkedTable
  <2>6. ASSUME NEW r \in Whole(act, bod), p < r, r < q
        PROVE  FALSE
    <3>1. Blk[act[p]].height <= Blk[act[r]].height
      BY <2>1, <2>2, <2>3, <2>6 DEF Climbs
    <3>2. Blk[act[p]].height >= low /\ Blk[act[p]].height \in Nat /\ Blk[act[r]].height \in Nat
      BY <2>2, <2>3, <2>5, BlockTypes
    <3>3. low \in Int
      BY <1>1, BlockTypes DEF Proper
    <3>4. Blk[act[r]].height >= low
      BY <3>1, <3>2, <3>3
    <3> QED
      BY <2>4, <2>6, <3>4
  <2> QED
    BY <2>1, <2>2, <2>6 DEF LinkedTable
<1>8. /\ LastRow(act, less, N - 1)
      /\ Tip(c) # Genesis => N - 1 \in Whole(act, less)
      /\ Links(c) => LinkedTable(act, less)
  BY <1>5, <1>6, <1>7
<1> QED
  BY <1>8 DEF less, act, N

-----------------------------------------------------------------------------
(* The invariant *)

\* Tables and memory have room for the heights they hold.
Sound == bodies \subseteq Proper /\ RoomyTable(active) /\ Roomy(chain)

\* The last row is the last commit, unless a write before it was lost.
EndsAtAcked ==
  /\ \E p \in 0..MaxHeight : LastRow(active, bodies, p) /\ (torn \/ active[p] = acked)
  /\ acked # Genesis => \E p \in Whole(active, bodies) : active[p] = acked

\* Where prune is, and what it has established.
PruneUnderWay ==
  /\ pc \in {"savePruned", "snapshot", "bodies", "meta"} => below \in 1..Height \cup {1}
  /\ pc \in {"bodies", "meta"} \/ prunedBelow > 0 => snapshot # None
  /\ pc \in {"snapshot", "bodies"} =>
       /\ active = OrderOf(chain) /\ BlocksIn(chain) \subseteq bodies
       /\ acked = Tip(chain) /\ ~torn
  /\ pruned => prunedBelow > 0
  /\ pc = "append" => Tip(chain) # Genesis

\* A full store that lost nothing holds the branch of the last commit.
FullTables ==
  ~torn /\ prunedBelow = 0 /\ pc # "meta" =>
    /\ acked \in ValidTips
    /\ active = OrderOf(Blk[acked].branch)
    /\ BlocksIn(Blk[acked].branch) \subseteq bodies

\* As long as no write fails, tables and memory are linked and agree.
Undamaged ==
  failures = 0 =>
    /\ Climbs(active) /\ LinkedTable(active, bodies)
    /\ pc # "down" => ~torn /\ Links(chain)
    /\ pc \in {"idle", "savePruned", "snapshot", "bodies", "meta"} => acked = Tip(chain)
    /\ pc = "append" => acked = Blk[Tip(chain)].prev

StoreInv ==
  IInv /\ TypeOK /\ Sound /\ EndsAtAcked /\ PruneUnderWay /\ FullTables /\ Undamaged

\* A roomy list is a list of blocks, and its tip one of them.
LEMMA RoomyTip ==
  ASSUME NEW c, Roomy(c), c # <<>>
  PROVE  /\ c \in Seq(Blocks) /\ Len(c) \in Nat \ {0}
         /\ Tip(c) \in Proper /\ Tip(c) \in Blocks /\ Tip(c) \in BlocksIn(c)
         /\ Blk[Tip(c)].height \in Nat /\ Len(c) - 1 <= Blk[Tip(c)].height
         /\ BlocksIn(c) \subseteq Proper
<1>1. c \in Seq(Proper) /\ Len(c) \in Nat \ {0} /\ \A i \in 1..Len(c) : i - 1 <= Blk[c[i]].height
  BY DEF Roomy
<1>2. Proper \subseteq Blocks
  BY DEF Proper
<1>3. \A i \in 1..Len(c) : c[i] \in Proper /\ c[i] \in Blocks
  BY <1>1, <1>2
<1>4. c \in Seq(Blocks)
  BY <1>1, <1>3
<1>5. Len(c) \in 1..Len(c)
  BY <1>1
<1> QED
  BY <1>1, <1>3, <1>4, <1>5, BlockTypes DEF Tip, BlocksIn

\* One more block on a roomy list.
LEMMA RoomyAppend ==
  ASSUME NEW c, Roomy(c), c # <<>>, NEW b \in Blocks, NEW u, BlockValid(b, Tip(c), u, Now)
  PROVE  /\ b \in Proper /\ b # Genesis /\ Blk[b].prev = Tip(c)
         /\ Roomy(Append(c, b)) /\ Append(c, b) # <<>> /\ Tip(Append(c, b)) = b
         /\ Links(c) => Links(Append(c, b))
<1> DEFINE e == Append(c, b)
           N == Len(c)
<1>1. /\ c \in Seq(Proper) /\ N \in Nat \ {0} /\ \A i \in 1..N : i - 1 <= Blk[c[i]].height
      /\ N - 1 <= Blk[Tip(c)].height /\ Blk[Tip(c)].height \in Nat /\ Tip(c) = c[N]
  BY RoomyTip DEF Roomy, Tip
<1>2. Blk[b].prev = Tip(c) /\ Blk[b].height = Blk[Tip(c)].height + 1
  BY DEF BlockValid
<1>3. b \in Proper /\ b # Genesis
  BY <1>1, <1>2, BranchAssumption DEF Proper
<1>4. /\ e \in Seq(Proper) /\ Len(e) = N + 1 /\ e[N + 1] = b
      /\ \A i \in 1..N : e[i] = c[i]
  BY <1>1, <1>3
<1> HIDE DEF e
<1>5. \A i \in 1..(N + 1) : i \in 1..N \/ i = N + 1
  BY <1>1
<1>6. \A i \in 1..Len(e) : i - 1 <= Blk[e[i]].height
  <2> SUFFICES ASSUME NEW i \in 1..(N + 1) PROVE i - 1 <= Blk[e[i]].height
    BY <1>4
  <2>1. CASE i \in 1..N
    BY <1>1, <1>4, <2>1
  <2>2. CASE i = N + 1
    BY <1>1, <1>2, <1>4, <2>2
  <2> QED
    BY <1>5, <2>1, <2>2
<1>7. ASSUME Links(c)
      PROVE  Links(e)
  <2> SUFFICES ASSUME NEW i \in 2..(N + 1) PROVE Blk[e[i]].prev = e[i - 1]
    BY <1>4 DEF Links
  <2>1. CASE i \in 1..N
    <3>1. i \in 2..N /\ i - 1 \in 1..N
      BY <1>1, <2>1
    <3> QED
      BY <1>4, <1>7, <2>1, <3>1 DEF Links
  <2>2. CASE i = N + 1
    <3>1. i - 1 = N /\ N \in 1..N
      BY <1>1, <2>2
    <3> QED
      BY <1>1, <1>2, <1>4, <2>2, <3>1
  <2> QED
    BY <1>1, <2>1, <2>2
<1>8. Roomy(e) /\ e # <<>> /\ Tip(e) = b
  BY <1>1, <1>4, <1>6 DEF Roomy, Tip
<1> QED
  BY <1>2, <1>3, <1>7, <1>8 DEF e

LEMMA AppliedAreOutpoints ==
  ASSUME NEW b \in Blocks, NEW u, u \subseteq Outpoints
  PROVE  ApplyBlock(b, u) \subseteq Outpoints
<1>1. BlockOuts(b) \subseteq Outpoints
  <2>1. Blk[b].coinbase \subseteq Outpoints /\ \A t \in TxsOf(b) : t \in Txs
    BY BlockTypes DEF TxsOf
  <2>2. \A t \in TxsOf(b) : Outs(t) \subseteq Outpoints
    BY <2>1, TxTypes DEF Outs
  <2> QED
    BY <2>1, <2>2 DEF BlockOuts
<1> QED
  BY <1>1 DEF ApplyBlock

\* A branch that passes validation fits the tables.
LEMMA TipIsRoomy ==
  ASSUME NEW b \in ValidTips
  PROVE  LET c == Blk[b].branch
         IN /\ b \in Blocks /\ Tip(c) = b /\ c # <<>> /\ c \in Seq(Blocks)
            /\ Serves(c, UtxosOf(c), Now) /\ UtxosOf(c) \subseteq Outpoints
            /\ Roomy(c) /\ Links(c)
<1>1. b \in Blocks /\ ValidBranch(Blk[b].branch, Now)
  BY DEF ValidTips
<1>2. Tip(Blk[b].branch) = b /\ Serves(Blk[b].branch, UtxosOf(Blk[b].branch), Now)
  BY <1>1, BranchServes
<1>3. Blk[b].branch \in Seq(Blocks) /\ Blk[b].branch # <<>>
  BY <1>1, BranchTip
<1> QED
  BY <1>1, <1>2, <1>3, ServedIsRoomy, UtxosAreOutpoints

\* The first start.
LEMMA InitStore ==
  ASSUME Init
  PROVE  StoreInv
<1> DEFINE c == Blk[Genesis].branch
<1>1. Genesis \in ValidTips /\ c = <<Genesis>>
  BY StoreAssumption, BranchAssumption
<1>2. /\ Tip(c) = Genesis /\ c # <<>> /\ c \in Seq(Blocks) /\ UtxosOf(c) \subseteq Outpoints
      /\ Roomy(c) /\ Links(c) /\ BlocksIn(c) = {Genesis}
  BY <1>1, TipIsRoomy DEF BlocksIn
<1>3. /\ RoomyTable(OrderOf(c)) /\ OrderOf(c)[Len(c) - 1] = Genesis
      /\ LastRow(OrderOf(c), {Genesis}, Len(c) - 1)
      /\ Climbs(OrderOf(c))
      /\ \A bod : None \notin bod => LinkedTable(OrderOf(c), bod \cup {Genesis})
  BY <1>2, Saved
<1>4. Genesis \in Proper /\ None \notin {} /\ {} \cup {Genesis} = {Genesis} /\ Genesis \in Blocks
  BY CatalogueAssumption DEF Proper
<1>5. LinkedTable(OrderOf(c), {Genesis})
  BY <1>3, <1>4
<1> HIDE DEF c
<1>6. /\ pc = "idle" /\ chain = c /\ utxos = UtxosOf(c) /\ pruned = FALSE /\ below = 0
      /\ bodies = {Genesis} /\ active = OrderOf(c) /\ snapshot = None /\ prunedBelow = 0
      /\ acked = Genesis /\ torn = FALSE /\ crashes = 0 /\ failures = 0
  BY <1>1 DEF Init
<1>7. IInv
  BY InitServes
<1>8. TypeOK
  <2>1. active \in [0..MaxHeight -> Blocks \cup {None}]
    BY <1>3, <1>6 DEF RoomyTable, Proper
  <2>2. 0 \in 0..MaxCrashes /\ 0 \in 0..MaxFailures
    BY StoreAssumption
  <2>3. chain \in Seq(Blocks) /\ (chain = <<>> <=> pc = "down")
    BY <1>2, <1>6
  <2>4. utxos \subseteq Outpoints /\ bodies \subseteq Blocks /\ acked \in Blocks
    BY <1>2, <1>4, <1>6
  <2> QED
    BY <1>6, <2>1, <2>2, <2>3, <2>4 DEF TypeOK
<1>9. Sound
  BY <1>2, <1>3, <1>4, <1>6 DEF Sound
<1>10. EndsAtAcked
  BY <1>3, <1>6 DEF EndsAtAcked, LastRow
<1>11. PruneUnderWay
  BY <1>6 DEF PruneUnderWay
<1>12. FullTables
  BY <1>1, <1>2, <1>6 DEF FullTables, c
<1>13. Undamaged
  BY <1>2, <1>3, <1>5, <1>6 DEF Undamaged
<1> QED
  BY <1>7, <1>8, <1>9, <1>10, <1>11, <1>12, <1>13 DEF StoreInv

\* What a call does in memory leaves the tables what they are.
LEMMA ConnectStore ==
  ASSUME StoreInv, NEW b \in Blocks, Connect(b)
  PROVE  StoreInv'
<1>1. /\ pc = "idle" /\ pc' = "append"
      /\ BlockValid(b, Tip(chain), utxos, Now)
      /\ chain' = Append(chain, b) /\ utxos' = ApplyBlock(b, utxos)
      /\ UNCHANGED <<pruned, below, bodies, active, snapshot, prunedBelow, acked, torn, crashes, failures>>
  BY DEF Connect, tables, faults
<1>2. Roomy(chain) /\ chain # <<>> /\ utxos \subseteq Outpoints
  BY <1>1 DEF StoreInv, Sound, TypeOK
<1>3. /\ b # Genesis /\ Blk[b].prev = Tip(chain)
      /\ Roomy(chain') /\ chain' # <<>> /\ Tip(chain') = b
      /\ Links(chain) => Links(chain')
  BY <1>1, <1>2, RoomyAppend
<1>4. utxos' \subseteq Outpoints /\ chain' \in Seq(Blocks)
  BY <1>1, <1>2, <1>3, AppliedAreOutpoints, RoomyTip
<1>5. IInv'
  BY StepServes DEF StoreInv, Next
<1>6. TypeOK'
  BY <1>1, <1>3, <1>4 DEF StoreInv, TypeOK, Commits
<1>7. Sound'
  BY <1>1, <1>3 DEF StoreInv, Sound
<1>8. EndsAtAcked'
  BY <1>1 DEF StoreInv, EndsAtAcked
<1>9. PruneUnderWay'
  BY <1>1, <1>3 DEF StoreInv, PruneUnderWay
<1>10. FullTables'
  BY <1>1 DEF StoreInv, FullTables
<1>11. Undamaged'
  BY <1>1, <1>3 DEF StoreInv, Undamaged
<1> QED
  BY <1>5, <1>6, <1>7, <1>8, <1>9, <1>10, <1>11 DEF StoreInv

LEMMA SwitchStore ==
  ASSUME StoreInv, NEW b \in Blocks, SwitchTo(b)
  PROVE  StoreInv'
<1> DEFINE c == Blk[b].branch
<1>1. /\ pc = "idle" /\ pc' = "save" /\ b \in ValidTips
      /\ chain' = c /\ (utxos' = utxos \/ utxos' = UtxosOf(c))
      /\ UNCHANGED <<pruned, below, bodies, active, snapshot, prunedBelow, acked, torn, crashes, failures>>
  BY DEF SwitchTo, tables, faults
<1>2. /\ c # <<>> /\ c \in Seq(Blocks) /\ UtxosOf(c) \subseteq Outpoints
      /\ Roomy(c) /\ Links(c)
  BY <1>1, TipIsRoomy
<1> HIDE DEF c
<1>3. IInv'
  BY StepServes DEF StoreInv, Next
<1>4. TypeOK'
  BY <1>1, <1>2 DEF StoreInv, TypeOK, Commits
<1>5. Sound'
  BY <1>1, <1>2 DEF StoreInv, Sound
<1>6. EndsAtAcked'
  BY <1>1 DEF StoreInv, EndsAtAcked
<1>7. PruneUnderWay'
  BY <1>1 DEF StoreInv, PruneUnderWay
<1>8. FullTables'
  BY <1>1 DEF StoreInv, FullTables
<1>9. Undamaged'
  BY <1>1, <1>2 DEF StoreInv, Undamaged
<1> QED
  BY <1>3, <1>4, <1>5, <1>6, <1>7, <1>8, <1>9 DEF StoreInv

LEMMA PruneStore ==
  ASSUME StoreInv, NEW k \in KeepDepths, Prune(k)
  PROVE  StoreInv'
<1>1. /\ pc = "idle" /\ pc' = "savePruned" /\ below' = Floor(k)
      /\ UNCHANGED <<chain, utxos, pruned, bodies, active, snapshot, prunedBelow, acked, torn, crashes, failures>>
  BY DEF Prune, memory, tables, faults
<1>2. Roomy(chain) /\ chain # <<>>
  BY <1>1 DEF StoreInv, Sound, TypeOK
<1>3. Height \in Nat /\ k \in Nat \ {0}
  BY <1>2, RoomyTip, StoreAssumption DEF Height
<1>4. below' \in 1..Height \cup {1} /\ below' \in Nat /\ Height' = Height
  BY <1>1, <1>3 DEF Floor, Height
<1>5. IInv'
  BY StepServes DEF StoreInv, Next
<1>6. TypeOK'
  BY <1>1, <1>4 DEF StoreInv, TypeOK, Commits
<1>7. Sound'
  BY <1>1 DEF StoreInv, Sound
<1>8. EndsAtAcked'
  BY <1>1 DEF StoreInv, EndsAtAcked
<1>9. PruneUnderWay'
  BY <1>1, <1>4 DEF StoreInv, PruneUnderWay
<1>10. FullTables'
  BY <1>1 DEF StoreInv, FullTables
<1>11. Undamaged'
  BY <1>1 DEF StoreInv, Undamaged
<1> QED
  BY <1>5, <1>6, <1>7, <1>8, <1>9, <1>10, <1>11 DEF StoreInv

\* The commits.
LEMMA AppendStore ==
  ASSUME StoreInv, AppendBlock
  PROVE  StoreInv'
<1> DEFINE b == Tip(chain)
           next == [active EXCEPT ![Blk[b].height] = b]
<1>1. /\ pc = "append" /\ pc' = "idle"
      /\ bodies' = bodies \cup {b} /\ active' = next
      /\ torn' = (torn \/ acked # Blk[b].prev) /\ acked' = b
      /\ UNCHANGED <<chain, utxos, pruned, below, snapshot, prunedBelow, crashes, failures>>
  BY DEF AppendBlock, Height, memory, faults
<1>2. Roomy(chain) /\ chain # <<>> /\ bodies \subseteq Proper /\ RoomyTable(active)
  BY <1>1 DEF StoreInv, Sound, TypeOK
<1>3. b \in Proper /\ b \in Blocks /\ b # Genesis
  BY <1>1, <1>2, RoomyTip DEF StoreInv, PruneUnderWay
<1>4. PICK p \in 0..MaxHeight : LastRow(active, bodies, p) /\ (torn \/ active[p] = acked)
  BY DEF StoreInv, EndsAtAcked
<1>5. /\ Blk[b].height \in 0..MaxHeight /\ next[Blk[b].height] = b
      /\ RoomyTable(next)
      /\ \E q : LastRow(next, bodies \cup {b}, q) /\ (active[p] = Blk[b].prev => next[q] = b)
      /\ active[p] = Blk[b].prev /\ Climbs(active) /\ LinkedTable(active, bodies) =>
           Climbs(next) /\ LinkedTable(next, bodies \cup {b})
  <2> HIDE DEF b
  <2>1. Puts(active, bodies, p, b)
    BY <1>2, <1>3, <1>4 DEF Puts
  <2>2. AfterPut(next, active, bodies, p, b)
    BY <2>1, Put
  <2> QED
    BY <2>2 DEF AfterPut
<1>6. FullTables'
  <2> SUFFICES ASSUME ~torn', prunedBelow = 0
               PROVE  /\ b \in ValidTips
                      /\ next = OrderOf(Blk[b].branch)
                      /\ BlocksIn(Blk[b].branch) \subseteq bodies \cup {b}
    BY <1>1 DEF FullTables
  <2> DEFINE s == Blk[acked].branch
             e == Blk[b].branch
  <2>1. ~torn /\ acked = Blk[b].prev
    BY <1>1
  <2>2. acked \in ValidTips /\ active = OrderOf(s) /\ BlocksIn(s) \subseteq bodies
    BY <1>1, <2>1 DEF StoreInv, FullTables
  <2>3. ~pruned
    BY StoreAssumption DEF StoreInv, PruneUnderWay, TypeOK
  <2>4. Serves(chain, utxos, Now)
    BY <1>1, <2>3 DEF StoreInv, IInv
  <2>5. b \in ValidTips
    BY <1>3, <2>4 DEF Serves, ValidTips
  <2>6. e = Append(s, b)
    BY <1>3, <2>1, BranchAssumption
  <2>7. s \in Seq(Blocks) /\ Roomy(s) /\ s # <<>> /\ Serves(s, UtxosOf(s), Now) /\ Tip(s) = acked
    BY <2>2, TipIsRoomy
  <2>8. Len(s) = Blk[acked].height + 1
    BY <2>7, ServedIsRoomy
  <2>9. Blk[b].height = Len(s)
    BY <1>3, <2>1, <2>8 DEF Proper
  <2>10. next = OrderOf(e)
    <3>1. Len(s) \in Nat /\ Len(e) = Len(s) + 1 /\ e[Len(s) + 1] = b
          /\ \A i \in 1..Len(s) : e[i] = s[i]
      BY <1>3, <2>6, <2>7
    <3>2. MaxHeight \in Nat
      BY StoreAssumption
    <3>3. ASSUME NEW r \in 0..MaxHeight
          PROVE  next[r] = OrderOf(e)[r]
      <4>1. OrderOf(e)[r] = IF r < Len(e) THEN e[r + 1] ELSE None
        BY DEF OrderOf
      <4>2. active[r] = IF r < Len(s) THEN s[r + 1] ELSE None
        BY <2>2 DEF OrderOf
      <4>3. CASE r = Len(s)
        BY <1>5, <2>9, <3>1, <4>1, <4>3
      <4>4. CASE r # Len(s)
        <5>1. next[r] = active[r]
          BY <1>2, <2>9, <4>4 DEF RoomyTable
        <5>2. r < Len(s) => r + 1 \in 1..Len(s)
          BY <3>1, <3>2
        <5>3. r < Len(e) <=> r < Len(s)
          BY <3>1, <3>2, <4>4
        <5> HIDE DEF next, e, s
        <5> QED
          BY <3>1, <4>1, <4>2, <5>1, <5>2, <5>3
      <4> QED
        BY <4>3, <4>4
    <3>4. next = [r \in 0..MaxHeight |-> next[r]] /\ OrderOf(e) = [r \in 0..MaxHeight |-> OrderOf(e)[r]]
      <4>1. next \in [0..MaxHeight -> Proper \cup {None}]
        BY <1>5 DEF RoomyTable
      <4> HIDE DEF next
      <4> QED
        BY <4>1 DEF OrderOf
    <3> HIDE DEF next, e
    <3> QED
      BY <3>3, <3>4
  <2>11. BlocksIn(e) \subseteq bodies \cup {b}
    <3>1. \A i \in DOMAIN e : e[i] = b \/ \E j \in DOMAIN s : e[i] = s[j]
      BY <1>3, <2>6, <2>7
    <3> QED
      BY <2>2, <3>1 DEF BlocksIn
  <2> QED
    BY <2>5, <2>10, <2>11
<1> HIDE DEF next, b
<1>7. IInv'
  BY StepServes DEF StoreInv, Next
<1>8. TypeOK'
  <2>1. active' \in [0..MaxHeight -> Blocks \cup {None}] /\ bodies' \subseteq Blocks
    BY <1>1, <1>2, <1>3, <1>5 DEF RoomyTable, Proper
  <2> QED
    BY <1>1, <1>3, <2>1 DEF StoreInv, TypeOK
<1>9. Sound'
  BY <1>1, <1>2, <1>3, <1>5 DEF Sound
<1>10. EndsAtAcked'
  <2>1. PICK q : LastRow(next, bodies \cup {b}, q) /\ (active[p] = Blk[b].prev => next[q] = b)
    BY <1>5
  <2>2. torn' \/ next[q] = b
    BY <1>1, <1>4, <2>1 DEF StoreInv, TypeOK
  <2>3. \E r \in 0..MaxHeight : LastRow(active', bodies', r) /\ (torn' \/ active'[r] = acked')
    BY <1>1, <2>1, <2>2 DEF LastRow
  <2>4. \E r \in Whole(active', bodies') : active'[r] = acked'
    BY <1>1, <1>5 DEF Whole
  <2> QED
    BY <2>3, <2>4 DEF EndsAtAcked
<1>11. PruneUnderWay'
  BY <1>1 DEF StoreInv, PruneUnderWay
<1>12. Undamaged'
  <2> SUFFICES ASSUME failures = 0
               PROVE  /\ Climbs(next) /\ LinkedTable(next, bodies \cup {b})
                      /\ ~torn' /\ Links(chain)
    BY <1>1 DEF Undamaged, b
  <2>1. /\ Climbs(active) /\ LinkedTable(active, bodies) /\ ~torn /\ Links(chain)
        /\ acked = Blk[b].prev
    BY <1>1 DEF StoreInv, Undamaged, b
  <2> QED
    BY <1>1, <1>4, <1>5, <2>1
<1> QED
  BY <1>6, <1>7, <1>8, <1>9, <1>10, <1>11, <1>12 DEF StoreInv

LEMMA SaveStore ==
  ASSUME StoreInv, SaveChain
  PROVE  StoreInv'
<1>1. /\ pc \in {"save", "savePruned"}
      /\ pc' = "idle" \/ (pc = "savePruned" /\ pc' = "snapshot")
      /\ bodies' = bodies \cup BlocksIn(chain) /\ active' = OrderOf(chain)
      /\ acked' = Tip(chain) /\ torn' = FALSE
      /\ UNCHANGED <<chain, utxos, pruned, below, snapshot, prunedBelow, crashes, failures>>
  BY DEF SaveChain, memory, faults
<1>2. Roomy(chain) /\ chain # <<>> /\ bodies \subseteq Proper
  BY <1>1 DEF StoreInv, Sound, TypeOK
<1>3. /\ Tip(chain) \in Blocks /\ Tip(chain) \in BlocksIn(chain) /\ BlocksIn(chain) \subseteq Proper
      /\ Len(chain) \in Nat \ {0}
  BY <1>2, RoomyTip
<1>4. /\ Len(chain) \in 1..(MaxHeight + 1)
      /\ RoomyTable(OrderOf(chain))
      /\ OrderOf(chain)[Len(chain) - 1] = Tip(chain)
      /\ \A bod : BlocksIn(chain) \subseteq bod => LastRow(OrderOf(chain), bod, Len(chain) - 1)
      /\ Links(chain) =>
           /\ Climbs(OrderOf(chain))
           /\ \A bod : None \notin bod => LinkedTable(OrderOf(chain), bod \cup BlocksIn(chain))
  BY <1>2, Saved
<1>5. LastRow(active', bodies', Len(chain) - 1)
  BY <1>1, <1>4
<1>6. IInv'
  BY StepServes DEF StoreInv, Next
<1>7. TypeOK'
  <2>1. active' \in [0..MaxHeight -> Blocks \cup {None}] /\ bodies' \subseteq Blocks
    BY <1>1, <1>2, <1>3, <1>4 DEF RoomyTable, Proper
  <2> QED
    BY <1>1, <1>3, <2>1 DEF StoreInv, TypeOK, Commits
<1>8. Sound'
  BY <1>1, <1>2, <1>3, <1>4 DEF Sound
<1>9. EndsAtAcked'
  <2>1. Len(chain) - 1 \in 0..MaxHeight
    BY <1>5 DEF LastRow
  <2>2. active'[Len(chain) - 1] = acked' /\ Len(chain) - 1 \in Whole(active', bodies')
    BY <1>1, <1>3, <1>4, <2>1 DEF Whole
  <2> QED
    BY <1>5, <2>1, <2>2 DEF EndsAtAcked
<1>10. PruneUnderWay'
  <2>1. Height' = Height
    BY <1>1 DEF Height
  <2> QED
    BY <1>1, <2>1 DEF StoreInv, PruneUnderWay
<1>11. FullTables'
  <2> SUFFICES ASSUME prunedBelow = 0
               PROVE  /\ Tip(chain) \in ValidTips
                      /\ OrderOf(chain) = OrderOf(Blk[Tip(chain)].branch)
                      /\ BlocksIn(Blk[Tip(chain)].branch) \subseteq bodies \cup BlocksIn(chain)
    BY <1>1 DEF FullTables
  <2>1. ~pruned /\ pc # "down"
    BY <1>1 DEF StoreInv, PruneUnderWay
  <2>2. chain = Blk[Tip(chain)].branch /\ ValidBranch(chain, Now)
    BY <2>1 DEF StoreInv, IInv, Serves
  <2>3. Tip(chain) \in ValidTips
    BY <1>3, <2>2 DEF ValidTips
  <2> QED
    BY <2>2, <2>3
<1>12. Undamaged'
  <2> SUFFICES ASSUME failures = 0
               PROVE  /\ Climbs(OrderOf(chain)) /\ LinkedTable(OrderOf(chain), bodies \cup BlocksIn(chain))
                      /\ Links(chain)
    BY <1>1 DEF Undamaged
  <2>1. Links(chain)
    BY <1>1 DEF StoreInv, Undamaged
  <2>2. None \notin bodies
    BY <1>2, StoreAssumption DEF Proper
  <2> QED
    BY <1>4, <2>1, <2>2
<1> QED
  BY <1>6, <1>7, <1>8, <1>9, <1>10, <1>11, <1>12 DEF StoreInv

LEMMA SnapshotStore ==
  ASSUME StoreInv, SaveSnapshot \/ SetMeta
  PROVE  StoreInv'
<1>1. /\ pc \in {"snapshot", "meta"}
      /\ pc = "snapshot" => pc' = "bodies" /\ snapshot' = utxos /\ prunedBelow' = prunedBelow
      /\ pc = "meta" => pc' = "idle" /\ snapshot' = snapshot /\ prunedBelow' = below
      /\ UNCHANGED <<chain, utxos, pruned, below, bodies, active, acked, torn, crashes, failures>>
  BY DEF SaveSnapshot, SetMeta, memory, faults
<1>2. utxos \subseteq Outpoints /\ utxos # None
  BY StoreAssumption DEF StoreInv, TypeOK
<1>3. Roomy(chain) /\ chain # <<>>
  BY <1>1 DEF StoreInv, Sound, TypeOK
<1>4. Height \in Nat
  BY <1>3, RoomyTip DEF Height
<1>5. below \in Nat /\ below > 0 /\ prunedBelow \in Nat
  BY <1>1, <1>4 DEF StoreInv, PruneUnderWay, TypeOK
<1>6. IInv'
  BY StepServes DEF StoreInv, Next
<1>7. TypeOK'
  BY <1>1, <1>2, <1>5 DEF StoreInv, TypeOK, Commits
<1>8. Sound'
  BY <1>1 DEF StoreInv, Sound
<1>9. EndsAtAcked'
  BY <1>1 DEF StoreInv, EndsAtAcked
<1>10. PruneUnderWay'
  <2>1. Height' = Height
    BY <1>1 DEF Height
  <2> QED
    BY <1>1, <1>2, <1>5, <2>1 DEF StoreInv, PruneUnderWay
<1>11. FullTables'
  BY <1>1, <1>5 DEF StoreInv, FullTables
<1>12. Undamaged'
  BY <1>1 DEF StoreInv, Undamaged
<1> QED
  BY <1>6, <1>7, <1>8, <1>9, <1>10, <1>11, <1>12 DEF StoreInv

LEMMA DropStore ==
  ASSUME StoreInv, PruneBodies
  PROVE  StoreInv'
<1> DEFINE less == {b \in bodies : Blk[b].height >= below}
<1>1. /\ pc = "bodies" /\ pc' = "meta" /\ bodies' = less
      /\ UNCHANGED <<chain, utxos, pruned, below, active, snapshot, prunedBelow, acked, torn, crashes, failures>>
  BY DEF PruneBodies, memory, faults
<1>2. /\ Roomy(chain) /\ chain # <<>> /\ bodies \subseteq Proper /\ active = OrderOf(chain)
      /\ BlocksIn(chain) \subseteq bodies /\ acked = Tip(chain) /\ ~torn
      /\ below \in 1..Blk[Tip(chain)].height \cup {1}
  BY <1>1 DEF StoreInv, Sound, TypeOK, PruneUnderWay, Height
<1>3. /\ LastRow(active, less, Len(chain) - 1)
      /\ Tip(chain) # Genesis => Len(chain) - 1 \in Whole(active, less)
      /\ Links(chain) => LinkedTable(active, less)
  BY <1>2, Dropped, ZenonT(30)
<1>4. active[Len(chain) - 1] = Tip(chain) /\ less \subseteq bodies
  BY <1>2, Saved
<1> HIDE DEF less
<1>5. IInv'
  BY StepServes DEF StoreInv, Next
<1>6. TypeOK'
  BY <1>1, <1>4 DEF StoreInv, TypeOK, Commits
<1>7. Sound'
  BY <1>1, <1>4 DEF StoreInv, Sound
<1>8. EndsAtAcked'
  <2>1. Len(chain) - 1 \in 0..MaxHeight
    BY <1>3 DEF LastRow
  <2> QED
    BY <1>1, <1>2, <1>3, <1>4, <2>1 DEF EndsAtAcked
<1>9. PruneUnderWay'
  <2>1. Height' = Height
    BY <1>1 DEF Height
  <2> QED
    BY <1>1, <2>1 DEF StoreInv, PruneUnderWay
<1>10. FullTables'
  BY <1>1 DEF FullTables
<1>11. Undamaged'
  BY <1>1, <1>3 DEF StoreInv, Undamaged
<1> QED
  BY <1>5, <1>6, <1>7, <1>8, <1>9, <1>10, <1>11 DEF StoreInv

\* Faults.
LEMMA FaultStore ==
  ASSUME StoreInv, WriteFails \/ Crash
  PROVE  StoreInv'
<1>1. /\ pc # "down" /\ torn' = (torn \/ HalfPruned)
      /\ UNCHANGED <<bodies, active, snapshot, prunedBelow, acked>>
      /\ \/ /\ pc' = "idle" /\ failures < MaxFailures /\ failures' = failures + 1
            /\ UNCHANGED <<chain, utxos, pruned, below, crashes>>
         \/ /\ pc' = "down" /\ chain' = <<>> /\ utxos' = {} /\ pruned' = FALSE /\ below' = 0
            /\ crashes < MaxCrashes /\ crashes' = crashes + 1 /\ failures' = failures
  BY DEF WriteFails, Crash, Commits, memory, tables
<1>2. Roomy(<<>>)
  BY DEF Roomy
<1>3. /\ torn \in BOOLEAN /\ HalfPruned \in BOOLEAN
      /\ crashes \in 0..MaxCrashes /\ failures \in 0..MaxFailures
      /\ MaxCrashes \in Nat /\ MaxFailures \in Nat
  BY StoreAssumption DEF StoreInv, TypeOK, HalfPruned
<1>4. crashes' \in 0..MaxCrashes /\ failures' \in 0..MaxFailures /\ torn' \in BOOLEAN
      /\ (failures' # failures => failures' # 0)
  BY <1>1, <1>3
<1>5. IInv'
  BY StepServes DEF StoreInv, Next
<1>6. TypeOK'
  <2> DEFINE Typed == /\ chain' \in Seq(Blocks) /\ (chain' = <<>> <=> pc' = "down")
                      /\ pc' \in {"idle", "down"} /\ utxos' \subseteq Outpoints
                      /\ pruned' \in BOOLEAN /\ below' \in Nat
  <2>1. ASSUME pc' = "idle", UNCHANGED <<chain, utxos, pruned, below>>
        PROVE  Typed
    BY <1>1, <2>1 DEF StoreInv, TypeOK
  <2>2. ASSUME pc' = "down", chain' = <<>>, utxos' = {}, pruned' = FALSE, below' = 0
        PROVE  Typed
    <3>1. chain' \in Seq(Blocks) /\ utxos' \subseteq Outpoints
      BY <2>2, EmptySeq
    <3> QED
      BY <2>2, <3>1
  <2>3. /\ prunedBelow' \in Nat /\ bodies' \subseteq Blocks
        /\ active' \in [0..MaxHeight -> Blocks \cup {None}]
        /\ snapshot' = None \/ snapshot' \subseteq Outpoints
        /\ acked' \in Blocks
    BY <1>1 DEF StoreInv, TypeOK
  <2>4. Typed
    BY <1>1, <2>1, <2>2
  <2> QED
    BY <1>4, <2>3, <2>4 DEF TypeOK
<1>7. Sound'
  BY <1>1, <1>2 DEF StoreInv, Sound
<1>8. EndsAtAcked'
  BY <1>1, <1>3 DEF StoreInv, EndsAtAcked
<1>9. PruneUnderWay'
  BY <1>1 DEF StoreInv, PruneUnderWay
<1>10. FullTables'
  BY <1>1, <1>3 DEF StoreInv, FullTables, HalfPruned
<1>11. Undamaged'
  <2>1. CASE failures' # 0
    BY <2>1 DEF Undamaged
  <2>2. CASE failures' = 0
    <3>1. pc' = "down" /\ failures = 0
      BY <1>1, <1>3, <1>4, <2>2
    <3> QED
      BY <1>1, <3>1 DEF StoreInv, Undamaged
  <2> QED
    BY <2>1, <2>2
<1> QED
  BY <1>5, <1>6, <1>7, <1>8, <1>9, <1>10, <1>11 DEF StoreInv

\* The three ways to start.
LEMMA StartStore ==
  ASSUME StoreInv, \/ RestartPruned \/ RestartFromBackup \/ \E b \in Blocks : RestartFull(b)
  PROVE  StoreInv'
<1>1. /\ pc = "down" /\ pc' = "idle" /\ torn' = FALSE
      /\ acked' = Tip(chain')
      /\ UNCHANGED <<below, snapshot, prunedBelow, crashes, failures>>
  BY DEF RestartPruned, RestartFromBackup, RestartFull, Serve, faults, tables
<1>2. IInv'
  BY StepServes DEF StoreInv, Next
<1>3. bodies \subseteq Proper /\ RoomyTable(active)
  BY DEF StoreInv, Sound
<1>4. Retained = Loaded(active, bodies)
  BY DEF Retained, Loaded
<1>5. PICK p \in 0..MaxHeight : LastRow(active, bodies, p)
  BY DEF StoreInv, EndsAtAcked
<1>6. /\ Roomy(Retained)
      /\ Retained # <<>> => Tip(Retained) = active[p] /\ p \in Whole(active, bodies)
      /\ LinkedTable(active, bodies) => Links(Retained)
  BY <1>3, <1>4, <1>5, LoadedIsRoomy, LoadedEnds, LoadedLinks
<1> DEFINE Ok == /\ Roomy(chain') /\ chain' # <<>> /\ utxos' \subseteq Outpoints /\ pruned' \in BOOLEAN
                 /\ bodies' \subseteq Proper /\ RoomyTable(active')
                 /\ \E q \in Whole(active', bodies') : LastRow(active', bodies', q) /\ active'[q] = acked'
                 /\ pruned' => prunedBelow > 0
                 /\ FullTables'
                 /\ failures = 0 =>
                      Climbs(active') /\ LinkedTable(active', bodies') /\ Links(chain')
<1>7. ASSUME RestartPruned
      PROVE  Ok
  <2>1. /\ Retained # <<>> /\ snapshot # None /\ prunedBelow > 0
        /\ chain' = Retained /\ utxos' = snapshot /\ pruned' = TRUE
        /\ bodies' = bodies /\ active' = active
    BY <1>7 DEF RestartPruned, Serve, tables
  <2>2. utxos' \subseteq Outpoints
    BY <2>1 DEF StoreInv, TypeOK
  <2>3. FullTables'
    BY <1>1, <2>1 DEF FullTables, StoreInv, TypeOK
  <2>4. failures = 0 => Climbs(active) /\ LinkedTable(active, bodies)
    BY DEF StoreInv, Undamaged
  <2>5. acked' = active[p]
    BY <1>1, <1>6, <2>1
  <2> QED
    BY <1>3, <1>5, <1>6, <2>1, <2>2, <2>3, <2>4, <2>5
<1>8. ASSUME NEW b \in Blocks, RestartFull(b)
      PROVE  Ok
  <2>1. /\ b \in ValidTips /\ Retained = Blk[b].branch
        /\ chain' = Retained /\ utxos' = UtxosOf(Retained) /\ pruned' = pruned
        /\ bodies' = bodies /\ active' = active
    BY <1>8 DEF RestartFull, Serve, tables
  <2>2. /\ Tip(Retained) = b /\ Retained # <<>> /\ UtxosOf(Retained) \subseteq Outpoints
        /\ Serves(Retained, UtxosOf(Retained), Now) /\ Links(Retained)
    BY <2>1, TipIsRoomy
  <2>3. active = OrderOf(Retained) /\ BlocksIn(Retained) \subseteq bodies
    BY <1>3, <1>4, <1>5, <2>2, BranchIsTable
  <2>4. acked' = active[p] /\ acked' = b
    BY <1>1, <1>6, <2>1, <2>2
  <2>5. FullTables'
    BY <2>1, <2>3, <2>4 DEF FullTables
  <2>6. failures = 0 => Climbs(active) /\ LinkedTable(active, bodies)
    BY DEF StoreInv, Undamaged
  <2>7. pruned \in BOOLEAN /\ (pruned => prunedBelow > 0)
    BY DEF StoreInv, TypeOK, PruneUnderWay
  <2> QED
    BY <1>3, <1>5, <1>6, <2>1, <2>2, <2>4, <2>5, <2>6, <2>7
<1>9. ASSUME RestartFromBackup
      PROVE  Ok
  <2> DEFINE c == Blk[Backup].branch
  <2>1. /\ chain' = c /\ utxos' = UtxosOf(c) /\ pruned' = pruned
        /\ bodies' = bodies \cup BlocksIn(c) /\ active' = OrderOf(c)
    BY <1>9 DEF RestartFromBackup, Serve
  <2>2. Backup \in ValidTips
    BY StoreAssumption
  <2>3. /\ Tip(c) = Backup /\ c # <<>> /\ UtxosOf(c) \subseteq Outpoints
        /\ Roomy(c) /\ Links(c)
    BY <2>2, TipIsRoomy
  <2>4. BlocksIn(c) \subseteq Proper /\ Tip(c) \in BlocksIn(c) /\ Len(c) \in Nat
    BY <2>3, RoomyTip
  <2>5. /\ RoomyTable(OrderOf(c)) /\ OrderOf(c)[Len(c) - 1] = Tip(c)
        /\ LastRow(OrderOf(c), bodies \cup BlocksIn(c), Len(c) - 1)
        /\ Climbs(OrderOf(c))
        /\ \A bod : None \notin bod => LinkedTable(OrderOf(c), bod \cup BlocksIn(c))
    BY <2>3, Saved
  <2>6. None \notin bodies
    BY <1>3, StoreAssumption DEF Proper
  <2>7. LinkedTable(OrderOf(c), bodies \cup BlocksIn(c))
    BY <2>5, <2>6
  <2>8. Len(c) - 1 \in Whole(active', bodies')
    BY <2>1, <2>4, <2>5 DEF Whole, LastRow
  <2>9. FullTables'
    BY <1>1, <2>1, <2>2, <2>3 DEF FullTables
  <2>10. pruned \in BOOLEAN /\ (pruned => prunedBelow > 0)
    BY DEF StoreInv, TypeOK, PruneUnderWay
  <2> HIDE DEF c
  <2> QED
    BY <1>1, <1>3, <2>1, <2>3, <2>4, <2>5, <2>7, <2>8, <2>9, <2>10
<1>10. Ok
  BY <1>7, <1>8, <1>9
<1> HIDE DEF Ok
<1>11. TypeOK'
  <2>1. chain' \in Seq(Blocks) /\ Tip(chain') \in Blocks
    BY <1>10, RoomyTip DEF Ok
  <2>2. active' \in [0..MaxHeight -> Blocks \cup {None}] /\ bodies' \subseteq Blocks
    BY <1>10 DEF Ok, RoomyTable, Proper
  <2>3. /\ below' \in Nat /\ prunedBelow' \in Nat
        /\ snapshot' = None \/ snapshot' \subseteq Outpoints
        /\ crashes' \in 0..MaxCrashes /\ failures' \in 0..MaxFailures
    BY <1>1 DEF StoreInv, TypeOK
  <2> QED
    BY <1>1, <1>10, <2>1, <2>2, <2>3 DEF Ok, TypeOK
<1>12. Sound'
  BY <1>10 DEF Ok, Sound
<1>13. EndsAtAcked'
  BY <1>10 DEF Ok, EndsAtAcked, Whole
<1>14. PruneUnderWay'
  BY <1>1, <1>10 DEF Ok, StoreInv, PruneUnderWay
<1>15. Undamaged'
  BY <1>1, <1>10 DEF Ok, Undamaged
<1> QED
  BY <1>2, <1>10, <1>11, <1>12, <1>13, <1>14, <1>15 DEF Ok, StoreInv

LEMMA StepStore ==
  ASSUME StoreInv, [Next]_vars
  PROVE  StoreInv'
<1>1. CASE UNCHANGED vars
  <2>1. /\ UNCHANGED <<pc, chain, utxos, pruned, below, bodies, active, snapshot, prunedBelow>>
        /\ UNCHANGED <<acked, torn, crashes, failures>>
    BY <1>1 DEF vars, memory, tables, faults
  <2>2. IInv'
    BY <2>1 DEF StoreInv, IInv
  <2>3. TypeOK'
    BY <2>1 DEF StoreInv, TypeOK
  <2>4. Sound' /\ EndsAtAcked'
    BY <2>1 DEF StoreInv, Sound, EndsAtAcked
  <2>5. PruneUnderWay'
    BY <2>1 DEF StoreInv, PruneUnderWay, Height
  <2>6. FullTables' /\ Undamaged'
    BY <2>1 DEF StoreInv, FullTables, Undamaged
  <2> QED
    BY <2>2, <2>3, <2>4, <2>5, <2>6 DEF StoreInv
<1>2. CASE Next
  BY <1>2, ConnectStore, SwitchStore, PruneStore, AppendStore, SaveStore, SnapshotStore,
     DropStore, FaultStore, StartStore DEF Next
<1> QED
  BY <1>1, <1>2

THEOREM StoreInvariant == Spec => []StoreInv
<1>1. Init => StoreInv
  BY InitStore
<1>2. StoreInv /\ [Next]_vars => StoreInv'
  BY StepStore
<1> QED
  BY <1>1, <1>2, PTL DEF Spec

\* Whatever died or failed: the tables keep their types, a store that holds more
\* than genesis can be started from, and without failing writes the blocks a pruned
\* node runs on follow one another.
THEOREM StoreStaysSound == Spec => []StoreSound
<1>1. StoreInv => StoreSound
  <2> SUFFICES ASSUME StoreInv PROVE StoreSound
    OBVIOUS
  <2>1. TypeOK
    BY DEF StoreInv
  <2>2. RestartPossible
    <3> SUFFICES ASSUME acked # Genesis, prunedBelow > 0
                 PROVE  Retained # <<>> /\ snapshot # None
      BY DEF RestartPossible, Loadable
    <3>1. bodies \subseteq Proper /\ RoomyTable(active)
      BY DEF StoreInv, Sound
    <3>2. PICK p \in Whole(active, bodies) : active[p] = acked
      BY DEF StoreInv, EndsAtAcked
    <3>3. PICK f : ReadFrom(f, Loaded(active, bodies), active, bodies)
      BY <3>1, LoadedRows DEF RoomyTable
    <3>4. \E i \in 1..Len(Loaded(active, bodies)) : f[i] = p
      BY <3>3 DEF ReadFrom
    <3>5. Loaded(active, bodies) # <<>>
      BY <3>4
    <3>6. Retained = Loaded(active, bodies)
      BY DEF Retained, Loaded
    <3> QED
      BY <3>5, <3>6 DEF StoreInv, PruneUnderWay
  <2>3. RetainedLinked
    <3> SUFFICES ASSUME pruned, failures = 0
                 PROVE  \A i \in 2..Len(chain) : Blk[chain[i]].prev = chain[i - 1]
      BY DEF RetainedLinked
    <3>1. CASE pc = "down"
      <4>1. chain = <<>>
        BY <3>1 DEF StoreInv, TypeOK
      <4> QED
        BY <4>1
    <3>2. CASE pc # "down"
      BY <3>2 DEF StoreInv, Undamaged, Links
    <3> QED
      BY <3>1, <3>2
  <2> QED
    BY <2>1, <2>2, <2>3 DEF StoreSound
<1> QED
  BY <1>1, StoreInvariant, PTL

\* A start comes back with the tip of the last call that committed, unless a write
\* failed before another append or a first prune was cut before it said so.
THEOREM StartKeepsTip == Spec => RestartKeepsTip
<1>1. ASSUME StoreInv, [Next]_vars, pc = "down", pc' # "down", ~torn
      PROVE  Tip(chain') = acked
  <2>1. \/ RestartPruned \/ RestartFromBackup \/ \E b \in Blocks : RestartFull(b)
    BY <1>1 DEF Next, Connect, SwitchTo, Prune, AppendBlock, SaveChain, SaveSnapshot,
                PruneBodies, SetMeta, WriteFails, Crash, Commits, vars
  <2>2. bodies \subseteq Proper /\ RoomyTable(active)
    BY <1>1 DEF StoreInv, Sound
  <2>3. Retained = Loaded(active, bodies)
    BY DEF Retained, Loaded
  <2>4. PICK p \in 0..MaxHeight : LastRow(active, bodies, p) /\ active[p] = acked
    BY <1>1 DEF StoreInv, EndsAtAcked
  <2>5. Retained # <<>> => Tip(Retained) = acked
    BY <2>2, <2>3, <2>4, LoadedEnds
  <2>6. CASE RestartPruned
    BY <2>5, <2>6 DEF RestartPruned, Serve
  <2>7. ASSUME NEW b \in Blocks, RestartFull(b)
        PROVE  Tip(chain') = acked
    <3>1. b \in ValidTips /\ Retained = Blk[b].branch /\ chain' = Retained
      BY <2>7 DEF RestartFull, Serve
    <3> QED
      BY <2>5, <3>1, TipIsRoomy
  <2>8. CASE RestartFromBackup
    <3>1. prunedBelow = 0 /\ \A b \in ValidTips : Retained # Blk[b].branch
      BY <2>8 DEF RestartFromBackup
    <3>2. /\ acked \in ValidTips /\ active = OrderOf(Blk[acked].branch)
          /\ BlocksIn(Blk[acked].branch) \subseteq bodies
      BY <1>1, <3>1 DEF StoreInv, FullTables
    <3>3. Roomy(Blk[acked].branch) /\ Blk[acked].branch \in Seq(Blocks) /\ Blk[acked].branch # <<>>
      BY <3>2, TipIsRoomy
    <3>4. Len(Blk[acked].branch) <= MaxHeight + 1
      BY <3>3, Saved, StoreAssumption
    <3>5. Retained = Blk[acked].branch
      BY <2>2, <2>3, <3>2, <3>3, <3>4, WholeListLoads
    <3> QED
      BY <3>1, <3>2, <3>5
  <2> QED
    BY <2>1, <2>6, <2>7, <2>8
<1>2. StoreInv /\ [Next]_vars => [pc = "down" /\ pc' # "down" /\ ~torn => Tip(chain') = acked]_vars
  BY <1>1
<1> QED
  BY <1>2, StoreInvariant, PTL DEF RestartKeepsTip, Spec
=============================================================================
