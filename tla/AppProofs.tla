------------------------------ MODULE AppProofs ------------------------------
(***************************************************************************)
(* What the app layer's document satisfies, for any threads, requests,      *)
(* coins, customers, payments, chain, caps, players, holders and members.   *)
(*                                                                         *)
(* Spends (SpendsInv): records are numbered as they are made, so what counts  *)
(* against the caps of one never grows afterwards.  Receipts (ReceiptsInv):  *)
(* what was on the chain before an invoice stays at or below its height      *)
(* unless a reorganisation displaced it, so what confirms an invoice is new; *)
(* a watch remembers all it announced as long as it has room for it.         *)
(* Records that count (DocumentInv): a request changes one family of records *)
(* and its counters together, and no family reads another.                   *)
(*                                                                         *)
(* Requests (StoreInv): the document and every copy a thread holds are       *)
(* sound; a handler keeps a sound copy sound because the number it writes is *)
(* in no copy before it ran.  With requests one at a time, a copy is the     *)
(* document: coins belong to their one claimant (FundingInv), what they paid *)
(* for stays settled (PaidInv), and a key is recorded or on its way to be    *)
(* (KeyInv).                                                                *)
(***************************************************************************)
EXTENDS AppStore, AppDeals, DataProofs

(* ------------------------- a developer's spends --------------------------- *)
\* Records whose amounts can be added up.
Money(S) == IsFiniteSet(S) /\ \A r \in S : r.amount \in Nat

LEMMA WorthSmaller ==
  ASSUME NEW S, Money(S), NEW T, T \subseteq S
  PROVE  Money(T) /\ Worth(T) \in Nat /\ Worth(T) <= Worth(S)
<1> DEFINE f == [r \in S |-> r.amount]
           g == [r \in T |-> r.amount]
<1>1. IsFiniteSet(S) /\ IsFiniteSet(T) /\ \A r \in S : f[r] \in Nat
  BY FS_Subset DEF Money
<1>2. \A r \in T : g[r] \in Int /\ g[r] = f[r]
  BY <1>1
<1>3. Worth(S) = SumFunctionOnSet(f, S) /\ Worth(T) = SumFunctionOnSet(g, T)
  BY DEF Worth
<1> HIDE DEF f, g
<1>4. SumFunctionOnSet(g, T) = SumFunctionOnSet(f, T)
  BY <1>1, <1>2, SumEqual
<1>5. SumFunctionOnSet(f, T) \in Nat /\ SumFunctionOnSet(f, T) <= SumFunctionOnSet(f, S)
  BY <1>1, SumSubset
<1>6. Money(T)
  BY <1>1 DEF Money
<1> QED
  BY <1>3, <1>4, <1>5, <1>6

LEMMA WorthWith ==
  ASSUME NEW S, Money(S), NEW r, r.amount \in Nat
  PROVE  Money(S \union {r}) /\ Worth(S \union {r}) <= Worth(S) + r.amount
<1>1. Money(S \union {r})
  BY FS_AddElement DEF Money
<1>2. Worth(S) \in Nat
  BY WorthSmaller
<1>3. CASE r \in S
  <2>1. S \union {r} = S
    BY <1>3
  <2>2. Worth(S \union {r}) = Worth(S)
    BY <2>1
  <2> QED
    BY <1>1, <1>2, <2>2
<1>4. CASE r \notin S
  <2> DEFINE T == S \union {r}
             f == [x \in T |-> x.amount]
             g == [x \in S |-> x.amount]
  <2>1. IsFiniteSet(S) /\ f[r] = r.amount /\ \A x \in S : f[x] \in Int /\ g[x] \in Int /\ g[x] = f[x]
    BY DEF Money
  <2>2. Worth(T) = SumFunctionOnSet(f, T) /\ Worth(S) = SumFunctionOnSet(g, S)
    BY DEF Worth
  <2> HIDE DEF f, g
  <2>3. SumFunctionOnSet(f, S \union {r}) = f[r] + SumFunctionOnSet(f, S)
    BY <1>4, <2>1, SumAdd
  <2>4. SumFunctionOnSet(g, S) = SumFunctionOnSet(f, S)
    BY <2>1, SumEqual
  <2> QED
    BY <1>1, <1>2, <2>1, <2>2, <2>3, <2>4
<1> QED
  BY <1>3, <1>4

\* What counts against the caps of a spend, and whether it is within them.
Before(S, s) == {r \in Recent(S, s.at) : r.n <= s.n}
Capped(S, s) ==
  /\ s.daily > 0 => Worth(Before(S, s)) <= s.daily
  /\ s.cap > 0 => Worth(Of(Before(S, s), s.player)) <= s.cap

\* Inductive: spends are numbered in the order they were made.
SpendsInv ==
  /\ today \in Nat /\ policy.daily \in Nat /\ policy.player \in Nat
  /\ spends \subseteq issued /\ IsFiniteSet(issued)
  /\ \A r \in issued : /\ r.amount \in Nat /\ r.at \in Nat /\ r.n \in 1..Cardinality(issued)
                       /\ r.daily \in Nat /\ r.cap \in Nat
  /\ \A s \in spends : Capped(spends, s)

LEMMA SpendsMoney == SpendsInv => Money(spends) /\ Money(issued)
BY FS_Subset DEF SpendsInv, Money

\* A spend stays within its caps when nothing that counts against them is added.
LEMMA CappedStays ==
  ASSUME NEW S, Money(S), NEW T, NEW s, s.daily \in Nat, s.cap \in Nat,
         Capped(S, s), Before(T, s) \subseteq Before(S, s)
  PROVE  Capped(T, s)
<1>1. Money(Before(S, s)) /\ Money(Of(Before(S, s), s.player))
  <2>1. Before(S, s) \subseteq S /\ Of(Before(S, s), s.player) \subseteq S
    BY DEF Before, Recent, Of
  <2> QED
    BY <2>1, WorthSmaller
<1>2. Of(Before(T, s), s.player) \subseteq Of(Before(S, s), s.player)
  BY DEF Of
<1>3. Worth(Before(T, s)) \in Nat /\ Worth(Before(T, s)) <= Worth(Before(S, s)) /\ Worth(Before(S, s)) \in Nat
  BY <1>1, WorthSmaller
<1>4. /\ Worth(Of(Before(T, s), s.player)) \in Nat /\ Worth(Of(Before(S, s), s.player)) \in Nat
      /\ Worth(Of(Before(T, s), s.player)) <= Worth(Of(Before(S, s), s.player))
  BY <1>1, <1>2, WorthSmaller
<1> QED
  BY <1>3, <1>4 DEF Capped

\* A new spend is within its caps if what it is added to leaves room for it.
LEMMA CappedNew ==
  ASSUME NEW S, NEW U, Money(U), NEW T, NEW s, s.amount \in Nat, s.daily \in Nat, s.cap \in Nat,
         Before(T, s) \subseteq U \union {s},
         s.daily > 0 => Worth(U) + s.amount <= s.daily,
         s.cap > 0 => Worth(Of(U, s.player)) + s.amount <= s.cap
  PROVE  Capped(T, s)
<1>1. Money(Of(U, s.player))
  <2>1. Of(U, s.player) \subseteq U
    BY DEF Of
  <2> QED
    BY <2>1, WorthSmaller
<1>2. Worth(Before(T, s)) <= Worth(U) + s.amount /\ Worth(Before(T, s)) \in Nat /\ Worth(U) \in Nat
  <2>1. Money(U \union {s}) /\ Worth(U \union {s}) <= Worth(U) + s.amount /\ Worth(U) \in Nat
    BY WorthWith, WorthSmaller
  <2>2. Worth(Before(T, s)) <= Worth(U \union {s}) /\ Worth(Before(T, s)) \in Nat /\ Worth(U \union {s}) \in Nat
    BY <2>1, WorthSmaller
  <2> QED
    BY <2>1, <2>2
<1>3. Of(Before(T, s), s.player) \subseteq Of(U, s.player) \union {s}
  BY DEF Of
<1>4. /\ Worth(Of(Before(T, s), s.player)) <= Worth(Of(U, s.player)) + s.amount
      /\ Worth(Of(Before(T, s), s.player)) \in Nat /\ Worth(Of(U, s.player)) \in Nat
  <2> DEFINE V == Of(U, s.player)
  <2> HIDE DEF V
  <2>1. Money(V \union {s}) /\ Worth(V \union {s}) <= Worth(V) + s.amount /\ Worth(V) \in Nat
    BY <1>1, WorthWith, WorthSmaller DEF V
  <2>2. /\ Worth(Of(Before(T, s), s.player)) <= Worth(V \union {s})
        /\ Worth(Of(Before(T, s), s.player)) \in Nat /\ Worth(V \union {s}) \in Nat
    BY <1>3, <2>1, WorthSmaller DEF V
  <2> QED
    BY <2>1, <2>2 DEF V
<1> QED
  BY <1>2, <1>4 DEF Capped

LEMMA RecordKeepsCaps ==
  ASSUME SpendsInv, NEW bucket, NEW id, NEW player, NEW amount \in SpendAmounts,
         Record(bucket, id, player, amount)
  PROVE  SpendsInv'
<1> DEFINE c == Cardinality(issued)
           new == Spend(bucket, id, player, amount, c + 1)
           recent == Recent(spends, today)
<1>1. /\ new.amount = amount /\ new.at = today /\ new.n = c + 1 /\ new.player = player
      /\ new.daily = policy.daily /\ new.cap = policy.player
      /\ amount \in Nat /\ c \in Nat
  BY FS_CardinalityType, DealsAssumption DEF Spend, SpendsInv
<1>2. /\ spends' = Written(spends, new) /\ issued' = issued \union {new}
      /\ policy' = policy /\ today' = today /\ Allowed(player, amount)
  BY DEF Record, FundRest
<1> HIDE DEF new
<1>3. new \notin issued
  BY <1>1 DEF SpendsInv
<1>4. IsFiniteSet(issued') /\ Cardinality(issued') = c + 1
  BY <1>2, <1>3, FS_AddElement DEF SpendsInv
<1>5. \A r \in issued' : /\ r.amount \in Nat /\ r.at \in Nat /\ r.n \in 1..Cardinality(issued')
                         /\ r.daily \in Nat /\ r.cap \in Nat
  BY <1>1, <1>2, <1>4 DEF SpendsInv
<1>6. spends' \subseteq spends \union {new} /\ spends' \subseteq issued'
  BY <1>2 DEF Written, SpendsInv
<1>7. ASSUME NEW s \in spends
      PROVE  Capped(spends', s)
  <2>1. Before(spends', s) \subseteq Before(spends, s)
    BY <1>1, <1>6 DEF Before, Recent, SpendsInv
  <2>2. s.daily \in Nat /\ s.cap \in Nat /\ Capped(spends, s)
    BY DEF SpendsInv
  <2> QED
    BY <2>1, <2>2, SpendsMoney, CappedStays
<1>8. Capped(spends', new)
  <2>1. Money(recent)
    <3>1. recent \subseteq spends
      BY DEF Recent
    <3> QED
      BY <3>1, SpendsMoney, WorthSmaller
  <2>2. Before(spends', new) \subseteq recent \union {new}
    BY <1>1, <1>6 DEF Before, Recent
  <2>3. /\ new.daily > 0 => Worth(recent) + new.amount <= new.daily
        /\ new.cap > 0 => Worth(Of(recent, new.player)) + new.amount <= new.cap
    BY <1>1, <1>2 DEF Allowed
  <2>4. new.amount \in Nat /\ new.daily \in Nat /\ new.cap \in Nat
    BY <1>1 DEF SpendsInv
  <2> HIDE DEF recent
  <2> QED
    BY <2>1, <2>2, <2>3, <2>4, CappedNew
<1>9. \A s \in spends' : Capped(spends', s)
  BY <1>6, <1>7, <1>8
<1> QED
  BY <1>2, <1>4, <1>5, <1>6, <1>9 DEF SpendsInv

\* The rows of a batch: the second is added to the first.
LEMMA BatchKeepsCaps ==
  ASSUME SpendsInv, NEW p, NEW q, NEW a \in SpendAmounts, NEW b \in SpendAmounts, CreateBatch(p, a, q, b)
  PROVE  SpendsInv'
<1> DEFINE c == Cardinality(issued)
           first == Spend("rewards", <<c + 1, 1>>, p, a, c + 1)
           second == Spend("rewards", <<c + 1, 2>>, q, b, c + 2)
           recent == Recent(spends, today)
<1>1. /\ first.amount = a /\ first.at = today /\ first.n = c + 1 /\ first.player = p
      /\ first.daily = policy.daily /\ first.cap = policy.player
      /\ second.amount = b /\ second.at = today /\ second.n = c + 2 /\ second.player = q
      /\ second.daily = policy.daily /\ second.cap = policy.player
      /\ a \in Nat /\ b \in Nat /\ c \in Nat
  BY FS_CardinalityType, DealsAssumption DEF Spend, SpendsInv
<1>2. /\ spends' = spends \union {first, second} /\ issued' = issued \union {first, second}
      /\ policy' = policy /\ today' = today /\ BatchAllowed(p, a, q, b)
  BY DEF CreateBatch, FundRest
<1> HIDE DEF first, second
<1>3. first \notin issued /\ second \notin issued \union {first}
  BY <1>1 DEF SpendsInv
<1>4. IsFiniteSet(issued') /\ Cardinality(issued') = c + 2
  <2>1. IsFiniteSet(issued \union {first}) /\ Cardinality(issued \union {first}) = c + 1
    BY <1>3, FS_AddElement DEF SpendsInv
  <2>2. issued' = (issued \union {first}) \union {second}
    BY <1>2
  <2>3. IsFiniteSet(issued') /\ Cardinality(issued') = Cardinality(issued \union {first}) + 1
    BY <1>3, <2>1, <2>2, FS_AddElement
  <2> QED
    BY <1>1, <2>1, <2>3
<1>5. \A r \in issued' : /\ r.amount \in Nat /\ r.at \in Nat /\ r.n \in 1..Cardinality(issued')
                         /\ r.daily \in Nat /\ r.cap \in Nat
  BY <1>1, <1>2, <1>4 DEF SpendsInv
<1>6. spends' \subseteq issued'
  BY <1>2 DEF SpendsInv
<1>7. ASSUME NEW s \in spends
      PROVE  Capped(spends', s)
  <2>1. Before(spends', s) \subseteq Before(spends, s)
    BY <1>1, <1>2 DEF Before, Recent, SpendsInv
  <2>2. s.daily \in Nat /\ s.cap \in Nat /\ Capped(spends, s)
    BY DEF SpendsInv
  <2> QED
    BY <2>1, <2>2, SpendsMoney, CappedStays
<1>8. Money(recent)
  <2>1. recent \subseteq spends
    BY DEF Recent
  <2> QED
    BY <2>1, SpendsMoney, WorthSmaller
<1>9. policy.daily \in Nat /\ policy.player \in Nat
  BY DEF SpendsInv
<1>10. Worth(recent) \in Nat /\ Worth(Of(recent, p)) \in Nat /\ Worth(Of(recent, q)) \in Nat
  <2>1. Of(recent, p) \subseteq recent /\ Of(recent, q) \subseteq recent
    BY DEF Of
  <2> QED
    BY <1>8, <2>1, WorthSmaller
<1>11. /\ policy.daily > 0 => Worth(recent) + a + b <= policy.daily
       /\ policy.player > 0 => /\ Worth(Of(recent, p)) + a <= policy.player
                               /\ Worth(Of(recent, q)) + b + (IF p = q THEN a ELSE 0) <= policy.player
  BY <1>2 DEF BatchAllowed
<1>12. Capped(spends', first)
  <2>1. Before(spends', first) \subseteq recent \union {first}
    BY <1>1, <1>2 DEF Before, Recent
  <2>2. /\ first.daily > 0 => Worth(recent) + first.amount <= first.daily
        /\ first.cap > 0 => Worth(Of(recent, first.player)) + first.amount <= first.cap
    <3> HIDE DEF recent
    <3> QED
      BY <1>1, <1>9, <1>10, <1>11
  <2>3. first.amount \in Nat /\ first.daily \in Nat /\ first.cap \in Nat
    BY <1>1, <1>9
  <2> HIDE DEF recent
  <2> QED
    BY <1>8, <2>1, <2>2, <2>3, CappedNew
<1>13. Capped(spends', second)
  <2> DEFINE both == recent \union {first}
  <2>1. Before(spends', second) \subseteq both \union {second}
    BY <1>1, <1>2 DEF Before, Recent
  <2>2. Money(both) /\ Worth(both) <= Worth(recent) + a /\ Worth(both) \in Nat
    BY <1>1, <1>8, WorthWith, WorthSmaller
  <2>3. Worth(Of(both, q)) <= Worth(Of(recent, q)) + (IF p = q THEN a ELSE 0) /\ Worth(Of(both, q)) \in Nat
    <3>1. Money(Of(recent, q)) /\ Money(Of(both, q))
      <4>1. Of(recent, q) \subseteq recent /\ Of(both, q) \subseteq both
        BY DEF Of
      <4> QED
        BY <1>8, <2>2, <4>1, WorthSmaller
    <3>2. CASE p = q
      <4>1. Of(both, q) = Of(recent, q) \union {first}
        BY <1>1, <3>2 DEF Of
      <4>2. Worth(Of(recent, q) \union {first}) <= Worth(Of(recent, q)) + a
        BY <1>1, <3>1, WorthWith
      <4> QED
        BY <3>1, <3>2, <4>1, <4>2, WorthSmaller
    <3>3. CASE p # q
      <4>1. Of(both, q) = Of(recent, q)
        BY <1>1, <3>3 DEF Of
      <4>2. Worth(Of(both, q)) = Worth(Of(recent, q))
        BY <4>1
      <4> QED
        BY <1>10, <3>3, <4>2
    <3> QED
      BY <3>2, <3>3
  <2>4. second.daily > 0 => Worth(both) + second.amount <= second.daily
    <3> HIDE DEF both, recent
    <3> QED
      BY <1>1, <1>9, <1>10, <1>11, <2>2
  <2>5. second.cap > 0 => Worth(Of(both, second.player)) + second.amount <= second.cap
    <3> HIDE DEF both, recent
    <3> QED
      BY <1>1, <1>9, <1>10, <1>11, <2>3
  <2>6. second.amount \in Nat /\ second.daily \in Nat /\ second.cap \in Nat
    BY <1>1, <1>9
  <2> HIDE DEF both
  <2> QED
    BY <2>1, <2>2, <2>4, <2>5, <2>6, CappedNew
<1>14. \A s \in spends' : Capped(spends', s)
  BY <1>2, <1>7, <1>12, <1>13
<1> QED
  BY <1>2, <1>4, <1>5, <1>6, <1>9, <1>14 DEF SpendsInv

LEMMA SpendsInitially == DealsInit => SpendsInv
<1> SUFFICES ASSUME DealsInit PROVE SpendsInv
  OBVIOUS
<1>1. IsFiniteSet(issued)
  BY FS_EmptySet DEF DealsInit
<1> QED
  BY <1>1 DEF DealsInit, SpendsInv

LEMMA SpendsStep == SpendsInv /\ [DealsNext]_dealVars => SpendsInv'
<1> SUFFICES ASSUME SpendsInv, [DealsNext]_dealVars PROVE SpendsInv'
  OBVIOUS
<1>1. CASE UNCHANGED fundVars /\ today' \in Nat
  BY <1>1 DEF SpendsInv, fundVars
<1>2. ASSUME NEW d \in DailyCaps, NEW c \in PlayerCaps, NEW paused, SetPolicy(d, c, paused)
      PROVE  SpendsInv'
  <2>1. policy'.daily = d /\ policy'.player = c /\ spends' = spends /\ issued' = issued /\ today' = today
    BY <1>2 DEF SetPolicy, FundRest
  <2>2. d \in Nat /\ c \in Nat
    BY DealsAssumption
  <2> QED
    BY <2>1, <2>2 DEF SpendsInv
<1>3. CASE FundingNext
  <2>1. ASSUME NEW id \in SpendIds, NEW p \in Players, NEW a \in SpendAmounts,
               CreateReward(id, p, a) \/ CreateWithdrawal(id, p, a)
        PROVE  SpendsInv'
    BY <2>1, RecordKeepsCaps DEF CreateReward, CreateWithdrawal
  <2> QED
    BY <1>2, <1>3, <2>1, BatchKeepsCaps DEF FundingNext
<1>4. CASE DealsTick
  <2>1. today' \in Nat /\ UNCHANGED fundVars
    BY <1>4 DEF DealsTick, SpendsInv
  <2> QED
    BY <1>1, <2>1
<1>5. CASE UNCHANGED <<today, fundVars>>
  BY <1>1, <1>5 DEF SpendsInv
<1>6. CASE ChainNext \/ InvoicesNext \/ WatchesNext
  BY <1>5, <1>6 DEF ChainNext, Broadcast, MineBlock, Reorganise, ChainRest, InvoicesNext, PollInvoice,
                    CreateInvoice, Polled, WatchesNext, ScanDeposits, RegisterWatch
<1>7. CASE TokenNext \/ VotesNext
  BY <1>5, <1>7 DEF TokenNext, CreateToken, MintToken, TransferToken, BurnToken, TokenRest,
                    VotesNext, CreatePoll, CastVote, ClosePoll, VotePost, VoteImprovement, VoteRest
<1>8. CASE PlansNext \/ AgreementNext
  BY <1>5, <1>8 DEF PlansNext, CreateTeam, ProposeTeam, ApproveTeam, ProposeTreasury, ApproveTreasury,
                    ProposeCircle, JoinCircle, PlanRest, AgreementNext, CreateAgreement, SetAgreement,
                    Advance, AgreementRest
<1>9. CASE UNCHANGED dealVars
  BY <1>5, <1>9 DEF dealVars
<1> QED
  BY <1>3, <1>4, <1>6, <1>7, <1>8, <1>9 DEF DealsNext

\* However rewards, withdrawals and batches mix, and whatever records they
\* overwrite, the records never show a developer, or one player, to have spent
\* more in a window than the caps of that moment (__init__.py:1939-1971, 2400-2431).
THEOREM SpendsStayWithinCaps == DealsSpec => []SpendWithinCap
<1>1. SpendsInv => SpendWithinCap
  BY DEF SpendsInv, Capped, Before, SpendWithinCap
<1> QED
  BY <1>1, SpendsInitially, SpendsStep, PTL DEF DealsSpec

(* ------------------------ invoices and watched addresses --------------------- *)
\* The chain's blocks hold different payments, and none that waits.
PaymentsInv ==
  /\ today \in Nat
  /\ blocks \in Seq(SUBSET Payments)
  /\ seen \in [Payments -> Int] /\ regressed \subseteq Payments
  /\ \A h, k \in DOMAIN blocks : h # k => blocks[h] \cap blocks[k] = {}
  /\ Waiting \cap Mined = {}

\* The payments that may have paid an invoice: all that were ever on the chain
\* since, save those that were there before and stayed.
PaidBy(inv) == (Mined \union regressed) \ (inv.old \ regressed)

InvoiceStatuses == {"none", "unpaid", "expired", "underpaid", "pending", "confirmed"}
InvoiceType == [status : InvoiceStatuses, amount : Int, depth : Nat \ {0}, at : Nat, height : Nat, old : SUBSET Payments]

\* What was on the chain when an invoice was created, and was not displaced
\* since, is on it still and not above the height of that moment.
InvoiceFine(inv) ==
  /\ inv \in InvoiceType /\ (inv.status # "none" => inv.amount > 0)
  /\ \A x \in inv.old \ regressed : \E h \in DOMAIN blocks : x \in blocks[h] /\ h <= inv.height
Covered(inv) == inv.status = "confirmed" => Total(PaidBy(inv)) >= inv.amount

\* A watch that was registered once, and has room, remembers what it announced.
WatchFine(w) ==
  /\ watches[w].notified \subseteq Payments /\ watches[w].anew \in Nat /\ watches[w].depth \in Nat
  /\ watches[w].anew = 0 => watches[w].depth = 0 /\ Announced(w) = {}
  /\ watches[w].anew <= 1 /\ Cardinality(Announced(w)) <= NotifiedCap =>
       watches[w].notified = Announced(w) /\ \A x \in Payments : notices[w][x] <= 1

WatchesInv ==
  /\ notices \in [Watches -> [Payments -> Nat]]
  /\ watches \in [Watches -> [depth : Nat, notified : SUBSET Payments, anew : Nat]]
  /\ \A w \in Watches : WatchFine(w)

\* Inductive.
ReceiptsInv ==
  /\ PaymentsInv
  /\ DOMAIN invoices = Invoices
  /\ \A i \in Invoices : InvoiceFine(invoices[i]) /\ Covered(invoices[i])
  /\ WatchesInv

LEMMA ReceiptsInitially == DealsInit => ReceiptsInv
<1> SUFFICES ASSUME DealsInit PROVE ReceiptsInv
  OBVIOUS
<1>1. blocks = <<>> /\ DOMAIN blocks = {} /\ blocks \in Seq(SUBSET Payments)
  BY EmptySeq DEF DealsInit
<1>2. PaymentsInv
  <2>1. Mined = {}
    BY <1>1 DEF Mined
  <2> QED
    BY <1>1, <2>1 DEF DealsInit, PaymentsInv
<1>3. \A i \in Invoices : InvoiceFine(invoices[i]) /\ Covered(invoices[i])
  <2>1. \A i \in Invoices : invoices[i] = NoInvoice
    BY DEF DealsInit
  <2>2. NoInvoice.old = {} /\ NoInvoice.status = "none"
    BY DEF NoInvoice
  <2>3. NoInvoice \in InvoiceType
    BY DEF NoInvoice, InvoiceType, InvoiceStatuses
  <2> QED
    BY <2>1, <2>2, <2>3 DEF InvoiceFine, Covered
<1>4. WatchesInv
  <2>1. \A w \in Watches : watches[w] = NoWatch /\ \A x \in Payments : notices[w][x] = 0
    BY DEF DealsInit
  <2>2. \A w \in Watches : Announced(w) = {}
    BY <2>1 DEF Announced
  <2>3. /\ notices \in [Watches -> [Payments -> Nat]]
        /\ watches \in [Watches -> [depth : Nat, notified : SUBSET Payments, anew : Nat]]
    BY DEF DealsInit, NoWatch
  <2>4. \A w \in Watches : WatchFine(w)
    BY <2>1, <2>2 DEF WatchFine, NoWatch
  <2> QED
    BY <2>3, <2>4 DEF WatchesInv
<1> QED
  BY <1>2, <1>3, <1>4 DEF ReceiptsInv, DealsInit

LEMMA TotalSmaller ==
  ASSUME NEW S \in SUBSET Payments, NEW T \in SUBSET S
  PROVE  Total(T) \in Nat /\ Total(S) \in Nat /\ Total(T) <= Total(S)
<1>1. IsFiniteSet(S) /\ \A x \in S : Value[x] \in Nat
  BY DealsAssumption, FS_Subset
<1>2. T \subseteq S
  OBVIOUS
<1> QED
  BY <1>1, <1>2, SumSubset, SumNat DEF Total

(* The chain moves *)
LEMMA BlockAppended ==
  ASSUME NEW T, NEW b \in Seq(T), NEW S \in T
  PROVE  /\ Append(b, S) \in Seq(T) /\ DOMAIN Append(b, S) = DOMAIN b \union {Len(b) + 1}
         /\ \A h \in DOMAIN b : Append(b, S)[h] = b[h]
         /\ Append(b, S)[Len(b) + 1] = S /\ Len(b) + 1 \notin DOMAIN b
OBVIOUS

\* The list b with S in place of its last element, and then Z.
Branched(b, S, Z) == Append(Append(SubSeq(b, 1, Len(b) - 1), S), Z)

BranchedFrom(T, b, S, Z) ==
  /\ Branched(b, S, Z) \in Seq(T) /\ Len(b) \in DOMAIN b
  /\ DOMAIN Branched(b, S, Z) = DOMAIN b \union {Len(b) + 1} /\ Len(b) + 1 \notin DOMAIN b
  /\ \A h \in DOMAIN b : h # Len(b) => Branched(b, S, Z)[h] = b[h]
  /\ Branched(b, S, Z)[Len(b)] = S /\ Branched(b, S, Z)[Len(b) + 1] = Z

LEMMA LastReplaced ==
  ASSUME NEW T, NEW b \in Seq(T), NEW S \in T, NEW Z \in T, b # <<>>
  PROVE  BranchedFrom(T, b, S, Z)
<1> DEFINE c == Branched(b, S, Z)
           d == SubSeq(b, 1, Len(b) - 1)
<1>1. Len(b) \in Nat /\ Len(b) # 0 /\ DOMAIN b = 1..Len(b)
  OBVIOUS
<1>2. d \in Seq(T) /\ Len(d) = Len(b) - 1 /\ DOMAIN d = 1..(Len(b) - 1) /\ \A h \in DOMAIN d : d[h] = b[h]
  BY <1>1
<1> DEFINE e == Append(d, S)
<1>3. c = Append(e, Z)
  BY DEF Branched
<1> HIDE DEF c, d
<1>4. /\ e \in Seq(T) /\ DOMAIN e = 1..Len(b) /\ Len(e) = Len(b) /\ e[Len(b)] = S
      /\ \A h \in DOMAIN d : e[h] = d[h]
  <2>1. e \in Seq(T) /\ Len(e) = Len(d) + 1 /\ DOMAIN e = 1..(Len(d) + 1) /\ e[Len(d) + 1] = S
        /\ \A h \in DOMAIN d : e[h] = d[h]
    BY <1>2
  <2>2. Len(d) + 1 = Len(b)
    BY <1>1, <1>2
  <2> HIDE DEF e
  <2> QED
    BY <2>1, <2>2
<1> HIDE DEF e
<1>5. /\ c \in Seq(T) /\ DOMAIN c = 1..(Len(b) + 1) /\ c[Len(b) + 1] = Z
      /\ \A h \in DOMAIN e : c[h] = e[h]
  <2>1. c \in Seq(T) /\ DOMAIN c = 1..(Len(e) + 1) /\ c[Len(e) + 1] = Z /\ \A h \in DOMAIN e : c[h] = e[h]
    BY <1>3, <1>4
  <2> QED
    BY <1>4, <2>1
<1>6. \A h \in DOMAIN b : h # Len(b) => h \in DOMAIN d /\ h \in DOMAIN e
  BY <1>1, <1>2, <1>4
<1>7. Len(b) \in DOMAIN e
  BY <1>1, <1>4
<1>8. DOMAIN c = DOMAIN b \union {Len(b) + 1} /\ Len(b) + 1 \notin DOMAIN b /\ Len(b) \in DOMAIN b
  BY <1>1, <1>5
<1>9. \A h \in DOMAIN b : h # Len(b) => c[h] = b[h]
  BY <1>2, <1>4, <1>5, <1>6
<1> QED
  BY <1>4, <1>5, <1>7, <1>8, <1>9 DEF c, BranchedFrom

\* What a chain that moved on means for invoices: nothing is lost to them.
LEMMA ChainMoved ==
  ASSUME ReceiptsInv, PaymentsInv', UNCHANGED <<invoices, watches, notices>>,
         regressed \subseteq regressed', Mined \subseteq Mined' \union regressed',
         \A h \in DOMAIN blocks : \A x \in blocks[h] \ regressed' : h \in DOMAIN blocks' /\ x \in blocks'[h]
  PROVE  ReceiptsInv'
<1>1. ASSUME NEW i \in Invoices
      PROVE  InvoiceFine(invoices[i])' /\ Covered(invoices[i])'
  <2> DEFINE inv == invoices[i]
  <2>1. InvoiceFine(inv) /\ Covered(inv) /\ invoices' = invoices
    BY DEF ReceiptsInv
  <2>2. inv \in InvoiceType /\ \A x \in inv.old \ regressed' : \E h \in DOMAIN blocks' : x \in blocks'[h] /\ h <= inv.height
    BY <2>1 DEF InvoiceFine
  <2>3. inv.status = "confirmed" => Total((Mined' \union regressed') \ (inv.old \ regressed')) >= inv.amount
    <3> DEFINE before == PaidBy(inv)
               after == (Mined' \union regressed') \ (inv.old \ regressed')
    <3>1. before \subseteq after
      BY DEF PaidBy
    <3>2. after \subseteq Payments
      BY DEF PaymentsInv, Mined
    <3>3. Total(before) \in Nat /\ Total(after) \in Nat /\ Total(before) <= Total(after)
      BY <3>1, <3>2, TotalSmaller
    <3>4. inv.status = "confirmed" => Total(before) >= inv.amount
      BY <2>1 DEF Covered
    <3>5. inv.amount \in Int
      BY <2>1 DEF InvoiceFine, InvoiceType
    <3> HIDE DEF before, after
    <3> QED
      BY <3>3, <3>4, <3>5 DEF after
  <2> QED
    BY <2>1, <2>2, <2>3 DEF InvoiceFine, Covered, PaidBy
<1>2. WatchesInv'
  BY DEF ReceiptsInv, WatchesInv, WatchFine, Announced
<1> QED
  BY <1>1, <1>2 DEF ReceiptsInv

LEMMA BroadcastKeepsReceipts ==
  ASSUME ReceiptsInv, NEW x \in Payments, Broadcast(x)
  PROVE  ReceiptsInv'
<1>1. /\ blocks' = blocks /\ regressed' = regressed /\ today' = today
      /\ seen' = [seen EXCEPT ![x] = today] /\ x \notin Mined
      /\ UNCHANGED <<invoices, watches, notices>>
  BY DEF Broadcast, ChainRest
<1>2. Mined' = Mined
  BY <1>1 DEF Mined
<1>3. PaymentsInv'
  BY <1>1, <1>2 DEF ReceiptsInv, PaymentsInv, Waiting
<1> QED
  BY <1>1, <1>2, <1>3, ChainMoved

LEMMA MineKeepsReceipts ==
  ASSUME ReceiptsInv, NEW S \in SUBSET Payments, MineBlock(S)
  PROVE  ReceiptsInv'
<1>1. /\ blocks' = Append(blocks, S) /\ regressed' = regressed /\ today' = today
      /\ seen' = [x \in Payments |-> IF x \in S THEN -1 ELSE seen[x]] /\ S \subseteq Waiting
      /\ UNCHANGED <<invoices, watches, notices>>
  BY DEF MineBlock, ChainRest
<1> DEFINE n == Len(blocks) + 1
<1>2. blocks \in Seq(SUBSET Payments)
  BY DEF ReceiptsInv, PaymentsInv
<1>3. /\ blocks' \in Seq(SUBSET Payments) /\ DOMAIN blocks' = DOMAIN blocks \union {n} /\ n \notin DOMAIN blocks
      /\ \A h \in DOMAIN blocks : blocks'[h] = blocks[h]
      /\ blocks'[n] = S
  BY <1>1, <1>2, BlockAppended
<1> HIDE DEF n
<1>4. Mined' = Mined \union S
  BY <1>3 DEF Mined
<1>5. \A h \in DOMAIN blocks : blocks[h] \subseteq Mined
  BY DEF Mined
<1>6. \A h, k \in DOMAIN blocks' : h # k => blocks'[h] \cap blocks'[k] = {}
  BY <1>1, <1>3, <1>5 DEF ReceiptsInv, PaymentsInv
<1>7. Waiting' \cap Mined' = {}
  BY <1>1, <1>4 DEF ReceiptsInv, PaymentsInv, Waiting
<1>8. PaymentsInv'
  BY <1>1, <1>3, <1>6, <1>7 DEF ReceiptsInv, PaymentsInv
<1> QED
  BY <1>1, <1>3, <1>4, <1>8, ChainMoved

LEMMA ReorganiseKeepsReceipts ==
  ASSUME ReceiptsInv, NEW S \in SUBSET Payments, Reorganise(S)
  PROVE  ReceiptsInv'
<1> DEFINE n == Len(blocks)
           lost == blocks[n]
<1>1. /\ blocks' = Append(Append(SubSeq(blocks, 1, n - 1), S), {}) /\ blocks # <<>>
      /\ regressed' = regressed \union lost /\ today' = today
      /\ seen' = [x \in Payments |-> IF x \in S THEN -1 ELSE IF x \in lost THEN today ELSE seen[x]]
      /\ S \subseteq Waiting \union lost
      /\ UNCHANGED <<invoices, watches, notices>>
  BY DEF Reorganise, ChainRest
<1>2. blocks \in Seq(SUBSET Payments) /\ {} \in SUBSET Payments
  BY DEF ReceiptsInv, PaymentsInv
<1>3. /\ blocks' \in Seq(SUBSET Payments) /\ n \in DOMAIN blocks
      /\ DOMAIN blocks' = DOMAIN blocks \union {n + 1} /\ n + 1 \notin DOMAIN blocks
      /\ \A h \in DOMAIN blocks : h # n => blocks'[h] = blocks[h]
      /\ blocks'[n] = S /\ blocks'[n + 1] = {}
  <2> DEFINE T == SUBSET Payments
  <2>1. blocks \in Seq(T) /\ {} \in T /\ S \in T
    BY <1>2
  <2> HIDE DEF T
  <2>2. /\ blocks' \in Seq(T) /\ n \in DOMAIN blocks
        /\ DOMAIN blocks' = DOMAIN blocks \union {n + 1} /\ n + 1 \notin DOMAIN blocks
        /\ \A h \in DOMAIN blocks : h # n => blocks'[h] = blocks[h]
        /\ blocks'[n] = S /\ blocks'[n + 1] = {}
    <3>1. blocks' = Branched(blocks, S, {}) /\ blocks # <<>>
      BY <1>1 DEF Branched
    <3>2. BranchedFrom(T, blocks, S, {})
      BY <2>1, <3>1, LastReplaced
    <3> QED
      BY <3>1, <3>2 DEF BranchedFrom
  <2> QED
    BY <2>2 DEF T
<1>4. lost \subseteq Payments
  BY <1>2, <1>3
<1> HIDE DEF n
<1>5. \A h \in DOMAIN blocks : blocks[h] \subseteq Mined /\ (h # n => blocks[h] \cap (S \union lost) = {})
  BY <1>1, <1>3 DEF ReceiptsInv, PaymentsInv, Mined
<1>6. \A h, k \in DOMAIN blocks' : h # k => blocks'[h] \cap blocks'[k] = {}
  BY <1>3, <1>5 DEF ReceiptsInv, PaymentsInv
<1>7. \A x \in Mined' : x \in S \/ \E h \in DOMAIN blocks : h # n /\ x \in blocks[h]
  BY <1>3 DEF Mined
<1>8. Waiting' \cap Mined' = {}
  <2>1. ASSUME NEW x \in Waiting', x \in Mined'
        PROVE  FALSE
    <3>1. x \in Payments /\ seen'[x] >= 0
      BY <2>1 DEF Waiting
    <3>2. x \notin S
      BY <1>1, <3>1
    <3>3. PICK h \in DOMAIN blocks : h # n /\ x \in blocks[h]
      BY <1>7, <2>1, <3>2
    <3>4. x \notin lost /\ x \in Mined
      BY <1>5, <3>3
    <3>5. x \in Waiting
      BY <1>1, <3>1, <3>2, <3>4 DEF Waiting
    <3> QED
      BY <3>4, <3>5 DEF ReceiptsInv, PaymentsInv
  <2> QED
    BY <2>1
<1>9. seen' \in [Payments -> Int]
  BY <1>1 DEF ReceiptsInv, PaymentsInv
<1>10. PaymentsInv'
  BY <1>1, <1>3, <1>4, <1>6, <1>8, <1>9 DEF ReceiptsInv, PaymentsInv
<1>11. Mined \subseteq Mined' \union regressed'
  <2>1. \A h \in DOMAIN blocks : h # n => blocks[h] \subseteq Mined'
    BY <1>3 DEF Mined
  <2> QED
    BY <1>1, <2>1 DEF Mined
<1>12. \A h \in DOMAIN blocks : \A x \in blocks[h] \ regressed' : h \in DOMAIN blocks' /\ x \in blocks'[h]
  BY <1>1, <1>3
<1> QED
  BY <1>1, <1>10, <1>11, <1>12, ChainMoved

(* Invoices are asked for *)
LEMMA PolledKeepsReceipts ==
  ASSUME ReceiptsInv, NEW i \in Invoices, NEW inv, InvoiceFine(inv), inv.status # "none", Polled(i, inv)
  PROVE  ReceiptsInv'
<1> DEFINE status == InvoiceStatus(inv)
           new == [inv EXCEPT !.status = status]
           deep == {x \in Counting(inv) \intersect Mined : Depth(x) >= inv.depth}
<1>1. /\ invoices' = [invoices EXCEPT ![i] = new]
      /\ UNCHANGED <<today, blocks, seen, watches, notices, regressed>>
  BY DEF Polled
<1>2. inv \in InvoiceType
  BY DEF InvoiceFine
<1>3. Mined \subseteq Payments /\ Waiting \subseteq Payments
  BY DEF ReceiptsInv, PaymentsInv, Mined, Waiting
<1>4. Total(deep) \in Nat /\ Total(Counting(inv)) \in Nat /\ inv.amount \in Int
  <2>1. Counting(inv) \subseteq Payments /\ deep \subseteq Counting(inv)
    BY <1>3 DEF Counting
  <2> HIDE DEF deep
  <2> QED
    BY <1>2, <2>1, TotalSmaller DEF InvoiceType
<1>5. status \in InvoiceStatuses /\ (status = "confirmed" => Total(deep) >= inv.amount)
  <2> DEFINE T == Total(Counting(inv))
             D == Total(deep)
  <2>1. status = CASE D >= inv.amount -> "confirmed"
                   [] D < inv.amount /\ T >= inv.amount -> "pending"
                   [] T > 0 /\ T < inv.amount -> "underpaid"
                   [] T = 0 -> IF today > inv.at + InvoiceLife THEN "expired" ELSE "unpaid"
    BY DEF InvoiceStatus
  <2>2. D \in Nat /\ T \in Nat /\ D <= T /\ inv.amount \in Int /\ inv.amount > 0
    <3>1. deep \in SUBSET Counting(inv) /\ Counting(inv) \in SUBSET Payments
      BY <1>3 DEF Counting
    <3> HIDE DEF deep
    <3>2. Total(deep) <= Total(Counting(inv))
      BY <3>1, TotalSmaller
    <3> QED
      BY <1>4, <3>2 DEF InvoiceFine
  <2> HIDE DEF D, T, status
  <2>3. status \in InvoiceStatuses /\ (status = "confirmed" => D >= inv.amount)
    <3>1. CASE D >= inv.amount
      <4>1. status = "confirmed"
        BY <2>1, <2>2, <3>1
      <4> QED
        BY <3>1, <4>1 DEF InvoiceStatuses
    <3>2. CASE D < inv.amount /\ T >= inv.amount
      <4>1. status = "pending"
        BY <2>1, <2>2, <3>2
      <4> QED
        BY <4>1 DEF InvoiceStatuses
    <3>3. CASE D < inv.amount /\ T < inv.amount /\ T > 0
      <4>1. status = "underpaid"
        BY <2>1, <2>2, <3>3
      <4> QED
        BY <4>1 DEF InvoiceStatuses
    <3>4. CASE D < inv.amount /\ T = 0 /\ T < inv.amount
      <4>1. status = IF today > inv.at + InvoiceLife THEN "expired" ELSE "unpaid"
        BY <2>1, <2>2, <3>4
      <4> QED
        BY <4>1 DEF InvoiceStatuses
    <3> QED
      BY <2>2, <3>1, <3>2, <3>3, <3>4
  <2> QED
    BY <2>3 DEF D
<1>6. deep \subseteq PaidBy(inv)
  <2> SUFFICES ASSUME NEW x \in deep, x \in inv.old, x \notin regressed
               PROVE  FALSE
    BY DEF PaidBy
  <2>1. PICK h \in DOMAIN blocks : x \in blocks[h] /\ h <= inv.height
    BY DEF InvoiceFine
  <2>2. \A k \in DOMAIN blocks : x \in blocks[k] => k = h
    BY <2>1 DEF ReceiptsInv, PaymentsInv
  <2>3. HeightOf(x) = h
    BY <2>1, <2>2 DEF HeightOf
  <2>4. x \notin Waiting
    BY DEF ReceiptsInv, PaymentsInv
  <2>5. HeightOf(x) > inv.height
    BY <2>4 DEF Counting
  <2>6. h \in Int /\ inv.height \in Int
    BY <1>2, <2>1 DEF ReceiptsInv, PaymentsInv, InvoiceType
  <2> QED
    BY <2>1, <2>3, <2>5, <2>6
<1>7. status = "confirmed" => Total(PaidBy(inv)) >= inv.amount
  <2>1. PaidBy(inv) \in SUBSET Payments
    BY <1>3 DEF PaidBy, ReceiptsInv, PaymentsInv
  <2>2. deep \in SUBSET PaidBy(inv)
    BY <1>6
  <2> HIDE DEF deep, status
  <2>3. Total(PaidBy(inv)) \in Nat /\ Total(deep) <= Total(PaidBy(inv))
    BY <2>1, <2>2, TotalSmaller
  <2> QED
    BY <1>4, <1>5, <2>3
<1> HIDE DEF status, deep
<1>8. /\ new \in InvoiceType /\ new.old = inv.old /\ new.height = inv.height
      /\ new.amount = inv.amount /\ new.status = status
  BY <1>2, <1>5 DEF InvoiceType
<1> HIDE DEF new
<1>9. InvoiceFine(new) /\ Covered(new)
  <2>0. inv.amount > 0
    BY DEF InvoiceFine
  <2>1. PaidBy(new) = PaidBy(inv)
    BY <1>8 DEF PaidBy
  <2> QED
    BY <1>7, <1>8, <2>0, <2>1 DEF InvoiceFine, Covered
<1>10. \A j \in Invoices : InvoiceFine(invoices'[j]) /\ Covered(invoices'[j])
  BY <1>1, <1>9 DEF ReceiptsInv
<1>11. \A j \in Invoices : InvoiceFine(invoices[j])' /\ Covered(invoices[j])'
  BY <1>1, <1>10 DEF InvoiceFine, Covered, PaidBy, Mined
<1>12. PaymentsInv' /\ WatchesInv'
  <2>1. PaymentsInv'
    BY <1>1 DEF ReceiptsInv, PaymentsInv, Waiting, Mined
  <2>2. WatchesInv'
    BY <1>1 DEF ReceiptsInv, WatchesInv, WatchFine, Announced
  <2> QED
    BY <2>1, <2>2
<1> QED
  BY <1>1, <1>11, <1>12 DEF ReceiptsInv

LEMMA InvoicesKeepReceipts ==
  ASSUME ReceiptsInv, InvoicesNext
  PROVE  ReceiptsInv'
<1>1. PICK i \in Invoices : PollInvoice(i) \/ \E a \in InvoiceAmounts, d \in Depths : CreateInvoice(i, a, d)
  BY DEF InvoicesNext
<1>2. CASE PollInvoice(i)
  BY <1>2, PolledKeepsReceipts DEF PollInvoice, ReceiptsInv
<1>3. ASSUME NEW a \in InvoiceAmounts, NEW d \in Depths, CreateInvoice(i, a, d)
      PROVE  ReceiptsInv'
  <2> DEFINE inv == [status |-> "unpaid", amount |-> a, depth |-> d, at |-> today,
                     height |-> Len(blocks), old |-> Mined]
  <2>1. Mined \subseteq Payments /\ today \in Nat /\ Len(blocks) \in Nat /\ DOMAIN blocks = 1..Len(blocks)
    BY DEF ReceiptsInv, PaymentsInv, Mined
  <2>2. a \in Nat \ {0} /\ d \in Nat \ {0}
    BY DealsAssumption
  <2>3. inv \in InvoiceType
    BY <2>1, <2>2 DEF InvoiceType, InvoiceStatuses
  <2>4. \A x \in Mined : \E h \in DOMAIN blocks : x \in blocks[h] /\ h <= Len(blocks)
    BY <2>1 DEF Mined
  <2>5. inv.old = Mined /\ inv.height = Len(blocks) /\ inv.amount = a /\ inv.status = "unpaid"
    OBVIOUS
  <2>6. Polled(i, inv)
    BY <1>3 DEF CreateInvoice
  <2> HIDE DEF inv
  <2>7. InvoiceFine(inv)
    BY <2>2, <2>3, <2>4, <2>5 DEF InvoiceFine
  <2> QED
    BY <2>5, <2>6, <2>7, PolledKeepsReceipts
<1> QED
  BY <1>1, <1>2, <1>3

(* Watches are registered and read *)
LEMMA WatchesTouched ==
  ASSUME ReceiptsInv, UNCHANGED <<today, blocks, seen, invoices, regressed>>, WatchesInv'
  PROVE  ReceiptsInv'
<1>1. PaymentsInv'
  BY DEF ReceiptsInv, PaymentsInv, Waiting, Mined
<1>2. \A i \in Invoices : InvoiceFine(invoices[i])' /\ Covered(invoices[i])'
  BY DEF ReceiptsInv, InvoiceFine, Covered, PaidBy, Mined
<1> QED
  BY <1>1, <1>2 DEF ReceiptsInv

LEMMA RegisterKeepsReceipts ==
  ASSUME ReceiptsInv, NEW w \in Watches, NEW d \in Depths, RegisterWatch(w, d)
  PROVE  ReceiptsInv'
<1> DEFINE new == [depth |-> d, notified |-> {}, anew |-> watches[w].anew + 1]
<1>1. /\ watches' = [watches EXCEPT ![w] = new] /\ notices' = notices
      /\ UNCHANGED <<today, blocks, seen, invoices, regressed>>
  BY DEF RegisterWatch
<1>2. WatchesInv
  BY DEF ReceiptsInv
<1>3. d \in Nat /\ watches[w].anew \in Nat
  BY <1>2, DealsAssumption DEF WatchesInv
<1>4. watches' \in [Watches -> [depth : Nat, notified : SUBSET Payments, anew : Nat]]
  BY <1>1, <1>2, <1>3 DEF WatchesInv
<1>5. \A v \in Watches : Announced(v)' = Announced(v)
  BY <1>1 DEF Announced
<1>6. WatchFine(w)'
  <2>1. watches'[w].depth = d /\ watches'[w].notified = {} /\ watches'[w].anew = watches[w].anew + 1
    BY <1>1, <1>2 DEF WatchesInv
  <2>2. watches[w].anew = 0 => Announced(w) = {} /\ \A x \in Payments : notices[w][x] <= 1
    <3>1. WatchFine(w) /\ notices[w] \in [Payments -> Nat]
      BY <1>2 DEF WatchesInv
    <3>2. watches[w].anew = 0 => Announced(w) = {}
      BY <3>1 DEF WatchFine
    <3>3. Announced(w) = {} => \A x \in Payments : notices[w][x] <= 1
      BY <3>1 DEF Announced
    <3> QED
      BY <3>2, <3>3
  <2> QED
    BY <1>1, <1>3, <1>5, <2>1, <2>2 DEF WatchFine
<1>7. ASSUME NEW v \in Watches, v # w
      PROVE  WatchFine(v)'
  <2>1. watches'[v] = watches[v] /\ WatchFine(v)
    BY <1>1, <1>2, <1>7 DEF WatchesInv
  <2> QED
    BY <1>1, <1>5, <2>1 DEF WatchFine
<1>8. WatchesInv'
  BY <1>1, <1>2, <1>4, <1>6, <1>7 DEF WatchesInv
<1> QED
  BY <1>1, <1>8, WatchesTouched

LEMMA ScanKeepsReceipts ==
  ASSUME ReceiptsInv, NEW w \in Watches, ScanDeposits(w)
  PROVE  ReceiptsInv'
<1> DEFINE ready == {x \in Mined : Depth(x) >= watches[w].depth}
           new == ready \ watches[w].notified
           told == watches[w].notified \union new
           said == [x \in Payments |-> IF x \in new THEN notices[w][x] + 1 ELSE notices[w][x]]
<1>1. /\ watches[w].depth > 0 /\ notices' = [notices EXCEPT ![w] = said]
      /\ UNCHANGED <<today, blocks, seen, invoices, regressed>>
  BY DEF ScanDeposits
<1>2. PICK kept \in Remembered(told) :
        watches' = [watches EXCEPT ![w].notified = IF new = {} THEN watches[w].notified ELSE kept]
  BY DEF ScanDeposits
<1>3. WatchesInv /\ WatchFine(w) /\ new \subseteq Payments
  BY DEF ReceiptsInv, WatchesInv, PaymentsInv, Mined
<1>4. new \cap watches[w].notified = {}
  OBVIOUS
<1> HIDE DEF new
<1>5. told \subseteq Payments
  BY <1>3 DEF WatchFine
<1>6. kept \subseteq told /\ (Cardinality(told) <= NotifiedCap => kept = told)
  BY <1>2 DEF Remembered
<1>7. /\ watches' \in [Watches -> [depth : Nat, notified : SUBSET Payments, anew : Nat]]
      /\ watches'[w].depth = watches[w].depth /\ watches'[w].anew = watches[w].anew
      /\ watches'[w].notified = IF new = {} THEN watches[w].notified ELSE kept
      /\ \A v \in Watches : v # w => watches'[v] = watches[v]
  BY <1>2, <1>3, <1>5, <1>6 DEF WatchesInv
<1>8. said \in [Payments -> Nat]
  BY <1>3 DEF WatchesInv
<1>9. /\ notices' \in [Watches -> [Payments -> Nat]] /\ notices'[w] = said
      /\ \A v \in Watches : v # w => notices'[v] = notices[v]
  BY <1>1, <1>3, <1>8 DEF WatchesInv
<1>10. Announced(w)' = Announced(w) \union new
  <2>1. \A x \in Payments : notices'[w][x] > 0 <=> notices[w][x] > 0 \/ x \in new
    BY <1>3, <1>9 DEF WatchesInv
  <2> QED
    BY <1>3, <2>1 DEF Announced
<1>11. WatchFine(w)'
  <2>1. watches'[w].notified \subseteq Payments /\ watches'[w].anew \in Nat /\ watches'[w].depth \in Nat
    BY <1>7
  <2>2. watches'[w].anew # 0
    BY <1>1, <1>3, <1>7 DEF WatchFine
  <2>3. ASSUME watches'[w].anew <= 1, Cardinality(Announced(w)') <= NotifiedCap
        PROVE  watches'[w].notified = Announced(w)' /\ \A x \in Payments : notices'[w][x] <= 1
    <3>1. Cardinality(Announced(w)) <= NotifiedCap
      <4>1. IsFiniteSet(Announced(w)') /\ Announced(w) \subseteq Announced(w)'
        BY <1>3, <1>10, FS_Subset, DealsAssumption DEF Announced
      <4>2. Cardinality(Announced(w)) <= Cardinality(Announced(w)')
        BY <4>1, FS_Subset
      <4>3. Cardinality(Announced(w)) \in Int /\ Cardinality(Announced(w)') \in Int
        BY <4>1, FS_Subset, FS_CardinalityType
      <4> QED
        BY <2>3, <4>2, <4>3, DealsAssumption
    <3>2. watches[w].notified = Announced(w) /\ \A x \in Payments : notices[w][x] <= 1
      BY <1>3, <1>7, <2>3, <3>1 DEF WatchFine
    <3>3. told = Announced(w)'
      BY <1>10, <3>2
    <3>4. kept = told
      <4>1. Cardinality(told) = Cardinality(Announced(w)')
        BY <3>3
      <4> QED
        BY <1>6, <2>3, <4>1
    <3>5. watches'[w].notified = Announced(w)'
      BY <1>7, <1>10, <3>2, <3>3, <3>4
    <3>6. \A x \in Payments : x \in new => notices[w][x] = 0
      BY <1>3, <1>4, <3>2 DEF WatchesInv, Announced
    <3>7. \A x \in Payments : notices'[w][x] <= 1
      BY <1>3, <1>9, <3>2, <3>6 DEF WatchesInv
    <3> QED
      BY <3>5, <3>7
  <2> QED
    BY <2>1, <2>2, <2>3 DEF WatchFine
<1>12. ASSUME NEW v \in Watches, v # w
       PROVE  WatchFine(v)'
  <2>1. watches'[v] = watches[v] /\ notices'[v] = notices[v] /\ WatchFine(v)
    BY <1>3, <1>7, <1>9, <1>12 DEF WatchesInv
  <2>2. Announced(v)' = Announced(v)
    BY <2>1 DEF Announced
  <2> QED
    BY <2>1, <2>2 DEF WatchFine
<1>13. WatchesInv'
  BY <1>7, <1>9, <1>11, <1>12 DEF WatchesInv
<1> QED
  BY <1>1, <1>13, WatchesTouched

LEMMA ReceiptsStep == ReceiptsInv /\ [DealsNext]_dealVars => ReceiptsInv'
<1> SUFFICES ASSUME ReceiptsInv, [DealsNext]_dealVars PROVE ReceiptsInv'
  OBVIOUS
<1>1. ASSUME UNCHANGED payVars, today' \in Nat
      PROVE  ReceiptsInv'
  <2>1. PaymentsInv'
    BY <1>1 DEF ReceiptsInv, PaymentsInv, payVars, Waiting, Mined
  <2>2. \A i \in Invoices : InvoiceFine(invoices[i])' /\ Covered(invoices[i])'
    <3>1. UNCHANGED <<blocks, seen, invoices, regressed>>
      BY <1>1 DEF payVars
    <3> QED
      BY <3>1 DEF ReceiptsInv, InvoiceFine, Covered, PaidBy, Mined
  <2>3. WatchesInv'
    BY <1>1 DEF ReceiptsInv, WatchesInv, WatchFine, Announced, payVars
  <2> QED
    BY <1>1, <2>1, <2>2, <2>3 DEF ReceiptsInv, payVars
<1>2. CASE UNCHANGED <<today, payVars>>
  BY <1>1, <1>2 DEF ReceiptsInv, PaymentsInv
<1>3. CASE ChainNext
  BY <1>3, BroadcastKeepsReceipts, MineKeepsReceipts, ReorganiseKeepsReceipts DEF ChainNext
<1>4. CASE WatchesNext
  BY <1>4, ScanKeepsReceipts, RegisterKeepsReceipts DEF WatchesNext
<1>5. CASE DealsTick
  <2>1. today' \in Nat /\ UNCHANGED payVars
    BY <1>5 DEF DealsTick, ReceiptsInv, PaymentsInv
  <2> QED
    BY <1>1, <2>1
<1>6. CASE FundingNext
  BY <1>2, <1>6 DEF FundingNext, SetPolicy, CreateReward, CreateWithdrawal, Record, CreateBatch, FundRest
<1>7. CASE TokenNext \/ VotesNext
  BY <1>2, <1>7 DEF TokenNext, CreateToken, MintToken, TransferToken, BurnToken, TokenRest,
                    VotesNext, CreatePoll, CastVote, ClosePoll, VotePost, VoteImprovement, VoteRest
<1>8. CASE PlansNext \/ AgreementNext
  BY <1>2, <1>8 DEF PlansNext, CreateTeam, ProposeTeam, ApproveTeam, ProposeTreasury, ApproveTreasury,
                    ProposeCircle, JoinCircle, PlanRest, AgreementNext, CreateAgreement, SetAgreement,
                    Advance, AgreementRest
<1>9. CASE UNCHANGED dealVars
  BY <1>2, <1>9 DEF dealVars
<1> QED
  BY <1>3, <1>4, <1>5, <1>6, <1>7, <1>8, <1>9, InvoicesKeepReceipts DEF DealsNext

\* A confirmed invoice was paid by payments that the chain did not hold when it
\* was created, or that a reorganisation put there anew, and a watch announces
\* no deposit twice within its memory (__init__.py:761-844, 2263-2330).
THEOREM ReceiptsStayExact == DealsSpec => []ReceiptsExact
<1>1. ReceiptsInv => ReceiptsExact
  <2> SUFFICES ASSUME ReceiptsInv PROVE PaidAnew(regressed) /\ NotifiedOnce
    BY DEF ReceiptsExact
  <2>1. PaidAnew(regressed)
    BY DEF ReceiptsInv, Covered, PaidBy, PaidAnew
  <2>2. ASSUME NEW w \in Watches
        PROVE  \/ watches[w].anew > 1 \/ Cardinality(Announced(w)) > NotifiedCap
               \/ \A x \in Payments : notices[w][x] <= 1
    <3>1. Announced(w) \subseteq Payments
      BY DEF Announced
    <3>2. Cardinality(Announced(w)) \in Int
      BY <3>1, FS_Subset, FS_CardinalityType, DealsAssumption
    <3>3. NotifiedCap \in Int
      BY DealsAssumption
    <3>4. WatchFine(w)
      BY DEF ReceiptsInv, WatchesInv
    <3> QED
      BY <3>2, <3>3, <3>4 DEF WatchFine
  <2> QED
    BY <2>1, <2>2 DEF NotifiedOnce
<1> QED
  BY <1>1, ReceiptsInitially, ReceiptsStep, PTL DEF DealsSpec

(* ------------------------------ the token --------------------------------- *)
TokenInv ==
  /\ token \in [made : BOOLEAN, supply : Nat, max : Nat, mintable : BOOLEAN, held : [Accounts -> Nat]]
  /\ token.supply <= MaxUnits
  /\ TokenBacked

LEMMA HeldChanged ==
  ASSUME NEW h \in [Accounts -> Nat], NEW a \in Accounts, NEW n \in Nat
  PROVE  /\ [h EXCEPT ![a] = n] \in [Accounts -> Nat]
         /\ SumFunctionOnSet([h EXCEPT ![a] = n], Accounts) = SumFunctionOnSet(h, Accounts) + (n - h[a])
<1> DEFINE g == [h EXCEPT ![a] = n]
<1>1. g \in [Accounts -> Nat] /\ g[a] = n /\ \A b \in Accounts \ {a} : h[b] = g[b]
  OBVIOUS
<1>2. \A b \in Accounts : h[b] \in Int /\ g[b] \in Int
  BY <1>1
<1>3. IsFiniteSet(Accounts)
  BY DealsAssumption
<1> HIDE DEF g
<1>4. SumFunctionOnSet(g, Accounts) = SumFunctionOnSet(h, Accounts) + (g[a] - h[a])
  BY <1>1, <1>2, <1>3, SumChange
<1> QED
  BY <1>1, <1>4 DEF g

LEMMA HoldingsNat ==
  ASSUME NEW h \in [Accounts -> Nat]
  PROVE  SumFunctionOnSet(h, Accounts) \in Nat
BY SumNat, DealsAssumption

LEMMA TokenInitially == DealsInit => TokenInv
<1> SUFFICES ASSUME DealsInit PROVE TokenInv
  OBVIOUS
<1>1. token = NoToken
  BY DEF DealsInit
<1>2. SumFunctionOnSet(NoToken.held, Accounts) = 0
  BY SumZero, DealsAssumption DEF NoToken
<1> QED
  BY <1>1, <1>2, DealsAssumption DEF TokenInv, TokenBacked, NoToken

LEMMA TokenStep == TokenInv /\ TokenNext => TokenInv'
<1> SUFFICES ASSUME TokenInv, TokenNext PROVE TokenInv'
  OBVIOUS
<1>1. /\ token.made \in BOOLEAN /\ token.supply \in Nat /\ token.max \in Nat
      /\ token.mintable \in BOOLEAN /\ token.held \in [Accounts -> Nat]
      /\ token.supply <= MaxUnits /\ MaxUnits \in Nat /\ MaxSupplies \subseteq Nat
      /\ token.supply = SumFunctionOnSet(token.held, Accounts)
      /\ token.max > 0 => token.supply <= token.max
  BY DealsAssumption DEF TokenInv, TokenBacked
<1>2. ASSUME NEW a \in Accounts, NEW u \in 0..MaxUnits, NEW m \in MaxSupplies, NEW f \in BOOLEAN,
             CreateToken(a, u, m, f)
      PROVE  TokenInv'
  <2> DEFINE none == NoToken.held
             held == [none EXCEPT ![a] = u]
  <2>1. none \in [Accounts -> Nat] /\ none[a] = 0 /\ SumFunctionOnSet(none, Accounts) = 0
    BY SumZero, DealsAssumption DEF NoToken
  <2>2. u \in Nat /\ u <= MaxUnits /\ m \in Nat /\ (m > 0 => u <= m)
    BY <1>1, <1>2 DEF CreateToken
  <2>3. token' = [made |-> TRUE, supply |-> u, max |-> m, mintable |-> f, held |-> held]
    BY <1>2 DEF CreateToken
  <2> HIDE DEF none
  <2>4. held \in [Accounts -> Nat] /\ SumFunctionOnSet(held, Accounts) = 0 + (u - 0)
    BY <2>1, <2>2, HeldChanged, ZenonT(30)
  <2> HIDE DEF held
  <2> QED
    BY <2>2, <2>3, <2>4 DEF TokenInv, TokenBacked
<1>3. ASSUME NEW a \in Accounts, NEW u \in 1..MaxUnits, MintToken(a, u)
      PROVE  TokenInv'
  <2> DEFINE held == [token.held EXCEPT ![a] = @ + u]
  <2>1. /\ token' = [token EXCEPT !.supply = @ + u, !.held = held]
        /\ token.supply + u <= MaxUnits /\ (token.max = 0 \/ token.supply + u <= token.max)
    BY <1>3 DEF MintToken
  <2>2. u \in Nat /\ token.held[a] \in Nat /\ token.held[a] + u \in Nat
    BY <1>1
  <2>3. /\ held \in [Accounts -> Nat]
        /\ SumFunctionOnSet(held, Accounts) = token.supply + ((token.held[a] + u) - token.held[a])
    BY <1>1, <2>2, HeldChanged
  <2> HIDE DEF held
  <2>4. SumFunctionOnSet(held, Accounts) = token.supply + u
    BY <1>1, <2>2, <2>3
  <2>5. token' = [made |-> token.made, supply |-> token.supply + u, max |-> token.max,
                  mintable |-> token.mintable, held |-> held]
    BY <2>1 DEF TokenInv
  <2> QED
    BY <1>1, <2>1, <2>2, <2>3, <2>4, <2>5 DEF TokenInv, TokenBacked
<1>4. ASSUME NEW a \in Accounts, NEW u \in 1..MaxUnits, BurnToken(a, u)
      PROVE  TokenInv'
  <2> DEFINE held == [token.held EXCEPT ![a] = @ - u]
  <2>1. token' = [token EXCEPT !.held = held, !.supply = @ - u] /\ u <= token.held[a]
    BY <1>4 DEF BurnToken, Burnt
  <2>2. u \in Nat /\ token.held[a] \in Nat /\ token.held[a] - u \in Nat
    BY <1>1, <2>1
  <2>3. /\ held \in [Accounts -> Nat]
        /\ SumFunctionOnSet(held, Accounts) = token.supply + ((token.held[a] - u) - token.held[a])
    BY <1>1, <2>2, HeldChanged
  <2> HIDE DEF held
  <2>4. SumFunctionOnSet(held, Accounts) = token.supply - u /\ SumFunctionOnSet(held, Accounts) \in Nat
    BY <1>1, <2>2, <2>3, HoldingsNat
  <2>5. token' = [made |-> token.made, supply |-> token.supply - u, max |-> token.max,
                  mintable |-> token.mintable, held |-> held]
    BY <2>1 DEF TokenInv
  <2> QED
    BY <1>1, <2>2, <2>3, <2>4, <2>5 DEF TokenInv, TokenBacked
<1>5. ASSUME NEW a \in Accounts, NEW b \in Accounts, NEW u \in 1..MaxUnits, TransferToken(a, b, u)
      PROVE  TokenInv'
  <2> DEFINE taken == [token.held EXCEPT ![a] = @ - u]
             held == [taken EXCEPT ![b] = @ + u]
  <2>1. token' = [token EXCEPT !.held = held] /\ u <= token.held[a] /\ a # b
    BY <1>5 DEF TransferToken
  <2>2. u \in Nat /\ token.held[a] \in Nat /\ token.held[a] - u \in Nat
    BY <1>1, <2>1
  <2>3. /\ taken \in [Accounts -> Nat]
        /\ SumFunctionOnSet(taken, Accounts) = token.supply + ((token.held[a] - u) - token.held[a])
    BY <1>1, <2>2, HeldChanged
  <2> HIDE DEF taken
  <2>4. taken[b] \in Nat /\ taken[b] + u \in Nat
    BY <2>2, <2>3
  <2>5. /\ held \in [Accounts -> Nat]
        /\ SumFunctionOnSet(held, Accounts) = SumFunctionOnSet(taken, Accounts) + ((taken[b] + u) - taken[b])
    BY <2>3, <2>4, HeldChanged
  <2> HIDE DEF held
  <2>6. SumFunctionOnSet(held, Accounts) = token.supply
    BY <1>1, <2>2, <2>3, <2>4, <2>5
  <2> QED
    BY <1>1, <2>1, <2>5, <2>6 DEF TokenInv, TokenBacked
<1> QED
  BY <1>2, <1>3, <1>4, <1>5 DEF TokenNext

(* --------------------------- polls and votes ------------------------------ *)
PollStatuses == {"none", "open", "closed", "canceled"}
Voters(voted, side) == {m \in Members : voted[m] = side}

VotesInv ==
  /\ poll \in [status : PollStatuses, start : Nat, end : Nat, votes : [Members -> Options \union {"none"}]]
  /\ post \in [voted : [Members -> {-1, 0, 1}], up : Int, down : Int, score : Int]
  /\ idea \in [voters : SUBSET Members, votes : Int]
  /\ VotesCounted

LEMMA VoterMoved ==
  ASSUME NEW v \in [Members -> {-1, 0, 1}], NEW m \in Members, NEW d \in {-1, 1}, v[m] # d,
         NEW side \in {-1, 1}
  PROVE  Cardinality(Voters([v EXCEPT ![m] = d], side)) =
           Cardinality(Voters(v, side)) + (IF d = side THEN 1 ELSE 0) - (IF v[m] = side THEN 1 ELSE 0)
<1> DEFINE old == Voters(v, side)
           new == Voters([v EXCEPT ![m] = d], side)
<1>1. IsFiniteSet(old) /\ Cardinality(old) \in Nat
  BY DealsAssumption, FS_Subset, FS_CardinalityType DEF Voters
<1>2. CASE d = side
  <2>1. new = old \union {m} /\ m \notin old /\ v[m] # side
    BY <1>2 DEF Voters
  <2> HIDE DEF old, new
  <2>2. Cardinality(new) = Cardinality(old) + 1
    BY <1>1, <2>1, FS_AddElement
  <2> QED
    BY <1>1, <1>2, <2>1, <2>2 DEF old, new
<1>3. CASE d # side /\ v[m] = side
  <2>1. new = old \ {m} /\ m \in old
    BY <1>3 DEF Voters
  <2> HIDE DEF old, new
  <2>2. Cardinality(new) = Cardinality(old) - 1
    BY <1>1, <2>1, FS_RemoveElement
  <2> QED
    BY <1>1, <1>3, <2>1, <2>2 DEF old, new
<1>4. CASE d # side /\ v[m] # side
  <2>1. new = old
    BY <1>4 DEF Voters
  <2> QED
    BY <1>1, <1>4, <2>1
<1> QED
  BY <1>2, <1>3, <1>4

LEMMA VotesInitially == DealsInit => VotesInv
<1> SUFFICES ASSUME DealsInit PROVE VotesInv
  OBVIOUS
<1>1. /\ poll = NoPoll
      /\ post = [voted |-> [m \in Members |-> 0], up |-> 0, down |-> 0, score |-> 0]
      /\ idea = [voters |-> {}, votes |-> 0]
  BY DEF DealsInit
<1>2. {m \in Members : post.voted[m] = 1} = {} /\ {m \in Members : post.voted[m] = -1} = {}
  BY <1>1
<1>3. VotesCounted
  BY <1>1, <1>2, FS_EmptySet DEF VotesCounted
<1>4. poll \in [status : PollStatuses, start : Nat, end : Nat, votes : [Members -> Options \union {"none"}]]
  BY <1>1 DEF NoPoll, PollStatuses
<1>5. /\ post \in [voted : [Members -> {-1, 0, 1}], up : Int, down : Int, score : Int]
      /\ idea \in [voters : SUBSET Members, votes : Int]
  BY <1>1
<1> QED
  BY <1>3, <1>4, <1>5 DEF VotesInv

LEMMA VotesStep == VotesInv /\ VotesNext => VotesInv'
<1> SUFFICES ASSUME VotesInv, VotesNext PROVE VotesInv'
  OBVIOUS
<1> DEFINE PollType == [status : PollStatuses, start : Nat, end : Nat, votes : [Members -> Options \union {"none"}]]
           PostType == [voted : [Members -> {-1, 0, 1}], up : Int, down : Int, score : Int]
           IdeaType == [voters : SUBSET Members, votes : Int]
<1>1. poll \in PollType /\ post \in PostType /\ idea \in IdeaType /\ VotesCounted
  BY DEF VotesInv
<1>2. ASSUME UNCHANGED <<post, idea>>, poll' \in PollType
      PROVE  VotesInv'
  BY <1>1, <1>2 DEF VotesInv, VotesCounted
<1>3. ASSUME NEW s \in 0..Horizon, NEW e \in 0..Horizon, CreatePoll(s, e)
      PROVE  VotesInv'
  <2>1. s \in Nat /\ e \in Nat
    BY DealsAssumption
  <2>2. poll' \in PollType
    BY <1>3, <2>1 DEF CreatePoll, NoPoll, PollStatuses
  <2> QED
    BY <1>2, <1>3, <2>2 DEF CreatePoll
<1>4. ASSUME NEW m \in Members, NEW o \in Options, CastVote(m, o)
      PROVE  VotesInv'
  <2>1. poll' = [poll EXCEPT !.status = "closed"] \/ poll' = [poll EXCEPT !.votes = [@ EXCEPT ![m] = o]]
    BY <1>4 DEF CastVote
  <2>2. poll' \in PollType
    BY <1>1, <2>1 DEF PollStatuses
  <2> QED
    BY <1>2, <1>4, <2>2 DEF CastVote
<1>5. ASSUME NEW status \in {"closed", "canceled"}, ClosePoll(status)
      PROVE  VotesInv'
  <2>1. poll' \in PollType
    BY <1>1, <1>5 DEF ClosePoll, PollStatuses
  <2> QED
    BY <1>2, <1>5, <2>1 DEF ClosePoll
<1>6. ASSUME NEW m \in Members, NEW d \in {-1, 1}, VotePost(m, d)
      PROVE  VotesInv'
  <2> DEFINE v == post.voted
             Moved(count, side) == count + (IF d = side THEN 1 ELSE 0) - (IF v[m] = side THEN 1 ELSE 0)
  <2>1. /\ v[m] # d /\ UNCHANGED <<poll, idea>>
        /\ post' = [voted |-> [v EXCEPT ![m] = d], up |-> Moved(post.up, 1),
                    down |-> Moved(post.down, -1), score |-> post.score + d - v[m]]
    BY <1>6 DEF VotePost
  <2>2. v \in [Members -> {-1, 0, 1}] /\ post.up \in Int /\ post.down \in Int /\ post.score \in Int
    BY <1>1
  <2>3. /\ post.up = Cardinality(Voters(v, 1)) /\ post.down = Cardinality(Voters(v, -1))
        /\ post.score = post.up - post.down
    BY <1>1 DEF VotesCounted, Voters
  <2> HIDE DEF v
  <2>4. /\ Cardinality(Voters([v EXCEPT ![m] = d], 1)) = Moved(post.up, 1)
        /\ Cardinality(Voters([v EXCEPT ![m] = d], -1)) = Moved(post.down, -1)
    BY <2>1, <2>2, <2>3, VoterMoved, ZenonT(30)
  <2>5. v[m] \in {-1, 0, 1} /\ [v EXCEPT ![m] = d] \in [Members -> {-1, 0, 1}]
    BY <2>2
  <2>6. post'.up \in Int /\ post'.down \in Int /\ post'.score \in Int /\ post'.score = post'.up - post'.down
    BY <2>1, <2>2, <2>3, <2>5
  <2>7. post'.up = Cardinality(Voters(post'.voted, 1)) /\ post'.down = Cardinality(Voters(post'.voted, -1))
    BY <2>1, <2>4
  <2>8. VotesCounted'
    BY <1>1, <2>1, <2>6, <2>7 DEF VotesCounted, Voters
  <2>9. post' \in PostType
    <3>1. post' = [voted |-> post'.voted, up |-> post'.up, down |-> post'.down, score |-> post'.score]
          /\ post'.voted = [v EXCEPT ![m] = d]
      BY <2>1
    <3> QED
      BY <2>5, <2>6, <3>1
  <2> QED
    BY <1>1, <2>1, <2>8, <2>9 DEF VotesInv
<1>7. ASSUME NEW m \in Members, VoteImprovement(m)
      PROVE  VotesInv'
  <2>1. /\ m \notin idea.voters /\ UNCHANGED <<poll, post>>
        /\ idea' = [voters |-> idea.voters \union {m}, votes |-> idea.votes + 1]
    BY <1>7 DEF VoteImprovement
  <2>2. IsFiniteSet(idea.voters) /\ idea.votes = Cardinality(idea.voters)
    BY <1>1, DealsAssumption, FS_Subset DEF VotesCounted
  <2>3. Cardinality(idea.voters \union {m}) = idea.votes + 1
    BY <2>1, <2>2, FS_AddElement
  <2>4. VotesCounted'
    BY <1>1, <2>1, <2>3 DEF VotesCounted
  <2> QED
    BY <1>1, <2>1, <2>4 DEF VotesInv
<1> QED
  BY <1>3, <1>4, <1>5, <1>6, <1>7 DEF VotesNext

(* ------------------------------ proposals --------------------------------- *)
TeamProposal == [approvals : SUBSET Members, status : {"pending", "approved"}]
PlanType == [status : {"none", "pending", "ready"}, needed : Nat, approvals : SUBSET Members, plans : Int]

PlansInv ==
  /\ team \in [needed : Nat \ {0}, proposals : Seq(TeamProposal)]
  /\ treasury \in PlanType /\ circle \in PlanType
  /\ ApprovedByEnough

\* Approvals are members' and can be counted.
LEMMA ApprovalAdded ==
  ASSUME NEW S \in SUBSET Members, NEW m \in Members
  PROVE  /\ S \union {m} \in SUBSET Members
         /\ Cardinality(S) \in Nat /\ Cardinality(S \union {m}) \in Nat
         /\ Cardinality(S) <= Cardinality(S \union {m})
<1>1. IsFiniteSet(S) /\ IsFiniteSet(S \union {m}) /\ S \in SUBSET (S \union {m})
  BY DealsAssumption, FS_Subset
<1> QED
  BY <1>1, FS_Subset, FS_CardinalityType

LEMMA PlansInitially == DealsInit => PlansInv
<1> SUFFICES ASSUME DealsInit PROVE PlansInv
  OBVIOUS
<1>1. /\ team = [needed |-> 1, proposals |-> <<>>]
      /\ treasury = NoProposal /\ circle = NoProposal
  BY DEF DealsInit
<1>2. <<>> \in Seq(TeamProposal) /\ DOMAIN <<>> = {}
  BY EmptySeq
<1>3. team \in [needed : Nat \ {0}, proposals : Seq(TeamProposal)] /\ DOMAIN team.proposals = {}
  BY <1>1, <1>2
<1>4. NoProposal \in PlanType /\ NoProposal.plans = 0 /\ NoProposal.status = "none"
  BY DEF NoProposal, PlanType
<1> QED
  BY <1>1, <1>3, <1>4 DEF PlansInv, ApprovedByEnough

LEMMA PlansStep == PlansInv /\ PlansNext => PlansInv'
<1> SUFFICES ASSUME PlansInv, PlansNext PROVE PlansInv'
  OBVIOUS
<1> DEFINE TeamType == [needed : Nat \ {0}, proposals : Seq(TeamProposal)]
           TeamFine(t) == \A k \in DOMAIN t.proposals :
             t.proposals[k].status = "approved" <=> Cardinality(t.proposals[k].approvals) >= t.needed
           Enough(p) == p.status = "ready" => Cardinality(p.approvals) >= p.needed
           OnePlan(p) == p.plans = IF p.status = "ready" THEN 1 ELSE 0
<1>1. /\ team \in TeamType /\ treasury \in PlanType /\ circle \in PlanType
      /\ TeamFine(team) /\ OnePlan(treasury) /\ Enough(treasury) /\ Enough(circle)
  BY DEF PlansInv, ApprovedByEnough
<1>2. ASSUME team' \in TeamType, treasury' \in PlanType, circle' \in PlanType,
             TeamFine(team'), OnePlan(treasury'), Enough(treasury'), Enough(circle')
      PROVE  PlansInv'
  BY <1>2 DEF PlansInv, ApprovedByEnough
<1>3. ASSUME NEW n \in Needed, CreateTeam(n)
      PROVE  PlansInv'
  <2>1. /\ n \in Nat \ {0} /\ <<>> \in Seq(TeamProposal) /\ DOMAIN <<>> = {}
        /\ UNCHANGED <<treasury, circle>> /\ team' = [needed |-> n, proposals |-> <<>>]
    BY <1>3, DealsAssumption, EmptySeq DEF CreateTeam
  <2>2. team' \in TeamType /\ TeamFine(team')
    BY <2>1
  <2> HIDE DEF TeamType, TeamFine, Enough, OnePlan
  <2> QED
    BY <1>1, <1>2, <2>1, <2>2
<1>4. ASSUME ProposeTeam
      PROVE  PlansInv'
  <2> DEFINE new == [approvals |-> {}, status |-> "pending"]
             s == team.proposals
             t == Append(s, new)
  <2>1. team' = [team EXCEPT !.proposals = t] /\ UNCHANGED <<treasury, circle>>
    BY <1>4 DEF ProposeTeam
  <2>2. s \in Seq(TeamProposal) /\ new \in TeamProposal /\ team.needed \in Nat \ {0}
    BY <1>1 DEF TeamProposal
  <2>3. /\ t \in Seq(TeamProposal) /\ DOMAIN t = DOMAIN s \union {Len(s) + 1}
        /\ \A k \in DOMAIN s : t[k] = s[k]
        /\ t[Len(s) + 1] = new
    BY <2>2, BlockAppended
  <2>4. new.status # "approved" /\ ~(Cardinality(new.approvals) >= team.needed)
    BY <2>2, FS_EmptySet
  <2> HIDE DEF new, t
  <2>5. team' = [needed |-> team.needed, proposals |-> t]
    BY <1>1, <2>1
  <2>6. team' \in TeamType /\ TeamFine(team')
    BY <1>1, <2>2, <2>3, <2>4, <2>5
  <2> HIDE DEF TeamType, TeamFine, Enough, OnePlan
  <2> QED
    BY <1>1, <1>2, <2>1, <2>6
<1>5. ASSUME NEW m \in Members, NEW k \in DOMAIN team.proposals, ApproveTeam(k, m)
      PROVE  PlansInv'
  <2> DEFINE s == team.proposals
             approvals == s[k].approvals \union {m}
             status == IF Cardinality(approvals) >= team.needed THEN "approved" ELSE s[k].status
             new == [approvals |-> approvals, status |-> status]
             t == [s EXCEPT ![k] = new]
  <2>1. team' = [team EXCEPT !.proposals = t] /\ UNCHANGED <<treasury, circle>>
    BY <1>5 DEF ApproveTeam
  <2>2. s \in Seq(TeamProposal) /\ s[k] \in TeamProposal /\ team.needed \in Nat \ {0}
    BY <1>1
  <2>3. /\ approvals \in SUBSET Members
        /\ Cardinality(s[k].approvals) \in Nat /\ Cardinality(approvals) \in Nat
        /\ Cardinality(s[k].approvals) <= Cardinality(approvals)
    BY <2>2, ApprovalAdded DEF TeamProposal
  <2>4. s[k].status = "approved" <=> Cardinality(s[k].approvals) >= team.needed
    BY <1>1
  <2> HIDE DEF approvals
  <2>5. status \in {"pending", "approved"} /\ (status = "approved" <=> Cardinality(approvals) >= team.needed)
    BY <2>2, <2>3, <2>4 DEF TeamProposal
  <2> HIDE DEF status
  <2>6. new \in TeamProposal /\ new.approvals = approvals /\ new.status = status
    BY <2>3, <2>5 DEF TeamProposal
  <2> HIDE DEF new
  <2>7. t \in Seq(TeamProposal) /\ DOMAIN t = DOMAIN s /\ t[k] = new /\ \A j \in DOMAIN s : j # k => t[j] = s[j]
    BY <2>2, <2>6
  <2> HIDE DEF t
  <2>8. team' = [needed |-> team.needed, proposals |-> t]
    BY <1>1, <2>1
  <2>9. team' \in TeamType /\ TeamFine(team')
    <3>1. team'.needed = team.needed /\ team'.proposals = t
      BY <2>8
    <3>2. \A j \in DOMAIN t : t[j].status = "approved" <=> Cardinality(t[j].approvals) >= team.needed
      BY <1>1, <2>5, <2>6, <2>7
    <3> QED
      BY <2>2, <2>7, <2>8, <3>1, <3>2
  <2> HIDE DEF TeamType, TeamFine, Enough, OnePlan
  <2> QED
    BY <1>1, <1>2, <2>1, <2>9
<1>6. ASSUME NEW n \in Needed, ProposeTreasury(n)
      PROVE  PlansInv'
  <2>1. /\ n \in Nat /\ UNCHANGED <<team, circle>>
        /\ treasury' = [status |-> "pending", needed |-> n, approvals |-> {}, plans |-> 0]
    BY <1>6, DealsAssumption DEF ProposeTreasury
  <2>2. treasury' \in PlanType /\ OnePlan(treasury') /\ Enough(treasury')
    BY <2>1 DEF PlanType
  <2> HIDE DEF TeamType, TeamFine, Enough, OnePlan
  <2> QED
    BY <1>1, <1>2, <2>1, <2>2
<1>7. ASSUME NEW m \in Members, ApproveTreasury(m)
      PROVE  PlansInv'
  <2> DEFINE approvals == treasury.approvals \union {m}
             ready == Cardinality(approvals) >= treasury.needed /\ treasury.status = "pending"
             status == IF ready THEN "ready" ELSE treasury.status
             plans == IF ready THEN treasury.plans + 1 ELSE treasury.plans
  <2>1. /\ treasury' = [treasury EXCEPT !.approvals = approvals,
                                        !.status = IF ready THEN "ready" ELSE @,
                                        !.plans = IF ready THEN @ + 1 ELSE @]
        /\ UNCHANGED <<team, circle>>
    BY <1>7 DEF ApproveTreasury
  <2>2. treasury.approvals \in SUBSET Members /\ treasury.needed \in Nat /\ treasury.plans \in Int
        /\ treasury.status \in {"none", "pending", "ready"}
    BY <1>1 DEF PlanType
  <2>3. treasury' = [status |-> status, needed |-> treasury.needed, approvals |-> approvals, plans |-> plans]
    BY <1>1, <2>1 DEF PlanType
  <2>4. /\ approvals \in SUBSET Members
        /\ Cardinality(treasury.approvals) \in Nat /\ Cardinality(approvals) \in Nat
        /\ Cardinality(treasury.approvals) <= Cardinality(approvals)
    BY <2>2, ApprovalAdded
  <2> HIDE DEF approvals
  <2>5. status \in {"none", "pending", "ready"} /\ plans = IF status = "ready" THEN 1 ELSE 0
    BY <1>1, <2>2
  <2>6. status = "ready" => Cardinality(approvals) >= treasury.needed
    BY <1>1, <2>2, <2>4
  <2> HIDE DEF status, plans
  <2>7. treasury' \in PlanType
    BY <2>2, <2>3, <2>4, <2>5 DEF PlanType
  <2>8. OnePlan(treasury') /\ Enough(treasury')
    BY <2>3, <2>5, <2>6
  <2> HIDE DEF TeamType, TeamFine, Enough, OnePlan
  <2> QED
    BY <1>1, <1>2, <2>1, <2>7, <2>8
<1>8. ASSUME NEW m \in Members, ProposeCircle(m)
      PROVE  PlansInv'
  <2>1. /\ UNCHANGED <<team, treasury>>
        /\ circle' = [status |-> "pending", needed |-> Cardinality(Members), approvals |-> {m}, plans |-> 0]
    BY <1>8 DEF ProposeCircle, NoProposal
  <2>2. Cardinality(Members) \in Nat
    BY DealsAssumption, FS_CardinalityType
  <2>3. circle' \in PlanType /\ Enough(circle')
    BY <2>1, <2>2 DEF PlanType
  <2> HIDE DEF TeamType, TeamFine, Enough, OnePlan
  <2> QED
    BY <1>1, <1>2, <2>1, <2>3
<1>9. ASSUME NEW m \in Members, JoinCircle(m)
      PROVE  PlansInv'
  <2> DEFINE members == circle.approvals \union {m}
             active == circle.status = "pending" /\ Cardinality(members) >= circle.needed
             status == IF active THEN "ready" ELSE circle.status
  <2>1. /\ circle' = [circle EXCEPT !.approvals = members, !.status = IF active THEN "ready" ELSE @]
        /\ UNCHANGED <<team, treasury>>
    BY <1>9 DEF JoinCircle
  <2>2. circle.approvals \in SUBSET Members /\ circle.needed \in Nat /\ circle.plans \in Int
        /\ circle.status \in {"none", "pending", "ready"}
    BY <1>1 DEF PlanType
  <2>3. circle' = [status |-> status, needed |-> circle.needed, approvals |-> members, plans |-> circle.plans]
    BY <1>1, <2>1 DEF PlanType
  <2>4. /\ members \in SUBSET Members
        /\ Cardinality(circle.approvals) \in Nat /\ Cardinality(members) \in Nat
        /\ Cardinality(circle.approvals) <= Cardinality(members)
    BY <2>2, ApprovalAdded
  <2> HIDE DEF members
  <2>5. status \in {"none", "pending", "ready"} /\ (status = "ready" => Cardinality(members) >= circle.needed)
    BY <1>1, <2>2, <2>4
  <2> HIDE DEF status
  <2>6. circle' \in PlanType /\ Enough(circle')
    BY <2>2, <2>3, <2>4, <2>5 DEF PlanType
  <2> HIDE DEF TeamType, TeamFine, Enough, OnePlan
  <2> QED
    BY <1>1, <1>2, <2>1, <2>6
<1> QED
  BY <1>3, <1>4, <1>5, <1>6, <1>7, <1>8, <1>9 DEF PlansNext

(* ------------------------ recurring agreements ---------------------------- *)
AgreementInv ==
  /\ agreement \in [status : {"none", "active", "paused", "canceled", "completed"},
                    start : Nat, due : Int, advances : Nat]
  /\ DueOnSchedule

LEMMA AgreementInitially == DealsInit => AgreementInv
<1> SUFFICES ASSUME DealsInit PROVE AgreementInv
  OBVIOUS
<1>1. agreement = NoAgreement
  BY DEF DealsInit
<1>2. Interval * 0 = 0
  BY DealsAssumption
<1> QED
  BY <1>1, <1>2 DEF NoAgreement, AgreementInv, DueOnSchedule

LEMMA AgreementStep == AgreementInv /\ AgreementNext => AgreementInv'
<1> SUFFICES ASSUME AgreementInv, AgreementNext PROVE AgreementInv'
  OBVIOUS
<1>1. /\ agreement \in [status : {"none", "active", "paused", "canceled", "completed"},
                        start : Nat, due : Int, advances : Nat]
      /\ agreement.due = agreement.start + Interval * agreement.advances
      /\ agreement.status = "completed" => agreement.due > LastDue
      /\ Interval \in Nat /\ LastDue \in Int
  BY DealsAssumption DEF AgreementInv, DueOnSchedule
<1>2. ASSUME NEW s \in 0..Horizon, CreateAgreement(s)
      PROVE  AgreementInv'
  <2>1. s \in Nat /\ Interval * 0 = 0
    BY <1>1, DealsAssumption
  <2> QED
    BY <1>2, <2>1 DEF CreateAgreement, AgreementInv, DueOnSchedule
<1>3. ASSUME NEW status \in {"active", "paused", "canceled"}, SetAgreement(status)
      PROVE  AgreementInv'
  BY <1>1, <1>3 DEF SetAgreement, AgreementInv, DueOnSchedule
<1>4. ASSUME NEW paid \in BOOLEAN, Advance(paid)
      PROVE  AgreementInv'
  <2> DEFINE due == agreement.due + Interval
             status == IF paid /\ due > LastDue THEN "completed" ELSE agreement.status
  <2>1. agreement' = [agreement EXCEPT !.due = due, !.advances = @ + 1,
                                       !.status = IF paid /\ due > LastDue THEN "completed" ELSE @]
    BY <1>4 DEF Advance
  <2>2. agreement' = [status |-> status, start |-> agreement.start, due |-> due,
                      advances |-> agreement.advances + 1]
    BY <1>1, <2>1
  <2>3. due \in Int /\ agreement.start \in Nat /\ agreement.advances \in Nat
    BY <1>1
  <2>4. Interval * (agreement.advances + 1) = Interval * agreement.advances + Interval
    BY <1>1, <2>3
  <2>5. due = agreement.start + Interval * (agreement.advances + 1)
    BY <1>1, <2>3, <2>4
  <2>6. /\ status \in {"none", "active", "paused", "canceled", "completed"}
        /\ status = "completed" => due > LastDue
    BY <1>1
  <2> HIDE DEF due, status
  <2> QED
    BY <2>2, <2>3, <2>5, <2>6 DEF AgreementInv, DueOnSchedule
<1> QED
  BY <1>2, <1>3, <1>4 DEF AgreementNext

(* ---------------------------- the document -------------------------------- *)
\* Inductive, part by part: no part of the document reads another one.
DocumentInv == today \in 0..Horizon /\ TokenInv /\ VotesInv /\ PlansInv /\ AgreementInv

LEMMA DocumentStep == DocumentInv /\ [DealsNext]_dealVars => DocumentInv'
<1> SUFFICES ASSUME DocumentInv, [DealsNext]_dealVars PROVE DocumentInv'
  OBVIOUS
<1> DEFINE dated == today \in 0..Horizon
<1>1. dated /\ TokenInv /\ VotesInv /\ PlansInv /\ AgreementInv
  BY DEF DocumentInv
<1>2. ASSUME dated', UNCHANGED token \/ TokenNext, UNCHANGED voteVars \/ VotesNext,
             UNCHANGED <<team, treasury, circle>> \/ PlansNext, UNCHANGED agreement \/ AgreementNext
      PROVE  DocumentInv'
  <2>1. TokenInv'
    BY <1>1, <1>2, TokenStep DEF TokenInv, TokenBacked
  <2>2. VotesInv'
    BY <1>1, <1>2, VotesStep DEF VotesInv, VotesCounted, voteVars
  <2>3. PlansInv'
    BY <1>1, <1>2, PlansStep DEF PlansInv, ApprovedByEnough
  <2>4. AgreementInv'
    BY <1>1, <1>2, AgreementStep DEF AgreementInv, DueOnSchedule
  <2> QED
    BY <1>2, <2>1, <2>2, <2>3, <2>4 DEF DocumentInv
<1>3. ASSUME UNCHANGED <<today, token, voteVars, planVars, agreement>>
      PROVE  DocumentInv'
  BY <1>1, <1>2, <1>3 DEF planVars
<1>4. CASE DealsTick
  <2>1. dated' /\ UNCHANGED <<token, voteVars, planVars, agreement>>
    BY <1>1, <1>4, DealsAssumption DEF DealsTick
  <2> QED
    BY <1>2, <2>1 DEF planVars
<1>5. CASE ChainNext
  BY <1>3, <1>5 DEF ChainNext, Broadcast, MineBlock, Reorganise, ChainRest
<1>6. CASE InvoicesNext
  BY <1>3, <1>6 DEF InvoicesNext, PollInvoice, CreateInvoice, Polled
<1>7. CASE WatchesNext
  BY <1>3, <1>7 DEF WatchesNext, ScanDeposits, RegisterWatch
<1>8. CASE FundingNext
  BY <1>3, <1>8 DEF FundingNext, SetPolicy, CreateReward, CreateWithdrawal, Record, CreateBatch, FundRest
<1>9. CASE TokenNext
  <2>1. UNCHANGED TokenRest
    BY <1>9 DEF TokenNext, CreateToken, MintToken, TransferToken, BurnToken
  <2> QED
    BY <1>1, <1>2, <1>9, <2>1 DEF TokenRest, planVars
<1>10. CASE VotesNext
  <2>1. UNCHANGED VoteRest
    BY <1>10 DEF VotesNext, CreatePoll, CastVote, ClosePoll, VotePost, VoteImprovement
  <2> QED
    BY <1>1, <1>2, <1>10, <2>1 DEF VoteRest, planVars
<1>11. CASE PlansNext
  <2>1. UNCHANGED PlanRest
    BY <1>11 DEF PlansNext, CreateTeam, ProposeTeam, ApproveTeam, ProposeTreasury, ApproveTreasury,
                 ProposeCircle, JoinCircle
  <2> QED
    BY <1>1, <1>2, <1>11, <2>1 DEF PlanRest
<1>12. CASE AgreementNext
  <2>1. UNCHANGED AgreementRest
    BY <1>12 DEF AgreementNext, CreateAgreement, SetAgreement, Advance
  <2> QED
    BY <1>1, <1>2, <1>12, <2>1 DEF AgreementRest, planVars
<1>13. CASE UNCHANGED dealVars
  BY <1>3, <1>13 DEF dealVars
<1> QED
  BY <1>4, <1>5, <1>6, <1>7, <1>8, <1>9, <1>10, <1>11, <1>12, <1>13 DEF DealsNext

LEMMA DocumentInitially == DealsInit => DocumentInv
<1> SUFFICES ASSUME DealsInit PROVE DocumentInv
  OBVIOUS
<1>1. today \in 0..Horizon
  BY DealsAssumption DEF DealsInit
<1> QED
  BY <1>1, TokenInitially, VotesInitially, PlansInitially, AgreementInitially DEF DocumentInv

\* Every saved document adds up: the holders of a token hold its supply, within
\* its maximum; counters are those of the voters however often a vote moved; what
\* counts as approved has its approvals and one payout plan; an agreement is due
\* on schedule (__init__.py:2622-2791, 3101-3131, 3326-3341, 3532-3582,
\* 3866-3932, 4198-4279, 5042-5098).
THEOREM DocumentsAddUp == DealsSpec => []DealsAddUp
<1>1. DealsInit => DocumentInv
  BY DocumentInitially
<1>2. ReceiptsInv /\ DocumentInv => DealsAddUp
  <2> SUFFICES ASSUME ReceiptsInv, DocumentInv PROVE DealsAddUp
    OBVIOUS
  <2>1. TokenInv /\ VotesInv /\ PlansInv /\ AgreementInv /\ today \in 0..Horizon
    BY DEF DocumentInv
  <2>2. \A i \in Invoices : invoices[i].status \in {"none", "unpaid", "expired", "underpaid", "pending", "confirmed"}
    BY DEF ReceiptsInv, InvoiceFine, InvoiceType, InvoiceStatuses
  <2>3. poll.status \in {"none", "open", "closed", "canceled"}
    BY <2>1 DEF VotesInv, PollStatuses
  <2>4. token.supply \in 0..MaxUnits /\ \A a \in Accounts : token.held[a] >= 0
    <3>1. token.supply \in Nat /\ token.supply <= MaxUnits /\ token.held \in [Accounts -> Nat]
      BY <2>1 DEF TokenInv
    <3> QED
      BY <3>1, DealsAssumption
  <2>5. agreement.status \in {"none", "active", "paused", "canceled", "completed"}
    BY <2>1 DEF AgreementInv
  <2>6. DealsTypeOK
    BY <2>1, <2>2, <2>3, <2>4, <2>5 DEF DealsTypeOK
  <2> QED
    BY <2>1, <2>6 DEF DealsAddUp, TokenInv, VotesInv, PlansInv, AgreementInv
<1> QED
  BY <1>1, <1>2, ReceiptsInitially, ReceiptsStep, DocumentStep, PTL DEF DealsSpec

(* --------------------- what is decided stays ----------------------------- *)
\* A poll that nobody has created has no votes.
PollInv == DocumentInv /\ (poll.status = "none" => poll = NoPoll)

LEMMA PollKept ==
  ASSUME PollInv, VotesNext
  PROVE  /\ poll'.status = "none" => poll' = NoPoll
         /\ (poll.status \in {"closed", "canceled"} \/ today \notin poll.start..poll.end) => poll'.votes = poll.votes
         /\ poll.status \in {"closed", "canceled"} => poll'.status \in {"closed", "canceled"}
<1>1. poll \in [status : PollStatuses, start : Nat, end : Nat, votes : [Members -> Options \union {"none"}]]
  BY DEF PollInv, DocumentInv, VotesInv
<1>2. today \in Int
  BY DealsAssumption DEF PollInv, DocumentInv
<1>3. CASE poll' = poll
  BY <1>3 DEF PollInv
<1>4. ASSUME NEW s \in 0..Horizon, NEW e \in 0..Horizon, CreatePoll(s, e)
      PROVE  poll.status = "none" /\ poll = NoPoll /\ poll'.votes = poll.votes /\ poll'.status = "open"
  BY <1>4 DEF CreatePoll, NoPoll, PollInv
<1>5. ASSUME NEW m \in Members, NEW o \in Options, CastVote(m, o)
      PROVE  /\ poll.status # "none" /\ poll'.status # "none"
             /\ (poll.status \in {"closed", "canceled"} \/ today \notin poll.start..poll.end) => poll'.votes = poll.votes
             /\ poll.status \in {"closed", "canceled"} => poll'.status \in {"closed", "canceled"}
  <2>1. poll.status # "none"
    BY <1>5 DEF CastVote
  <2>2. CASE Over(poll)
    <3>1. poll' = [poll EXCEPT !.status = "closed"]
      BY <1>5, <2>2 DEF CastVote
    <3> QED
      BY <1>1, <2>1, <3>1
  <2>3. CASE ~Over(poll)
    <3>1. poll' = [poll EXCEPT !.votes[m] = o] /\ today >= poll.start /\ poll.status = "open" /\ ~(today > poll.end)
      BY <1>5, <2>3 DEF CastVote, Over
    <3>2. poll'.status = "open"
      BY <1>1, <3>1
    <3>3. today \in poll.start..poll.end
      BY <1>1, <1>2, <3>1
    <3> QED
      BY <2>1, <3>1, <3>2, <3>3
  <2> QED
    BY <2>2, <2>3
<1>6. ASSUME NEW x \in {"closed", "canceled"}, ClosePoll(x)
      PROVE  poll'.votes = poll.votes /\ poll'.status = x
  BY <1>1, <1>6 DEF ClosePoll
<1>7. CASE \E s, e \in 0..Horizon : CreatePoll(s, e)
  BY <1>4, <1>7
<1>8. CASE \E m \in Members : \E o \in Options : CastVote(m, o)
  BY <1>5, <1>8
<1>9. CASE \E x \in {"closed", "canceled"} : ClosePoll(x)
  BY <1>6, <1>9
<1> QED
  BY <1>3, <1>7, <1>8, <1>9 DEF VotesNext, VoteImprovement, VotePost

LEMMA PlansKept ==
  ASSUME PlansInv, PlansNext
  PROVE  /\ treasury.status = "ready" => treasury'.status = "ready" \/ treasury'.approvals = {}
         /\ circle.status = "ready" => circle'.status = "ready"
<1>1. treasury \in PlanType /\ circle \in PlanType
  BY DEF PlansInv
<1>2. ASSUME NEW n \in Needed, ProposeTreasury(n)
      PROVE  treasury'.approvals = {} /\ circle' = circle
  BY <1>2 DEF ProposeTreasury
<1>3. ASSUME NEW m \in Members, ApproveTreasury(m)
      PROVE  (treasury.status = "ready" => treasury'.status = "ready") /\ circle' = circle
  BY <1>1, <1>3 DEF ApproveTreasury, PlanType
<1>4. ASSUME NEW m \in Members, ProposeCircle(m)
      PROVE  circle.status # "ready" /\ treasury' = treasury
  BY <1>4 DEF ProposeCircle
<1>5. ASSUME NEW m \in Members, JoinCircle(m)
      PROVE  (circle.status = "ready" => circle'.status = "ready") /\ treasury' = treasury
  BY <1>1, <1>5 DEF JoinCircle, PlanType
<1>6. CASE UNCHANGED <<treasury, circle>>
  BY <1>6
<1>7. CASE \E n \in Needed : ProposeTreasury(n)
  BY <1>2, <1>7
<1>8. CASE \E m \in Members : ApproveTreasury(m) \/ ProposeCircle(m) \/ JoinCircle(m)
  BY <1>3, <1>4, <1>5, <1>8
<1> QED
  BY <1>6, <1>7, <1>8 DEF PlansNext, CreateTeam, ProposeTeam, ApproveTeam

LEMMA DealsMoves ==
  ASSUME [DealsNext]_dealVars
  PROVE  (VotesNext \/ poll' = poll) /\ (PlansNext \/ UNCHANGED <<treasury, circle>>)
<1>1. CASE DealsTick
  BY <1>1 DEF DealsTick, voteVars, planVars
<1>2. CASE ChainNext
  BY <1>2 DEF ChainNext, Broadcast, MineBlock, Reorganise, ChainRest, voteVars, planVars
<1>3. CASE InvoicesNext
  BY <1>3 DEF InvoicesNext, PollInvoice, CreateInvoice, Polled, voteVars, planVars
<1>4. CASE WatchesNext
  BY <1>4 DEF WatchesNext, ScanDeposits, RegisterWatch, voteVars, planVars
<1>5. CASE FundingNext
  BY <1>5 DEF FundingNext, SetPolicy, CreateReward, CreateWithdrawal, Record, CreateBatch, FundRest, voteVars, planVars
<1>6. CASE TokenNext
  BY <1>6 DEF TokenNext, CreateToken, MintToken, TransferToken, BurnToken, TokenRest, voteVars, planVars
<1>7. CASE AgreementNext
  BY <1>7 DEF AgreementNext, CreateAgreement, SetAgreement, Advance, AgreementRest, voteVars, planVars
<1>8. CASE VotesNext
  BY <1>8 DEF VotesNext, CreatePoll, CastVote, ClosePoll, VotePost, VoteImprovement, VoteRest, planVars
<1>9. CASE PlansNext
  BY <1>9 DEF PlansNext, CreateTeam, ProposeTeam, ApproveTeam, ProposeTreasury, ApproveTreasury, ProposeCircle,
     JoinCircle, PlanRest, voteVars
<1>10. CASE UNCHANGED dealVars
  BY <1>10 DEF dealVars, voteVars, planVars
<1> QED
  BY <1>1, <1>2, <1>3, <1>4, <1>5, <1>6, <1>7, <1>8, <1>9, <1>10 DEF DealsNext

LEMMA PollStep == PollInv /\ [DealsNext]_dealVars => PollInv'
<1> SUFFICES ASSUME PollInv, [DealsNext]_dealVars PROVE PollInv'
  OBVIOUS
<1>1. DocumentInv'
  BY DocumentStep DEF PollInv
<1>2. CASE VotesNext
  BY <1>1, <1>2, PollKept DEF PollInv
<1>3. CASE poll' = poll
  BY <1>1, <1>3 DEF PollInv
<1> QED
  BY <1>2, <1>3, DealsMoves

\* Theorem.  A poll that ended keeps its votes and its end, a vote counts only in
\* the time of an open poll, and an approval stands until its proposal is created
\* anew (__init__.py:3911-3932, 4615-4652, 4669-4687, 5069-5098).
THEOREM DecisionsStay == DealsSpec => DecidedStays
<1>1. DealsInit => PollInv
  BY DocumentInitially DEF DealsInit, PollInv
<1>2. PollInv /\ [DealsNext]_dealVars =>
        [/\ (poll.status \in {"closed", "canceled"} \/ today \notin poll.start..poll.end) => poll'.votes = poll.votes
         /\ poll.status \in {"closed", "canceled"} => poll'.status \in {"closed", "canceled"}
         /\ treasury.status = "ready" => treasury'.status = "ready" \/ treasury'.approvals = {}
         /\ circle.status = "ready" => circle'.status = "ready"]_dealVars
  <2> SUFFICES ASSUME PollInv, [DealsNext]_dealVars
      PROVE  /\ (poll.status \in {"closed", "canceled"} \/ today \notin poll.start..poll.end) => poll'.votes = poll.votes
             /\ poll.status \in {"closed", "canceled"} => poll'.status \in {"closed", "canceled"}
             /\ treasury.status = "ready" => treasury'.status = "ready" \/ treasury'.approvals = {}
             /\ circle.status = "ready" => circle'.status = "ready"
    OBVIOUS
  <2>1. /\ (poll.status \in {"closed", "canceled"} \/ today \notin poll.start..poll.end) => poll'.votes = poll.votes
        /\ poll.status \in {"closed", "canceled"} => poll'.status \in {"closed", "canceled"}
    <3>1. CASE VotesNext
      BY <3>1, PollKept
    <3>2. CASE poll' = poll
      BY <3>2
    <3> QED
      BY <3>1, <3>2, DealsMoves
  <2>2. /\ treasury.status = "ready" => treasury'.status = "ready" \/ treasury'.approvals = {}
        /\ circle.status = "ready" => circle'.status = "ready"
    <3>1. CASE PlansNext
      BY <3>1, PlansKept DEF PollInv, DocumentInv
    <3>2. CASE UNCHANGED <<treasury, circle>>
      BY <3>2
    <3> QED
      BY <3>1, <3>2, DealsMoves
  <2> QED
    BY <2>1, <2>2
<1> QED
  BY <1>1, <1>2, PollStep, PTL DEF DealsSpec, DecidedStays

(* ------------------------- documents are sound --------------------------- *)
Numbered(S, n) ==
  /\ \A r \in S : r.n \in 1..n
  /\ \A r, s \in S : r.n = s.n => r = s
New(S, n) == \A r \in S : r.n # n

MoneyFine(deposits, custody, balances, withdrawals, approvals, n) ==
  /\ IsFiniteSet(deposits) /\ IsFiniteSet(withdrawals) /\ IsFiniteSet(approvals)
  /\ Numbered(deposits, n) /\ Numbered(withdrawals, n)
  /\ custody["hot"] + custody["cold"] = SumFunctionOnSet(balances, Customers)
  /\ SumFunctionOnSet(balances, Customers) + InSum({w \in withdrawals : w.status = "released"}) = InSum(deposits)
  /\ \A w \in withdrawals : w.status = "released" => Cardinality(Signers(approvals, w.n)) >= 2

GiftsFine(gifts, n) ==
  Numbered(gifts, n) /\ \A g \in gifts : g.plan # "none" => g.status = "claimed"

EscrowsFine(escrows, bounties, g) ==
  \A e \in EscrowIds : escrows[e].status \in {"released", "refunded"} =>
    \/ Cardinality(Backers(escrows[e], escrows[e].status)) >= 2
    \/ /\ e \in g.awards /\ escrows[e].status = "released"
       /\ g.overlapped \/ \E b \in BountyIds : bounties[b].status = "awarded" /\ bounties[b].escrow = e

Recorded(idem, g) == \A k \in Keys : idem[k] = {} \/ g.handled[k] > 0

Sound(d, g, n) ==
  /\ d \in Documents
  /\ MoneyFine(d.deposits, d.custody, d.balances, d.withdrawals, d.approvals, n)
  /\ GiftsFine(d.gifts, n)
  /\ EscrowsFine(d.escrows, d.bounties, g)
  /\ Chained(d.audit)
  /\ Recorded(d.idem, g)

\* A request that may change documents: its fields, and its number, still free
\* before its handler ran.
Fits(q, n) ==
  /\ q \in Requests /\ WellFormed(q) /\ q.n \in 1..n

FreeIn(d, n) == New(d.deposits, n) /\ New(d.withdrawals, n) /\ New(d.gifts, n)

Ghosts ==
  [handled : [Keys -> Nat], paid : [Txs -> Nat], awards : SUBSET EscrowIds,
   overlapped : BOOLEAN, crashed : BOOLEAN, recreated : BOOLEAN]


(* What a request does to the records that coins fund and pay. *)
GiftsStay(G, H) ==
  \A g \in G : \E h \in H :
    /\ h.n = g.n /\ h.tx = g.tx
    /\ g.status = "claimed" => h.status = "claimed"
    /\ g.plan = "rejected" => h.plan \in {"rejected", "ready"}

EscrowsStay(E, F) ==
  \A e \in EscrowIds : E[e].status \in Final => F[e].status = E[e].status /\ F[e].tx = E[e].tx

Funds(q) == q.kind \in {"deposit", "gift", "escrow"} /\ q.tx # None

Adds(d, e, q) ==
  \A x \in Txs : \A u \in Uses(e, x) : u \in Uses(d, x) \/ (Funds(q) /\ q.tx = x /\ u = Claimant(q))

PaidFrom(d, e, x) ==
  \/ \E g \in d.gifts, h \in e.gifts :
       /\ g.tx = x /\ g.status = "unclaimed"
       /\ h.n = g.n /\ h.tx = x /\ h.status = "claimed"
  \/ \E s \in EscrowIds :
       /\ d.escrows[s].tx = x /\ d.escrows[s].status \notin Final
       /\ e.escrows[s].tx = x /\ e.escrows[s].status \in {"released", "refunded"}

Moves(d, r, q) ==
  /\ r.doc.claims = d.claims /\ r.doc.idem = d.idem
  /\ GiftsStay(d.gifts, r.doc.gifts)
  /\ EscrowsStay(d.escrows, r.doc.escrows) \/ (q.kind = "escrow" /\ d.escrows[q.id].status # "none")
  /\ Adds(d, r.doc, q)
  /\ \A x \in Txs : r.paid = x => PaidFrom(d, r.doc, x)

Still(d, e) ==
  /\ e.claims = d.claims /\ e.idem = d.idem
  /\ e.deposits = d.deposits /\ e.gifts = d.gifts /\ e.escrows = d.escrows

LEMMA GiftsStaySame == ASSUME NEW G PROVE GiftsStay(G, G)
BY DEF GiftsStay

LEMMA StillMoves ==
  ASSUME StoreAssumption, NEW d, NEW r, NEW q, Still(d, r.doc), r.paid = None
  PROVE  Moves(d, r, q)
<1>1. Adds(d, r.doc, q)
  BY DEF Adds, Uses, Still
<1> QED
  BY <1>1, GiftsStaySame DEF Moves, Still, EscrowsStay, StoreAssumption

LEMMA DepositFields ==
  ASSUME NEW d \in Documents, NEW q \in Requests, WellFormed(q), q.kind = "deposit"
  PROVE  LET e == Deposit(d, q).doc
             r == [n |-> q.n, customer |-> q.id, amount |-> q.amount, tx |-> q.tx]
         IN  /\ e \in Documents
             /\ e.deposits = d.deposits \union {r}
             /\ e.custody = [d.custody EXCEPT ![q.tier] = @ + q.amount]
             /\ e.balances = [d.balances EXCEPT ![q.id] = @ + q.amount]
             /\ e.withdrawals = d.withdrawals /\ e.approvals = d.approvals /\ e.gifts = d.gifts
             /\ e.escrows = d.escrows /\ e.bounties = d.bounties /\ e.audit = d.audit
             /\ e.idem = d.idem /\ e.claims = d.claims
<1> DEFINE r == [n |-> q.n, customer |-> q.id, amount |-> q.amount, tx |-> q.tx]
           c == [d.custody EXCEPT ![q.tier] = @ + q.amount]
           b == [d.balances EXCEPT ![q.id] = @ + q.amount]
           e1 == [d EXCEPT !.deposits = d.deposits \union {r}]
           e2 == [e1 EXCEPT !.custody = c]
           e3 == [e2 EXCEPT !.balances = b]
<1>1. q.id \in Customers /\ q.tx \in Txs /\ q.amount \in Nat /\ q.n \in Nat /\ q.tier \in Tiers
  BY DEF Requests, WellFormed
<1>2. r \in DepositRecords
  BY <1>1 DEF DepositRecords
<1>3. c \in [Tiers -> Nat] /\ b \in [Customers -> Nat]
  BY <1>1 DEF Documents
<1>5. Deposit(d, q).doc = e3
  BY <1>1 DEF Deposit, Done, Documents
<1> HIDE DEF r, c, b
<1>6. e1 \in Documents
  BY <1>2 DEF Documents
<1>7. e2 \in Documents
  BY <1>3, <1>6 DEF Documents
<1>8. e3 \in Documents
  BY <1>3, <1>7 DEF Documents
<1> QED
  BY <1>8, <1>5 DEF Documents, r, c, b

LEMMA InSumNat ==
  ASSUME NEW S, Money(S)
  PROVE  InSum(S) \in Nat
<1> DEFINE f == [r \in S |-> r.amount]
<1>1. IsFiniteSet(S) /\ \A r \in S : f[r] \in Nat
  BY DEF Money
<1>2. InSum(S) = SumFunctionOnSet(f, S)
  BY DEF InSum
<1> HIDE DEF f
<1> QED
  BY <1>1, <1>2, SumNat

LEMMA InSumWith ==
  ASSUME NEW S, Money(S), NEW r, r \notin S, r.amount \in Nat
  PROVE  Money(S \union {r}) /\ InSum(S \union {r}) = InSum(S) + r.amount
<1> DEFINE T == S \union {r}
           f == [x \in T |-> x.amount]
           g == [x \in S |-> x.amount]
<1>1. Money(T) /\ IsFiniteSet(S)
  BY FS_AddElement DEF Money
<1>2. /\ \A x \in S : f[x] \in Int /\ g[x] \in Int /\ g[x] = f[x]
      /\ f[r] = r.amount /\ f[r] \in Int
  BY DEF Money
<1>3. InSum(T) = SumFunctionOnSet(f, T) /\ InSum(S) = SumFunctionOnSet(g, S)
  BY DEF InSum
<1> HIDE DEF f, g
<1>4. SumFunctionOnSet(g, S) = SumFunctionOnSet(f, S)
  BY <1>1, <1>2, SumEqual
<1>5. SumFunctionOnSet(f, S \cup {r}) = f[r] + SumFunctionOnSet(f, S)
  BY <1>1, <1>2, SumAdd
<1>6. InSum(S) \in Nat
  BY InSumNat
<1> QED
  BY <1>1, <1>2, <1>3, <1>4, <1>5, <1>6

LEMMA BalanceMoved ==
  ASSUME StoreAssumption, NEW b \in [Customers -> Nat], NEW c \in Customers, NEW v \in Nat
  PROVE  /\ SumFunctionOnSet(b, Customers) \in Nat
         /\ SumFunctionOnSet([b EXCEPT ![c] = v], Customers) = SumFunctionOnSet(b, Customers) + (v - b[c])
<1> DEFINE h == [b EXCEPT ![c] = v]
<1>1. IsFiniteSet(Customers)
  BY DEF StoreAssumption
<1>2. \A x \in Customers : b[x] \in Int /\ h[x] \in Int
  OBVIOUS
<1>3. \A x \in Customers \ {c} : b[x] = h[x]
  OBVIOUS
<1>4. h[c] = v /\ \A x \in Customers : b[x] \in Nat
  OBVIOUS
<1>7. ChangedAt(b, h, Customers, c)
  BY <1>2, <1>3 DEF ChangedAt
<1> HIDE DEF h
<1>5. SumFunctionOnSet(h, Customers) = SumFunctionOnSet(b, Customers) + (h[c] - b[c])
  BY <1>1, <1>7, SumChanged
<1>6. SumFunctionOnSet(b, Customers) \in Nat
  BY <1>1, <1>4, SumNat
<1> QED
  BY <1>4, <1>5, <1>6 DEF h

LEMMA SignersGrow ==
  ASSUME NEW A, IsFiniteSet(A), NEW B, IsFiniteSet(B), A \subseteq B, NEW n
  PROVE  Cardinality(Signers(A, n)) \in Nat /\ Cardinality(Signers(A, n)) <= Cardinality(Signers(B, n))
<1> DEFINE C == {a \in B : a.w = n}
           f == [a \in C |-> a.approver]
<1>1. IsFiniteSet(C)
  BY FS_Subset
<1>2. Signers(B, n) = {f[a] : a \in C}
  BY DEF Signers
<1>3. IsFiniteSet(Signers(B, n))
  <2> HIDE DEF f, C
  <2> QED
    BY <1>1, <1>2, FiniteImage
<1>4. Signers(A, n) \subseteq Signers(B, n)
  BY DEF Signers
<1> QED
  BY <1>3, <1>4, FS_Subset, FS_CardinalityType

LEMMA DepositMoney ==
  ASSUME StoreAssumption, NEW d \in Documents, NEW n \in Nat,
         MoneyFine(d.deposits, d.custody, d.balances, d.withdrawals, d.approvals, n),
         NEW r \in DepositRecords, r.n \in 1..n, New(d.deposits, r.n), NEW tier \in Tiers
  PROVE  MoneyFine(d.deposits \union {r}, [d.custody EXCEPT ![tier] = @ + r.amount],
                   [d.balances EXCEPT ![r.customer] = @ + r.amount], d.withdrawals, d.approvals, n)
<1> DEFINE S == d.deposits
           c == [d.custody EXCEPT ![tier] = @ + r.amount]
           v == d.balances[r.customer] + r.amount
           b == [d.balances EXCEPT ![r.customer] = v]
           R == {w \in d.withdrawals : w.status = "released"}
<1>1. r.amount \in Nat /\ r.customer \in Customers
  BY DEF DepositRecords
<1>2. Money(S)
  BY DEF Documents, DepositRecords, Money, MoneyFine
<1>3. Money(R)
  BY FS_Subset DEF Documents, WithdrawalRecords, Money, MoneyFine
<1>4. r \notin S
  BY DEF New
<1>5. Money(S \union {r}) /\ InSum(S \union {r}) = InSum(S) + r.amount /\ InSum(S) \in Nat /\ InSum(R) \in Nat
  BY <1>1, <1>2, <1>3, <1>4, InSumWith, InSumNat
<1>6. d.balances \in [Customers -> Nat] /\ d.custody \in [Tiers -> Nat]
  BY DEF Documents
<1>7. v \in Nat /\ v - d.balances[r.customer] = r.amount
  BY <1>1, <1>6
<1>8. /\ SumFunctionOnSet(d.balances, Customers) \in Nat
      /\ SumFunctionOnSet(b, Customers) = SumFunctionOnSet(d.balances, Customers) + (v - d.balances[r.customer])
  <2> HIDE DEF v
  <2> QED
    BY <1>1, <1>6, <1>7, BalanceMoved
<1>9. c["hot"] + c["cold"] = d.custody["hot"] + d.custody["cold"] + r.amount
  BY <1>1, <1>6 DEF Tiers
<1>10. Numbered(S \union {r}, n)
  BY <1>4 DEF Numbered, New, MoneyFine
<1>11. IsFiniteSet(S \union {r})
  BY <1>5 DEF Money
<1> HIDE DEF S, c, R, v, b
<1>12. /\ SumFunctionOnSet(b, Customers) + InSum(R) = InSum(S \union {r})
       /\ c["hot"] + c["cold"] = SumFunctionOnSet(b, Customers)
  <2>1. /\ d.custody["hot"] + d.custody["cold"] = SumFunctionOnSet(d.balances, Customers)
        /\ SumFunctionOnSet(d.balances, Customers) + InSum(R) = InSum(S)
    BY DEF MoneyFine, S, R
  <2> QED
    BY <1>1, <1>5, <1>7, <1>8, <1>9, <2>1
<1>13. MoneyFine(S \union {r}, c, b, d.withdrawals, d.approvals, n)
  BY <1>10, <1>11, <1>12 DEF MoneyFine, R
<1> QED
  BY <1>13 DEF S, c, v, b

LEMMA DepositSound ==
  ASSUME StoreAssumption, NEW d, NEW g, NEW n \in Nat, Sound(d, g, n),
         NEW q, Fits(q, n), FreeIn(d, q.n), q.kind = "deposit"
  PROVE  Sound(Deposit(d, q).doc, g, n) /\ Moves(d, Deposit(d, q), q)
<1> DEFINE r == [n |-> q.n, customer |-> q.id, amount |-> q.amount, tx |-> q.tx]
           e == Deposit(d, q).doc
<1>1. d \in Documents /\ q \in Requests /\ WellFormed(q)
  BY DEF Sound, Fits
<1>2. r \in DepositRecords /\ r.n = q.n /\ r.customer = q.id /\ r.amount = q.amount /\ q.tier \in Tiers
  BY <1>1 DEF Requests, WellFormed, DepositRecords
<1>3. MoneyFine(d.deposits \union {r}, [d.custody EXCEPT ![q.tier] = @ + r.amount],
                   [d.balances EXCEPT ![r.customer] = @ + r.amount], d.withdrawals, d.approvals, n)
  <2>1. r.n \in 1..n /\ New(d.deposits, r.n)
    BY <1>2 DEF Fits, FreeIn
  <2>2. MoneyFine(d.deposits, d.custody, d.balances, d.withdrawals, d.approvals, n)
    BY DEF Sound
  <2> HIDE DEF r
  <2> QED
    BY <1>1, <1>2, <2>1, <2>2, DepositMoney
<1>4. /\ e \in Documents
      /\ e.deposits = d.deposits \union {r}
      /\ e.custody = [d.custody EXCEPT ![q.tier] = @ + q.amount]
      /\ e.balances = [d.balances EXCEPT ![q.id] = @ + q.amount]
      /\ e.withdrawals = d.withdrawals /\ e.approvals = d.approvals /\ e.gifts = d.gifts
      /\ e.escrows = d.escrows /\ e.bounties = d.bounties /\ e.audit = d.audit
      /\ e.idem = d.idem /\ e.claims = d.claims
  BY <1>1, DepositFields
<1>6. \A x \in Txs : Uses(e, x) \subseteq Uses(d, x) \union (IF q.tx = x THEN {<<"deposit", q.n>>} ELSE {})
  <2> HIDE DEF e
  <2> QED
    BY <1>4 DEF Uses
<1>7. q.tx # None /\ Claimant(q) = <<"deposit", q.n>>
  BY <1>1 DEF WellFormed, StoreAssumption, Claimant
<1>8. Deposit(d, q).paid = None
  BY DEF Deposit, Done
<1> HIDE DEF r, e
<1>5. Sound(e, g, n)
  BY <1>2, <1>3, <1>4 DEF Sound
<1>9. Adds(d, e, q)
  BY <1>6, <1>7 DEF Adds, Funds
<1> QED
  BY <1>4, <1>5, <1>8, <1>9, GiftsStaySame DEF e, Moves, EscrowsStay, StoreAssumption

\* A record that is not released counts for nothing, whatever it replaces.
LEMMA WithdrawalMoney ==
  ASSUME NEW d \in Documents, NEW n \in Nat,
         MoneyFine(d.deposits, d.custody, d.balances, d.withdrawals, d.approvals, n),
         NEW W, IsFiniteSet(W), Numbered(W, n),
         {w \in W : w.status = "released"} = {w \in d.withdrawals : w.status = "released"},
         NEW A, IsFiniteSet(A), d.approvals \subseteq A
  PROVE  MoneyFine(d.deposits, d.custody, d.balances, W, A, n)
<1>1. ASSUME NEW w \in W, w.status = "released"
      PROVE  Cardinality(Signers(A, w.n)) >= 2
  <2>1. w \in d.withdrawals
    BY <1>1
  <2>2. Cardinality(Signers(d.approvals, w.n)) >= 2 /\ IsFiniteSet(d.approvals)
    BY <1>1, <2>1 DEF MoneyFine
  <2>3. /\ Cardinality(Signers(d.approvals, w.n)) \in Nat
        /\ Cardinality(Signers(d.approvals, w.n)) <= Cardinality(Signers(A, w.n))
    BY <2>2, SignersGrow
  <2>4. IsFiniteSet(Signers(A, w.n))
    <3> DEFINE C == {a \in A : a.w = w.n}
               f == [a \in C |-> a.approver]
    <3>1. IsFiniteSet(C) /\ Signers(A, w.n) = {f[a] : a \in C}
      BY FS_Subset DEF Signers
    <3> HIDE DEF f, C
    <3> QED
      BY <3>1, FiniteImage
  <2>5. Cardinality(Signers(A, w.n)) \in Nat
    BY <2>4, FS_CardinalityType
  <2> QED
    BY <2>2, <2>3, <2>5
<1> QED
  BY <1>1 DEF MoneyFine

LEMMA WithdrawSound ==
  ASSUME StoreAssumption, NEW d, NEW g, NEW n \in Nat, Sound(d, g, n),
         NEW q, Fits(q, n), FreeIn(d, q.n), q.kind = "withdraw"
  PROVE  Sound(RequestWithdrawal(d, q).doc, g, n) /\ Moves(d, RequestWithdrawal(d, q), q)
<1> DEFINE r == [n |-> q.n, customer |-> q.id, amount |-> q.amount, status |-> "requested"]
           W == d.withdrawals \union {r}
           O == [d.owners EXCEPT ![q.id] = q.actor]
           e1 == [d EXCEPT !.owners = O]
           e == [e1 EXCEPT !.withdrawals = W]
<1>1. d \in Documents /\ q \in Requests /\ WellFormed(q) /\ q.n \in 1..n
  BY DEF Sound, Fits
<1>2. r \in WithdrawalRecords /\ r.n = q.n /\ r.status = "requested" /\ q.id \in Customers /\ q.actor \in Actors
  BY <1>1 DEF Requests, WellFormed, WithdrawalRecords
<1>3. O \in [Customers -> Actors \union {None}]
  BY <1>1, <1>2 DEF Documents
<1>4. RequestWithdrawal(d, q).doc = d \/ RequestWithdrawal(d, q).doc = e
  BY <1>1 DEF RequestWithdrawal, Fail, Done, Documents
<1>14. RequestWithdrawal(d, q).paid = None
  BY DEF RequestWithdrawal, Fail, Done
<1>5. MoneyFine(d.deposits, d.custody, d.balances, d.withdrawals, d.approvals, n)
  BY DEF Sound
<1>6. IsFiniteSet(W) /\ Numbered(W, n) /\ IsFiniteSet(d.approvals)
  <2>1. IsFiniteSet(d.withdrawals) /\ Numbered(d.withdrawals, n) /\ New(d.withdrawals, r.n) /\ IsFiniteSet(d.approvals)
    BY <1>2, <1>5 DEF MoneyFine, FreeIn
  <2>2. IsFiniteSet(W)
    BY <2>1, FS_AddElement
  <2> HIDE DEF r
  <2> QED
    BY <1>1, <1>2, <2>1, <2>2 DEF Numbered, New
<1>7. {w \in W : w.status = "released"} = {w \in d.withdrawals : w.status = "released"}
  BY <1>2
<1> HIDE DEF r, O, W
<1>8. e1 \in Documents
  BY <1>1, <1>3 DEF Documents
<1>9. W \subseteq WithdrawalRecords
  BY <1>1, <1>2 DEF W, Documents
<1>10. e \in Documents
  BY <1>8, <1>9 DEF Documents
<1>11. /\ e.deposits = d.deposits /\ e.custody = d.custody /\ e.balances = d.balances
       /\ e.withdrawals = W /\ e.approvals = d.approvals /\ e.gifts = d.gifts
       /\ e.escrows = d.escrows /\ e.bounties = d.bounties /\ e.audit = d.audit /\ e.idem = d.idem
       /\ e.claims = d.claims
  BY <1>1, <1>8, <1>10 DEF Documents
<1>12. MoneyFine(d.deposits, d.custody, d.balances, W, d.approvals, n)
  BY <1>1, <1>5, <1>6, <1>7, WithdrawalMoney
<1> HIDE DEF e
<1>13. Sound(e, g, n) /\ Still(d, e) /\ Still(d, d)
  BY <1>10, <1>11, <1>12 DEF Sound, Still
<1> DEFINE res == RequestWithdrawal(d, q)
<1>15. res.doc = d \/ res.doc = e
  BY <1>4
<1>16. res.paid = None
  BY <1>14
<1> HIDE DEF res
<1>17. Sound(res.doc, g, n) /\ Moves(d, res, q)
  BY <1>13, <1>15, <1>16, StillMoves
<1> QED
  BY <1>17 DEF res

\* A record takes the place of one with the same number.
LEMMA Replaced ==
  ASSUME NEW S, NEW n, Numbered(S, n), NEW r \in S, NEW s, s.n = r.n
  PROVE  Numbered((S \ {r}) \union {s}, n) /\ (s \in S => s = r)
BY DEF Numbered

LEMMA ReplacedFinite ==
  ASSUME NEW S, IsFiniteSet(S), NEW r, NEW s
  PROVE  IsFiniteSet((S \ {r}) \union {s})
<1>1. IsFiniteSet(S \ {r})
  BY FS_Subset
<1> QED
  BY <1>1, FS_AddElement

LEMMA ReleaseMoney ==
  ASSUME StoreAssumption, NEW d \in Documents, NEW n \in Nat,
         MoneyFine(d.deposits, d.custody, d.balances, d.withdrawals, d.approvals, n),
         NEW w \in d.withdrawals, w.status # "released",
         w.amount <= d.balances[w.customer], w.amount <= d.custody["hot"],
         NEW v \in WithdrawalRecords, v.n = w.n, v.amount = w.amount, v.status = "released",
         NEW A, IsFiniteSet(A), d.approvals \subseteq A, Cardinality(Signers(A, w.n)) >= 2
  PROVE  MoneyFine(d.deposits, [d.custody EXCEPT !["hot"] = @ - w.amount],
                   [d.balances EXCEPT ![w.customer] = @ - w.amount],
                   (d.withdrawals \ {w}) \union {v}, A, n)
<1> DEFINE W == (d.withdrawals \ {w}) \union {v}
           R == {x \in d.withdrawals : x.status = "released"}
           Q == {x \in W : x.status = "released"}
           c == [d.custody EXCEPT !["hot"] = @ - w.amount]
           b == [d.balances EXCEPT ![w.customer] = @ - w.amount]
           u == d.balances[w.customer] - w.amount
<1>1. w \in WithdrawalRecords /\ d.balances \in [Customers -> Nat] /\ d.custody \in [Tiers -> Nat]
  BY DEF Documents
<1>2. w.amount \in Nat /\ w.customer \in Customers
  BY <1>1 DEF WithdrawalRecords
<1>3. /\ IsFiniteSet(d.withdrawals) /\ Numbered(d.withdrawals, n) /\ IsFiniteSet(d.deposits) /\ Numbered(d.deposits, n)
      /\ d.custody["hot"] + d.custody["cold"] = SumFunctionOnSet(d.balances, Customers)
      /\ SumFunctionOnSet(d.balances, Customers) + InSum(R) = InSum(d.deposits)
  BY DEF MoneyFine
<1>4. IsFiniteSet(W) /\ Numbered(W, n)
  BY <1>3, Replaced, ReplacedFinite
<1>5. v \notin R /\ w \notin R /\ Q = R \union {v}
  <2>1. v \in d.withdrawals => v = w
    BY <1>3 DEF Numbered
  <2> QED
    BY <2>1
<1>6. Money(R)
  BY <1>3, FS_Subset DEF Documents, WithdrawalRecords, Money
<1>7. v.amount \in Nat
  BY <1>2
<1>8. InSum(Q) = InSum(R) + w.amount /\ InSum(R) \in Nat
  <2> HIDE DEF Q, R, W
  <2>1. InSum(R \union {v}) = InSum(R) + v.amount
    BY <1>5, <1>6, <1>7, InSumWith
  <2> QED
    BY <1>5, <1>6, <2>1, InSumNat
<1>9. u \in Nat /\ u - d.balances[w.customer] = 0 - w.amount
  BY <1>1, <1>2
<1>10. b = [d.balances EXCEPT ![w.customer] = u]
  OBVIOUS
<1>11. /\ SumFunctionOnSet(d.balances, Customers) \in Nat
       /\ SumFunctionOnSet(b, Customers) = SumFunctionOnSet(d.balances, Customers) + (u - d.balances[w.customer])
  <2> HIDE DEF u, b
  <2> QED
    BY <1>1, <1>2, <1>9, <1>10, BalanceMoved
<1>12. c["hot"] + c["cold"] = d.custody["hot"] + d.custody["cold"] - w.amount
  BY <1>1, <1>2 DEF Tiers
<1>13. ASSUME NEW x \in W, x.status = "released"
       PROVE  Cardinality(Signers(A, x.n)) >= 2
  <2>1. CASE x = v
    BY <2>1
  <2>2. CASE x # v
    <3>1. x \in d.withdrawals
      BY <2>2, <1>13
    <3>2. Cardinality(Signers(d.approvals, x.n)) >= 2 /\ IsFiniteSet(d.approvals)
      BY <1>13, <3>1 DEF MoneyFine
    <3>3. /\ Cardinality(Signers(d.approvals, x.n)) \in Nat
          /\ Cardinality(Signers(d.approvals, x.n)) <= Cardinality(Signers(A, x.n))
      BY <3>2, SignersGrow
    <3>4. Cardinality(Signers(A, x.n)) \in Nat
      BY SignersGrow
    <3> QED
      BY <3>2, <3>3, <3>4
  <2> QED
    BY <2>1, <2>2
<1> HIDE DEF c, b, u, R, Q
<1>14. /\ c["hot"] + c["cold"] = SumFunctionOnSet(b, Customers)
       /\ SumFunctionOnSet(b, Customers) + InSum(Q) = InSum(d.deposits)
  <2>1. SumFunctionOnSet(b, Customers) = SumFunctionOnSet(d.balances, Customers) - w.amount
    BY <1>2, <1>9, <1>11
  <2>2. c["hot"] + c["cold"] = SumFunctionOnSet(d.balances, Customers) - w.amount
    <3>1. d.custody["hot"] \in Nat /\ d.custody["cold"] \in Nat
      BY <1>1 DEF Tiers
    <3> QED
      BY <1>2, <1>3, <1>11, <1>12, <3>1
  <2> QED
    BY <1>2, <1>3, <1>8, <1>11, <2>1, <2>2
<1>15. MoneyFine(d.deposits, c, b, W, A, n)
  BY <1>3, <1>4, <1>13, <1>14 DEF MoneyFine, Q
<1> QED
  BY <1>15 DEF c, b

LEMMA ApproveSound ==
  ASSUME StoreAssumption, NEW d, NEW g, NEW n \in Nat, Sound(d, g, n), NEW q, Fits(q, n)
  PROVE  Sound(Approve(d, q).doc, g, n) /\ Moves(d, Approve(d, q), q)
<1> DEFINE A == d.approvals \union {[n |-> q.n, w |-> q.w, approver |-> q.actor]}
           due == {w \in d.withdrawals : w.n = q.w /\ w.status \in {"requested", "approved"}}
           w == CHOOSE x \in due : TRUE
           v == [w EXCEPT !.status = "approved"]
           W == (d.withdrawals \ {w}) \union {v}
           s == [w EXCEPT !.status = "released"]
           S == (d.withdrawals \ {w}) \union {s}
           c == [d.custody EXCEPT !["hot"] = @ - w.amount]
           b == [d.balances EXCEPT ![w.customer] = @ - w.amount]
           a == [d EXCEPT !.approvals = A]
           e == [a EXCEPT !.withdrawals = W]
           f1 == [a EXCEPT !.balances = b]
           f2 == [f1 EXCEPT !.custody = c]
           f == [f2 EXCEPT !.withdrawals = S]
           r == Approve(d, q)
<1>1. d \in Documents /\ q \in Requests /\ q.n \in Nat /\ q.w \in Nat /\ q.actor \in Actors
  BY DEF Sound, Fits, Requests
<1>2. MoneyFine(d.deposits, d.custody, d.balances, d.withdrawals, d.approvals, n)
  BY DEF Sound
<1>6. SUFFICES Sound(r.doc, g, n) /\ Still(d, r.doc)
  <2>1. r.paid = None
    BY DEF Approve, Fail, Done
  <2> HIDE DEF r
  <2>2. Sound(r.doc, g, n) /\ Moves(d, r, q)
    BY <2>1, <1>6, StillMoves
  <2> QED
    BY <2>2 DEF r
<1>3. A \subseteq ApprovalRecords /\ d.approvals \subseteq A /\ IsFiniteSet(A)
  <2>1. [n |-> q.n, w |-> q.w, approver |-> q.actor] \in ApprovalRecords
    BY <1>1 DEF ApprovalRecords
  <2>2. d.approvals \subseteq ApprovalRecords /\ IsFiniteSet(d.approvals)
    BY <1>1, <1>2 DEF Documents, MoneyFine
  <2> QED
    BY <2>1, <2>2, FS_AddElement
<1>4. CASE due = {}
  <2>1. r.doc = d
    BY <1>4 DEF Approve, Fail
  <2> QED
    BY <2>1 DEF Still
<1>5. CASE due # {}
  <2>1. w \in due
    <3> HIDE DEF due
    <3> QED
      BY <1>5
  <2>2. w \in d.withdrawals /\ w \in WithdrawalRecords /\ w.status # "released" /\ w.n = q.w
    BY <1>1, <2>1 DEF Documents
  <2>3. /\ v \in WithdrawalRecords /\ v.n = w.n /\ v.amount = w.amount /\ v.status = "approved"
        /\ s \in WithdrawalRecords /\ s.n = w.n /\ s.amount = w.amount /\ s.status = "released"
        /\ w.amount \in Nat /\ w.customer \in Customers
    <3> HIDE DEF w
    <3> QED
      BY <2>2 DEF WithdrawalRecords
  <2>4. \/ r.doc = d
        \/ r.doc = e
        \/ /\ r.doc = f /\ ~(Cardinality(Signers(A, w.n)) < 2)
           /\ ~(w.amount > d.balances[w.customer]) /\ ~(w.amount > d.custody["hot"])
    <3>1. /\ a.withdrawals = d.withdrawals /\ a.balances = d.balances /\ a.custody = d.custody
          /\ f1.custody = d.custody /\ f2.withdrawals = d.withdrawals
      BY <1>1 DEF Documents
    <3>2. e = [a EXCEPT !.withdrawals = (@ \ {w}) \union {v}]
      BY <3>1
    <3>3. f = Released(a, w)
      BY <3>1 DEF Released
    <3>4. r = IF Cardinality(Signers(A, q.w)) < 2
              THEN Done([a EXCEPT !.withdrawals = (@ \ {w}) \union {v}])
              ELSE IF w.amount > d.balances[w.customer] \/ w.amount > d.custody["hot"] THEN Fail(d)
              ELSE Done(Released(a, w))
      BY <1>5 DEF Approve
    <3> HIDE DEF A, w, v, W, s, S, c, b, a, e, f1, f2, f, r
    <3> QED
      BY <2>2, <3>2, <3>3, <3>4 DEF Done, Fail
  <2>5. W \subseteq WithdrawalRecords /\ S \subseteq WithdrawalRecords
    BY <1>1, <2>3 DEF Documents
  <2>6. a \in Documents
    <3> HIDE DEF A
    <3> QED
      BY <1>1, <1>3 DEF Documents
  <2>7. /\ IsFiniteSet(d.withdrawals) /\ Numbered(d.withdrawals, n)
    BY <1>2 DEF MoneyFine
  <2>8. CASE r.doc = e
    <3>1. IsFiniteSet(W) /\ Numbered(W, n)
      <4> HIDE DEF w, v
      <4> QED
        BY <2>2, <2>3, <2>7, Replaced, ReplacedFinite
    <3>2. {x \in W : x.status = "released"} = {x \in d.withdrawals : x.status = "released"}
      <4> HIDE DEF w, v
      <4> QED
        BY <2>2, <2>3
    <3> HIDE DEF A, w, v, W
    <3>3. MoneyFine(d.deposits, d.custody, d.balances, W, A, n)
      BY <1>1, <1>2, <1>3, <3>1, <3>2, WithdrawalMoney
    <3> HIDE DEF a
    <3>4. e \in Documents
      BY <2>5, <2>6 DEF Documents
    <3>5. /\ e.deposits = d.deposits /\ e.custody = d.custody /\ e.balances = d.balances
          /\ e.withdrawals = W /\ e.approvals = A /\ e.gifts = d.gifts
          /\ e.escrows = d.escrows /\ e.bounties = d.bounties /\ e.audit = d.audit /\ e.idem = d.idem
          /\ e.claims = d.claims
      BY <1>1, <2>6 DEF Documents, a
    <3> HIDE DEF e, r
    <3>6. Sound(r.doc, g, n)
      BY <2>8, <3>3, <3>4, <3>5 DEF Sound
    <3> QED
      BY <2>8, <3>5, <3>6 DEF Still
  <2>9. CASE /\ r.doc = f /\ ~(Cardinality(Signers(A, w.n)) < 2)
             /\ ~(w.amount > d.balances[w.customer]) /\ ~(w.amount > d.custody["hot"])
    <3>0. d.balances \in [Customers -> Nat] /\ d.custody \in [Tiers -> Nat]
      BY <1>1 DEF Documents
    <3> HIDE DEF w, s, A
    <3>1. w.amount <= d.balances[w.customer] /\ w.amount <= d.custody["hot"]
      BY <2>3, <2>9, <3>0 DEF Tiers
    <3>2. Cardinality(Signers(A, w.n)) >= 2
      BY <1>3, <2>9, SignersGrow
    <3>3. MoneyFine(d.deposits, c, b, S, A, n)
      BY <1>1, <1>2, <1>3, <2>2, <2>3, <3>1, <3>2, ReleaseMoney
    <3>4. b \in [Customers -> Nat] /\ c \in [Tiers -> Nat]
      BY <2>3, <3>0, <3>1 DEF Tiers
    <3> HIDE DEF b, c, S, a
    <3>5. f1 \in Documents
      BY <2>6, <3>4 DEF Documents
    <3>6. f2 \in Documents
      BY <3>5, <3>4 DEF Documents
    <3>7. f \in Documents
      BY <2>5, <3>6 DEF Documents
    <3>8. /\ f.deposits = d.deposits /\ f.custody = c /\ f.balances = b
          /\ f.withdrawals = S /\ f.approvals = A /\ f.gifts = d.gifts
          /\ f.escrows = d.escrows /\ f.bounties = d.bounties /\ f.audit = d.audit /\ f.idem = d.idem
          /\ f.claims = d.claims
      BY <1>1, <2>6, <3>5, <3>6 DEF Documents, a
    <3> HIDE DEF f, r
    <3>9. Sound(r.doc, g, n)
      BY <2>9, <3>3, <3>7, <3>8 DEF Sound
    <3> QED
      BY <2>9, <3>8, <3>9 DEF Still
  <2>10. CASE r.doc = d
    BY <2>10 DEF Still
  <2> QED
    BY <2>4, <2>8, <2>9, <2>10
<1> QED
  BY <1>4, <1>5

\* Documents that differ in their gifts.
LEMMA GiftsSound ==
  ASSUME NEW d, NEW g, NEW n, Sound(d, g, n), NEW G \in SUBSET GiftRecords, GiftsFine(G, n)
  PROVE  LET e == [d EXCEPT !.gifts = G]
         IN  /\ Sound(e, g, n) /\ e.gifts = G
             /\ e.claims = d.claims /\ e.idem = d.idem /\ e.deposits = d.deposits /\ e.escrows = d.escrows
<1> DEFINE e == [d EXCEPT !.gifts = G]
<1>1. d \in Documents
  BY DEF Sound
<1>2. e \in Documents
  BY <1>1 DEF Documents
<1>3. /\ e.deposits = d.deposits /\ e.custody = d.custody /\ e.balances = d.balances
      /\ e.withdrawals = d.withdrawals /\ e.approvals = d.approvals /\ e.gifts = G
      /\ e.escrows = d.escrows /\ e.bounties = d.bounties /\ e.audit = d.audit /\ e.idem = d.idem
      /\ e.claims = d.claims
  BY <1>1 DEF Documents
<1> HIDE DEF e
<1>4. Sound(e, g, n)
  BY <1>2, <1>3 DEF Sound
<1> QED
  BY <1>3, <1>4 DEF e

LEMMA CreateGiftSound ==
  ASSUME StoreAssumption, clock \in Nat, NEW d, NEW g, NEW n \in Nat, Sound(d, g, n),
         NEW q, Fits(q, n), FreeIn(d, q.n), q.kind = "gift"
  PROVE  Sound(CreateGift(d, q).doc, g, n) /\ Moves(d, CreateGift(d, q), q)
<1> DEFINE r == [n |-> q.n, code |-> q.id, tx |-> q.tx, status |-> "unclaimed",
                 until |-> clock + Expiry, plan |-> "none"]
           G == d.gifts \union {r}
           e == [d EXCEPT !.gifts = G]
<1>1. d \in Documents /\ q \in Requests /\ WellFormed(q) /\ q.n \in 1..n
  BY DEF Sound, Fits
<1>2. r \in GiftRecords /\ r.n = q.n /\ r.tx = q.tx /\ r.plan = "none"
  <2>1. q.id \in Codes /\ q.n \in Nat /\ q.tx \in Txs \union {None} /\ clock + Expiry \in Nat
    <3>1. q.n \in Nat /\ q.tx \in Txs \union {None}
      BY <1>1 DEF Requests
    <3>2. q.id \in Codes
      BY <1>1 DEF WellFormed
    <3> QED
      BY <3>1, <3>2 DEF StoreAssumption
  <2> QED
    BY <2>1 DEF GiftRecords
<1>3. CreateGift(d, q).doc = e /\ CreateGift(d, q).paid = None
  BY <1>1 DEF CreateGift, Done, Documents
<1> HIDE DEF r
<1>4. G \in SUBSET GiftRecords
  BY <1>1, <1>2 DEF Documents
<1>5. GiftsFine(G, n)
  <2>1. GiftsFine(d.gifts, n) /\ New(d.gifts, r.n)
    BY <1>2 DEF Sound, FreeIn
  <2> QED
    BY <1>1, <1>2, <2>1 DEF GiftsFine, Numbered, New
<1>6. /\ Sound(e, g, n) /\ e.gifts = G
      /\ e.claims = d.claims /\ e.idem = d.idem /\ e.deposits = d.deposits /\ e.escrows = d.escrows
  <2> HIDE DEF G
  <2> QED
    BY <1>4, <1>5, GiftsSound
<1> HIDE DEF e
<1>7. Adds(d, e, q)
  <2>1. \A x \in Txs : Uses(e, x) \subseteq Uses(d, x) \union (IF q.tx = x THEN {<<"gift", q.n>>} ELSE {})
    BY <1>2, <1>6 DEF Uses
  <2>2. Claimant(q) = <<"gift", q.n>> /\ None \notin Txs
    BY DEF Claimant, StoreAssumption
  <2> QED
    BY <2>1, <2>2 DEF Adds, Funds
<1>8. GiftsStay(d.gifts, e.gifts)
  BY <1>6 DEF GiftsStay
<1> QED
  BY <1>3, <1>6, <1>7, <1>8 DEF Moves, EscrowsStay, StoreAssumption

\* A gift changes its status or its plan.
Becomes(a, b) ==
  /\ b \in GiftRecords /\ b.n = a.n /\ b.tx = a.tx
  /\ b.plan # "none" => b.status = "claimed"
  /\ a.status = "claimed" => b.status = "claimed"
  /\ a.plan = "rejected" => b.plan \in {"rejected", "ready"}

GiftMoved(d, e, g, n, q) ==
  /\ Sound(e, g, n)
  /\ e.claims = d.claims /\ e.idem = d.idem /\ e.escrows = d.escrows
  /\ GiftsStay(d.gifts, e.gifts) /\ EscrowsStay(d.escrows, e.escrows) /\ Adds(d, e, q)

LEMMA GiftReplaced ==
  ASSUME StoreAssumption, NEW d, NEW g, NEW n, Sound(d, g, n), NEW a \in d.gifts,
         NEW b, Becomes(a, b), NEW q
  PROVE  LET e == [d EXCEPT !.gifts = (d.gifts \ {a}) \union {b}]
         IN  GiftMoved(d, e, g, n, q) /\ b \in e.gifts
<1> DEFINE G == (d.gifts \ {a}) \union {b}
           e == [d EXCEPT !.gifts = G]
<1>1. d.gifts \subseteq GiftRecords /\ GiftsFine(d.gifts, n)
  BY DEF Sound, Documents
<1>2. G \in SUBSET GiftRecords
  BY <1>1 DEF Becomes
<1>3. GiftsFine(G, n)
  <2>1. Numbered(G, n)
    BY <1>1, Replaced DEF GiftsFine, Becomes
  <2> QED
    BY <1>1, <2>1 DEF GiftsFine, Becomes
<1>4. /\ Sound(e, g, n) /\ e.gifts = G
      /\ e.claims = d.claims /\ e.idem = d.idem /\ e.deposits = d.deposits /\ e.escrows = d.escrows
  <2> HIDE DEF G
  <2> QED
    BY <1>2, <1>3, GiftsSound
<1> HIDE DEF e
<1>5. GiftsStay(d.gifts, e.gifts)
  BY <1>4 DEF GiftsStay, Becomes
<1>6. Adds(d, e, q)
  BY <1>4 DEF Adds, Uses, Becomes
<1>7. GiftMoved(d, e, g, n, q) /\ b \in e.gifts
  BY <1>4, <1>5, <1>6 DEF EscrowsStay, GiftMoved
<1> QED
  BY <1>7 DEF e

LEMMA ClaimGiftSound ==
  ASSUME StoreAssumption, NEW d, NEW g, NEW n, Sound(d, g, n), NEW q
  PROVE  Sound(ClaimGift(d, q).doc, g, n) /\ Moves(d, ClaimGift(d, q), q)
<1> DEFINE same == {x \in d.gifts : x.code = q.id}
           a == CHOOSE x \in same : \A y \in same : x.n <= y.n
           With(status, plan) == [d EXCEPT !.gifts = (d.gifts \ {a}) \union {[a EXCEPT !.status = status, !.plan = plan]}]
           r == ClaimGift(d, q)
<1>1. d.gifts \subseteq GiftRecords /\ GiftsFine(d.gifts, n) /\ d \in Documents
  BY DEF Sound, Documents
<1>2. r = IF same = {} \/ a.status # "unclaimed" \/ a.tx = None THEN Fail(d)
          ELSE IF clock > a.until THEN FailSaving(With("expired", "none"))
          ELSE Pay(With("claimed", "pending"), a.tx)
  BY <1>1 DEF ClaimGift, Documents
<1>3. CASE same = {} \/ a.status # "unclaimed" \/ a.tx = None
  <2>1. r.doc = d /\ r.paid = None
    <3> HIDE DEF a, same, With, r
    <3> QED
      BY <1>2, <1>3 DEF Fail
  <2> HIDE DEF r
  <2>2. Sound(r.doc, g, n) /\ Moves(d, r, q)
    BY <2>1, StillMoves DEF Still
  <2> QED
    BY <2>2 DEF r
<1>4. CASE ~(same = {} \/ a.status # "unclaimed" \/ a.tx = None)
  <2>1. a \in d.gifts
    <3>1. \E x \in same : \A y \in same : x.n <= y.n
      <4> DEFINE N == {x.n : x \in same}
      <4>1. N # {} /\ N \subseteq Nat
        BY <1>1, <1>4 DEF GiftRecords
      <4>2. PICK m \in N : \A k \in N : m <= k
        <5> HIDE DEF N
        <5> QED
          BY <4>1, LeastElement
      <4> QED
        BY <4>2
    <3>2. a \in same
      <4> HIDE DEF same
      <4> QED
        BY <3>1
    <3> QED
      BY <3>2
  <2>2. a \in GiftRecords /\ a.status = "unclaimed" /\ a.plan = "none"
    <3> HIDE DEF a
    <3> QED
      BY <1>1, <1>4, <2>1 DEF GiftsFine
  <2> DEFINE b == [a EXCEPT !.status = "claimed", !.plan = "pending"]
             c == [a EXCEPT !.status = "expired", !.plan = "none"]
  <2>3. /\ b \in GiftRecords /\ b.n = a.n /\ b.tx = a.tx /\ b.status = "claimed" /\ b.plan = "pending"
        /\ c \in GiftRecords /\ c.n = a.n /\ c.tx = a.tx /\ c.plan = "none"
    <3> HIDE DEF a
    <3> QED
      BY <2>2 DEF GiftRecords
  <2>4. r = FailSaving(With("expired", "none")) \/ r = Pay(With("claimed", "pending"), a.tx)
    BY <1>2, <1>4
  <2> DEFINE e == With("claimed", "pending")
             f == With("expired", "none")
  <2>5. e = [d EXCEPT !.gifts = (d.gifts \ {a}) \union {b}] /\ f = [d EXCEPT !.gifts = (d.gifts \ {a}) \union {c}]
    OBVIOUS
  <2>10. Becomes(a, b) /\ Becomes(a, c)
    <3> HIDE DEF a, b, c
    <3> QED
      BY <2>2, <2>3 DEF Becomes
  <2> HIDE DEF a, b, c, e, f, r, With
  <2>6. GiftMoved(d, e, g, n, q) /\ b \in e.gifts
    BY <2>1, <2>5, <2>10, GiftReplaced
  <2>7. GiftMoved(d, f, g, n, q)
    BY <2>1, <2>5, <2>10, GiftReplaced
  <2>8. CASE r = Pay(e, a.tx)
    <3>1. r.doc = e /\ r.paid = a.tx
      BY <2>8 DEF Pay, Done
    <3>2. \A x \in Txs : r.paid = x => PaidFrom(d, e, x)
      BY <2>1, <2>2, <2>3, <2>6, <3>1 DEF PaidFrom
    <3>3. Sound(r.doc, g, n) /\ Moves(d, r, q)
      BY <2>6, <3>1, <3>2 DEF Moves, GiftMoved
    <3> QED
      BY <3>3 DEF r
  <2>9. CASE r = FailSaving(f)
    <3>1. r.doc = f /\ r.paid = None
      BY <2>9 DEF FailSaving, Fail
    <3>3. Sound(r.doc, g, n) /\ Moves(d, r, q)
      BY <2>7, <3>1 DEF Moves, GiftMoved, StoreAssumption
    <3> QED
      BY <3>3 DEF r
  <2> QED
    BY <2>4, <2>8, <2>9 DEF e, f
<1> QED
  BY <1>3, <1>4

LEMMA ReviewSound ==
  ASSUME StoreAssumption, NEW d, NEW g, NEW n, Sound(d, g, n), NEW q, Fits(q, n), q.kind = "review"
  PROVE  Sound(ReviewPlan(d, q).doc, g, n) /\ Moves(d, ReviewPlan(d, q), q)
<1> DEFINE planned == {x \in d.gifts : x.n = q.w /\ x.plan # "none"}
           a == CHOOSE x \in planned : TRUE
           b == [a EXCEPT !.plan = PlanAfter(q.action)]
           e == [d EXCEPT !.gifts = (d.gifts \ {a}) \union {b}]
           r == ReviewPlan(d, q)
<1>1. d.gifts \subseteq GiftRecords /\ GiftsFine(d.gifts, n) /\ d \in Documents
  BY DEF Sound, Documents
<1>2. r = IF planned = {} \/ (a.plan = "rejected" /\ q.action \in {"signed", "broadcast"}) THEN Fail(d) ELSE Done(e)
  BY <1>1 DEF ReviewPlan, Documents
<1>3. CASE planned = {} \/ (a.plan = "rejected" /\ q.action \in {"signed", "broadcast"})
  <2>1. r.doc = d /\ r.paid = None
    BY <1>2, <1>3 DEF Fail
  <2> HIDE DEF r
  <2>2. Sound(r.doc, g, n) /\ Moves(d, r, q)
    BY <2>1, StillMoves DEF Still
  <2> QED
    BY <2>2 DEF r
<1>4. CASE ~(planned = {} \/ (a.plan = "rejected" /\ q.action \in {"signed", "broadcast"}))
  <2>1. a \in planned
    <3> HIDE DEF planned
    <3> QED
      BY <1>4
  <2>2. a \in d.gifts /\ a \in GiftRecords /\ a.plan # "none" /\ a.status = "claimed"
    <3>1. a \in d.gifts /\ a.plan # "none"
      BY <2>1
    <3> HIDE DEF a
    <3> QED
      BY <1>1, <3>1 DEF GiftsFine
  <2>3. q.action \in {"approve", "reject", "signed", "broadcast"}
    BY DEF Fits, WellFormed
  <2>4. /\ b \in GiftRecords /\ b.n = a.n /\ b.tx = a.tx /\ b.status = "claimed"
        /\ a.plan = "rejected" => b.plan \in {"rejected", "ready"}
    <3>1. PlanAfter(q.action) \in {"ready", "rejected", "signed", "broadcast"}
      BY <2>3 DEF PlanAfter
    <3>2. a.plan = "rejected" => PlanAfter(q.action) \in {"rejected", "ready"}
      BY <1>4, <2>3 DEF PlanAfter
    <3> HIDE DEF a
    <3> QED
      BY <2>2, <3>1, <3>2 DEF GiftRecords
  <2>5. r.doc = e /\ r.paid = None
    BY <1>2, <1>4 DEF Done
  <2> HIDE DEF a, b, r
  <2>6. GiftMoved(d, e, g, n, q)
    <3>1. Becomes(a, b)
      BY <2>2, <2>4 DEF Becomes
    <3> QED
      BY <2>2, <3>1, GiftReplaced
  <2> HIDE DEF e
  <2>7. Sound(r.doc, g, n) /\ Moves(d, r, q)
    BY <2>5, <2>6 DEF Moves, GiftMoved, StoreAssumption
  <2> QED
    BY <2>7 DEF r
<1> QED
  BY <1>3, <1>4

\* Documents that differ in their escrows and bounties.
EscrowsAre(d, e, E, B, g, n) ==
  /\ Sound(e, g, n) /\ e.escrows = E /\ e.bounties = B
  /\ e.claims = d.claims /\ e.idem = d.idem /\ e.deposits = d.deposits /\ e.gifts = d.gifts

LEMMA EscrowsSound ==
  ASSUME NEW d, NEW g, NEW n, Sound(d, g, n), NEW E \in [EscrowIds -> EscrowRecords],
         NEW B \in [BountyIds -> BountyRecords], EscrowsFine(E, B, g)
  PROVE  EscrowsAre(d, [[d EXCEPT !.bounties = B] EXCEPT !.escrows = E], E, B, g, n)
<1> DEFINE c == [d EXCEPT !.bounties = B]
           e == [c EXCEPT !.escrows = E]
<1>1. d \in Documents
  BY DEF Sound
<1>2. c \in Documents
  BY <1>1 DEF Documents
<1>3. /\ c.deposits = d.deposits /\ c.custody = d.custody /\ c.balances = d.balances
      /\ c.withdrawals = d.withdrawals /\ c.approvals = d.approvals /\ c.gifts = d.gifts
      /\ c.bounties = B /\ c.audit = d.audit /\ c.idem = d.idem
      /\ c.claims = d.claims
  BY <1>1 DEF Documents
<1> HIDE DEF c
<1>4. e \in Documents
  BY <1>2 DEF Documents
<1>5. /\ e.deposits = d.deposits /\ e.custody = d.custody /\ e.balances = d.balances
      /\ e.withdrawals = d.withdrawals /\ e.approvals = d.approvals /\ e.gifts = d.gifts
      /\ e.escrows = E /\ e.bounties = B /\ e.audit = d.audit /\ e.idem = d.idem
      /\ e.claims = d.claims
  BY <1>2, <1>3 DEF Documents
<1> HIDE DEF e
<1>6. Sound(e, g, n)
  BY <1>4, <1>5 DEF Sound
<1>7. EscrowsAre(d, e, E, B, g, n)
  BY <1>5, <1>6 DEF EscrowsAre
<1> QED
  BY <1>7 DEF e, c

LEMMA EscrowsOnly ==
  ASSUME NEW d, d \in Documents, NEW E
  PROVE  [d EXCEPT !.escrows = E] = [[d EXCEPT !.bounties = d.bounties] EXCEPT !.escrows = E]
BY DEF Documents

LEMMA BountiesOnly ==
  ASSUME NEW d, d \in Documents, NEW B
  PROVE  [d EXCEPT !.bounties = B] = [[d EXCEPT !.bounties = B] EXCEPT !.escrows = d.escrows]
<1> DEFINE c == [d EXCEPT !.bounties = B]
<1>1. c.escrows = d.escrows
  BY DEF Documents
<1>2. c = [c EXCEPT !.escrows = c.escrows]
  OBVIOUS
<1> QED
  BY <1>1, <1>2

\* An escrow that is not settled changes; what settles it has two behind it.
EscrowBecomes(a, b) ==
  /\ b \in EscrowRecords /\ b.tx = a.tx /\ a.status \notin Final
  /\ b.status \in {"released", "refunded"} => Cardinality(Backers(b, b.status)) >= 2

EscrowMoved(d, e, g, n, q) ==
  /\ Sound(e, g, n)
  /\ e.claims = d.claims /\ e.idem = d.idem
  /\ GiftsStay(d.gifts, e.gifts) /\ EscrowsStay(d.escrows, e.escrows) /\ Adds(d, e, q)

LEMMA EscrowReplaced ==
  ASSUME StoreAssumption, NEW d, NEW g, NEW n, Sound(d, g, n), NEW x \in EscrowIds,
         NEW b, EscrowBecomes(d.escrows[x], b), NEW q
  PROVE  LET e == [d EXCEPT !.escrows = [d.escrows EXCEPT ![x] = b]]
         IN  EscrowMoved(d, e, g, n, q) /\ e.escrows[x] = b
<1> DEFINE E == [d.escrows EXCEPT ![x] = b]
           e == [d EXCEPT !.escrows = E]
<1>1. d \in Documents /\ d.escrows \in [EscrowIds -> EscrowRecords] /\ d.bounties \in [BountyIds -> BountyRecords]
      /\ EscrowsFine(d.escrows, d.bounties, g)
  BY DEF Sound, Documents
<1>2. E \in [EscrowIds -> EscrowRecords]
  BY <1>1 DEF EscrowBecomes
<1>3. E[x] = b /\ \A y \in EscrowIds : y # x => E[y] = d.escrows[y]
  BY <1>1
<1> HIDE DEF E
<1>4. EscrowsFine(E, d.bounties, g)
  BY <1>1, <1>3 DEF EscrowsFine, EscrowBecomes
<1>5. /\ Sound(e, g, n) /\ e.escrows = E /\ e.bounties = d.bounties
      /\ e.claims = d.claims /\ e.idem = d.idem /\ e.deposits = d.deposits /\ e.gifts = d.gifts
  <2> DEFINE B == d.bounties
             f == [[d EXCEPT !.bounties = B] EXCEPT !.escrows = E]
  <2>1. e = f
    BY <1>1, EscrowsOnly
  <2>2. B \in [BountyIds -> BountyRecords] /\ EscrowsFine(E, B, g)
    BY <1>1, <1>4
  <2> HIDE DEF B, e
  <2>3. EscrowsAre(d, f, E, B, g, n)
    BY <1>2, <2>2, EscrowsSound
  <2> HIDE DEF f
  <2> QED
    BY <2>1, <2>3 DEF B, EscrowsAre
<1> HIDE DEF e
<1>6. EscrowsStay(d.escrows, e.escrows)
  BY <1>3, <1>5 DEF EscrowsStay, EscrowBecomes
<1>7. Adds(d, e, q)
  BY <1>3, <1>5 DEF Adds, Uses, EscrowBecomes
<1>8. EscrowMoved(d, e, g, n, q) /\ e.escrows[x] = b
  BY <1>3, <1>5, <1>6, <1>7, GiftsStaySame DEF EscrowMoved
<1> QED
  BY <1>8 DEF E, e

LEMMA CanceledMoves ==
  ASSUME StoreAssumption, NEW d, NEW g, NEW n, Sound(d, g, n), NEW x \in EscrowIds,
         d.escrows[x].status = "funding_ready", NEW q
  PROVE  EscrowMoved(d, Canceled(d, x), g, n, q)
<1> DEFINE b == [d.escrows[x] EXCEPT !.status = "canceled"]
           e == [d EXCEPT !.escrows = [d.escrows EXCEPT ![x] = b]]
<1>1. d \in Documents /\ d.escrows \in [EscrowIds -> EscrowRecords]
  BY DEF Sound, Documents
<1>2. d.escrows[x] \in EscrowRecords
  BY <1>1
<1>3. EscrowBecomes(d.escrows[x], b)
  <2> DEFINE a == d.escrows[x]
  <2>1. a \in EscrowRecords /\ a.status = "funding_ready"
    BY <1>2
  <2> HIDE DEF a
  <2>2. EscrowBecomes(a, [a EXCEPT !.status = "canceled"])
    BY <2>1 DEF EscrowBecomes, EscrowRecords, Final
  <2> QED
    BY <2>2 DEF a
<1>4. Canceled(d, x) = e
  BY <1>1 DEF Canceled, Documents
<1> HIDE DEF b
<1>5. EscrowMoved(d, e, g, n, q)
  BY <1>3, EscrowReplaced
<1> QED
  BY <1>4, <1>5

LEMMA StatusSound ==
  ASSUME StoreAssumption, NEW d, NEW g, NEW n, Sound(d, g, n), NEW q, q.id \in EscrowIds
  PROVE  Sound(EscrowStatus(d, q).doc, g, n) /\ Moves(d, EscrowStatus(d, q), q)
<1> DEFINE r == EscrowStatus(d, q)
<1>1. r.paid = None
  BY DEF EscrowStatus, Done, Fail
<1>2. CASE Stale(d, q.id)
  <2>1. EscrowMoved(d, Canceled(d, q.id), g, n, q)
    BY <1>2, CanceledMoves DEF Stale
  <2>2. r.doc = Canceled(d, q.id)
    BY <1>2 DEF EscrowStatus, Done
  <2> HIDE DEF r
  <2>3. Sound(r.doc, g, n) /\ Moves(d, r, q)
    BY <1>1, <2>1, <2>2 DEF EscrowMoved, Moves, StoreAssumption
  <2> QED
    BY <2>3 DEF r
<1>3. CASE ~Stale(d, q.id)
  <2>1. r.doc = d
    BY <1>3 DEF EscrowStatus, Fail
  <2> HIDE DEF r
  <2>2. Sound(r.doc, g, n) /\ Moves(d, r, q)
    BY <1>1, <2>1, StillMoves DEF Still
  <2> QED
    BY <2>2 DEF r
<1> QED
  BY <1>2, <1>3

LEMMA CheckSound ==
  ASSUME StoreAssumption, NEW d, NEW g, NEW n, Sound(d, g, n), NEW q, q.escrow \in EscrowIds
  PROVE  Sound(CheckBounty(d, q).doc, g, n) /\ Moves(d, CheckBounty(d, q), q)
<1> DEFINE r == CheckBounty(d, q)
<1>1. r.paid = None
  BY DEF CheckBounty, Pass, FailSaving, Done, Fail
<1>2. CASE Stale(d, q.escrow)
  <2>1. EscrowMoved(d, Canceled(d, q.escrow), g, n, q)
    BY <1>2, CanceledMoves DEF Stale
  <2>2. r.doc = Canceled(d, q.escrow)
    BY <1>2 DEF CheckBounty, FailSaving, Fail
  <2> HIDE DEF r
  <2>3. Sound(r.doc, g, n) /\ Moves(d, r, q)
    BY <1>1, <2>1, <2>2 DEF EscrowMoved, Moves, StoreAssumption
  <2> QED
    BY <2>3 DEF r
<1>3. CASE ~Stale(d, q.escrow)
  <2>1. r.doc = d
    BY <1>3 DEF CheckBounty, Pass, Done, Fail
  <2> HIDE DEF r
  <2>2. Sound(r.doc, g, n) /\ Moves(d, r, q)
    BY <1>1, <2>1, StillMoves DEF Still
  <2> QED
    BY <2>2 DEF r
<1> QED
  BY <1>2, <1>3

LEMMA CreateEscrowSound ==
  ASSUME StoreAssumption, clock \in Nat, NEW d, NEW g, NEW n, Sound(d, g, n),
         NEW q, Fits(q, n), q.kind = "escrow"
  PROVE  Sound(CreateEscrow(d, q).doc, g, n) /\ Moves(d, CreateEscrow(d, q), q)
<1> DEFINE b == [status |-> IF q.tx = None THEN "funding_ready" ELSE "funded",
                 tx |-> q.tx, approvals |-> {}, until |-> clock + Expiry]
           E == [d.escrows EXCEPT ![q.id] = b]
           B == d.bounties
           e == [d EXCEPT !.escrows = E]
           f == [[d EXCEPT !.bounties = B] EXCEPT !.escrows = E]
           r == CreateEscrow(d, q)
<1>1. /\ d \in Documents /\ d.escrows \in [EscrowIds -> EscrowRecords] /\ B \in [BountyIds -> BountyRecords]
      /\ EscrowsFine(d.escrows, d.bounties, g)
  BY DEF Sound, Documents
<1>2. q.id \in EscrowIds /\ q.tx \in Txs \union {None}
  BY DEF Fits, Requests, WellFormed
<1>3. b \in EscrowRecords /\ b.tx = q.tx /\ b.status \in {"funding_ready", "funded"}
  <2>1. clock + Expiry \in Nat
    BY DEF StoreAssumption
  <2> QED
    BY <1>2, <2>1 DEF EscrowRecords
<1>4. r.doc = e /\ r.paid = None
  BY <1>1 DEF CreateEscrow, Done, Documents
<1> HIDE DEF b
<1>5. E \in [EscrowIds -> EscrowRecords]
  BY <1>1, <1>3
<1>6. E[q.id] = b /\ \A y \in EscrowIds : y # q.id => E[y] = d.escrows[y]
  BY <1>1, <1>2
<1> HIDE DEF E
<1>7. EscrowsFine(E, B, g)
  BY <1>1, <1>3, <1>6 DEF EscrowsFine
<1>8. e = f
  BY <1>1, EscrowsOnly
<1> HIDE DEF B, e
<1>13. EscrowsAre(d, f, E, B, g, n)
  BY <1>1, <1>5, <1>7, EscrowsSound
<1>9. /\ Sound(f, g, n) /\ f.escrows = E /\ f.bounties = B
      /\ f.claims = d.claims /\ f.idem = d.idem /\ f.deposits = d.deposits /\ f.gifts = d.gifts
  BY <1>13 DEF EscrowsAre
<1> HIDE DEF f
<1>10. EscrowsStay(d.escrows, e.escrows) \/ d.escrows[q.id].status # "none"
  BY <1>6, <1>8, <1>9 DEF EscrowsStay, Final
<1>11. Adds(d, e, q)
  <2>1. \A x \in Txs : Uses(e, x) \subseteq Uses(d, x) \union (IF q.tx = x THEN {<<"escrow", q.id>>} ELSE {})
    BY <1>3, <1>6, <1>8, <1>9 DEF Uses
  <2>2. Claimant(q) = <<"escrow", q.id>> /\ None \notin Txs
    BY DEF Claimant, StoreAssumption
  <2> QED
    BY <2>1, <2>2 DEF Adds, Funds
<1> HIDE DEF r
<1>12. Sound(r.doc, g, n) /\ Moves(d, r, q)
  BY <1>4, <1>8, <1>9, <1>10, <1>11, GiftsStaySame DEF Moves, StoreAssumption
<1> QED
  BY <1>12 DEF r

LEMMA ActSound ==
  ASSUME StoreAssumption, NEW d, NEW g, NEW n, Sound(d, g, n), NEW q, Fits(q, n), q.kind = "act"
  PROVE  Sound(EscrowAction(d, q).doc, g, n) /\ Moves(d, EscrowAction(d, q), q)
<1> DEFINE a == d.escrows[q.id]
           backed == [a EXCEPT !.approvals = a.approvals \union {[action |-> q.action, by |-> q.actor]}]
           To(rec) == [d EXCEPT !.escrows = [d.escrows EXCEPT ![q.id] = rec]]
           r == EscrowAction(d, q)
           disputed == [a EXCEPT !.status = "disputed"]
           canceled == [a EXCEPT !.status = "canceled"]
           settled == [backed EXCEPT !.status = q.action]
           pending == [backed EXCEPT !.status = "pending"]
<1>1. d \in Documents /\ d.escrows \in [EscrowIds -> EscrowRecords]
  BY DEF Sound, Documents
<1>2. q.id \in EscrowIds /\ q.actor \in Actors /\ q.action \in {"released", "refunded", "dispute", "cancel"}
  BY DEF Fits, Requests, WellFormed
<1>3. a \in EscrowRecords
  BY <1>1, <1>2
<1>4. \A rec : [d EXCEPT !.escrows[q.id] = rec] = To(rec)
  BY <1>1 DEF Documents
<1>5. \/ r = Fail(d)
      \/ r = Done(To(disputed)) /\ a.status \notin Final
      \/ r = Done(To(canceled)) /\ a.status \notin Final
      \/ /\ r = Pay(To(settled), a.tx) /\ q.action \in {"released", "refunded"}
         /\ Cardinality(Backers(backed, q.action)) >= 2 /\ a.status \notin Final
      \/ r = Done(To(pending)) /\ q.action \in {"released", "refunded"} /\ a.status \notin Final
  <2>1. r = CASE a.status \in Final \union {"none"} -> Fail(d)
              [] q.action = "dispute" ->
                   IF a.status \in {"funded", "pending"} THEN Done(To(disputed)) ELSE Fail(d)
              [] q.action = "cancel" ->
                   IF a.status = "funding_ready" THEN Done(To(canceled)) ELSE Fail(d)
              [] q.action \in {"released", "refunded"} ->
                   IF a.status \notin {"funded", "disputed", "pending"} THEN Fail(d)
                   ELSE IF Cardinality(Backers(backed, q.action)) >= 2
                   THEN Pay(To(settled), a.tx)
                   ELSE Done(To(pending))
    BY <1>4 DEF EscrowAction
  <2> HIDE DEF r, a, backed, To, disputed, canceled, settled, pending
  <2> QED
    BY <1>2, <2>1 DEF Final
<1>14. ASSUME NEW b, EscrowBecomes(a, b)
       PROVE  EscrowMoved(d, To(b), g, n, q) /\ To(b).escrows[q.id] = b
  <2>1. EscrowMoved(d, To(b), g, n, q)
    BY <1>2, <1>14, EscrowReplaced
  <2>2. To(b).escrows[q.id] = b
    BY <1>1, <1>2 DEF Documents
  <2> QED
    BY <2>1, <2>2
<1>6. ASSUME NEW b, EscrowBecomes(a, b), NEW s, s.doc = To(b), s.paid = None
      PROVE  Sound(s.doc, g, n) /\ Moves(d, s, q)
  <2>1. EscrowMoved(d, To(b), g, n, q)
    BY <1>6, <1>14
  <2> HIDE DEF To
  <2> QED
    BY <1>6, <2>1 DEF EscrowMoved, Moves, StoreAssumption
<1>7. /\ disputed \in EscrowRecords /\ disputed.tx = a.tx /\ disputed.status = "disputed"
      /\ canceled \in EscrowRecords /\ canceled.tx = a.tx /\ canceled.status = "canceled"
  <2> HIDE DEF a
  <2> QED
    BY <1>3 DEF EscrowRecords, Final
<1>8. CASE r = Fail(d)
  <2>1. r.doc = d /\ r.paid = None
    BY <1>8 DEF Fail
  <2> HIDE DEF r
  <2>2. Sound(r.doc, g, n) /\ Moves(d, r, q)
    BY <2>1, StillMoves DEF Still
  <2> QED
    BY <2>2 DEF r
<1>9. CASE r = Done(To(disputed)) /\ a.status \notin Final
  <2>1. EscrowBecomes(a, disputed)
    <3> HIDE DEF a, disputed
    <3> QED
      BY <1>7, <1>9 DEF EscrowBecomes
  <2> HIDE DEF disputed, r, To
  <2>2. r.doc = To(disputed) /\ r.paid = None
    BY <1>9 DEF Done
  <2>3. Sound(r.doc, g, n) /\ Moves(d, r, q)
    BY <1>6, <2>1, <2>2
  <2> QED
    BY <2>3 DEF r
<1>10. CASE r = Done(To(canceled)) /\ a.status \notin Final
  <2>1. EscrowBecomes(a, canceled)
    <3> HIDE DEF a, canceled
    <3> QED
      BY <1>7, <1>10 DEF EscrowBecomes
  <2> HIDE DEF canceled, r, To
  <2>2. r.doc = To(canceled) /\ r.paid = None
    BY <1>10 DEF Done
  <2>3. Sound(r.doc, g, n) /\ Moves(d, r, q)
    BY <1>6, <2>1, <2>2
  <2> QED
    BY <2>3 DEF r
<1>11. ASSUME q.action \in {"released", "refunded"}
       PROVE  /\ settled \in EscrowRecords /\ settled.tx = a.tx /\ settled.status = q.action
              /\ pending \in EscrowRecords /\ pending.tx = a.tx /\ pending.status = "pending"
              /\ settled.approvals = backed.approvals
  <2>1. a.approvals \union {[action |-> q.action, by |-> q.actor]} \in SUBSET [action : {"released", "refunded"}, by : Actors]
    BY <1>2, <1>3, <1>11 DEF EscrowRecords
  <2> DEFINE A == a.approvals \union {[action |-> q.action, by |-> q.actor]}
  <2>2. backed = [a EXCEPT !.approvals = A]
    OBVIOUS
  <2> HIDE DEF A, backed
  <2>3. backed \in EscrowRecords /\ backed.tx = a.tx
    <3>1. A \in SUBSET [action : {"released", "refunded"}, by : Actors]
      BY <2>1 DEF A
    <3> HIDE DEF a
    <3> QED
      BY <1>3, <2>2, <3>1 DEF EscrowRecords
  <2> HIDE DEF a
  <2> QED
    BY <1>11, <2>3 DEF EscrowRecords, Final
<1>12. CASE r = Done(To(pending)) /\ q.action \in {"released", "refunded"} /\ a.status \notin Final
  <2>1. EscrowBecomes(a, pending)
    <3> HIDE DEF a, pending
    <3> QED
      BY <1>11, <1>12 DEF EscrowBecomes
  <2> HIDE DEF pending, r, To
  <2>2. r.doc = To(pending) /\ r.paid = None
    BY <1>12 DEF Done
  <2>3. Sound(r.doc, g, n) /\ Moves(d, r, q)
    BY <1>6, <2>1, <2>2
  <2> QED
    BY <2>3 DEF r
<1>13. CASE /\ r = Pay(To(settled), a.tx) /\ q.action \in {"released", "refunded"}
            /\ Cardinality(Backers(backed, q.action)) >= 2 /\ a.status \notin Final
  <2>1. EscrowBecomes(a, settled)
    <3>1. Backers(settled, settled.status) = Backers(backed, q.action)
      <4> HIDE DEF settled, backed
      <4> QED
        BY <1>11, <1>13 DEF Backers
    <3> HIDE DEF a, settled, backed
    <3> QED
      BY <1>11, <1>13, <3>1 DEF EscrowBecomes
  <2>2. EscrowMoved(d, To(settled), g, n, q) /\ To(settled).escrows[q.id] = settled
    <3> HIDE DEF settled, a, To
    <3> QED
      BY <1>14, <2>1
  <2>3. settled.tx = a.tx /\ settled.status \in {"released", "refunded"} /\ a.status \notin Final
    <3> HIDE DEF settled, a
    <3> QED
      BY <1>11, <1>13
  <2> DEFINE e == To(settled)
  <2>4. r.doc = e /\ r.paid = a.tx
    <3> HIDE DEF r, settled, a
    <3> QED
      BY <1>13 DEF Pay, Done
  <2>5. \A x \in Txs : r.paid = x => PaidFrom(d, e, x)
    <3> HIDE DEF r, settled, To
    <3> QED
      BY <1>2, <2>2, <2>3, <2>4 DEF PaidFrom
  <2> HIDE DEF r, settled, a, To
  <2>6. Sound(r.doc, g, n) /\ Moves(d, r, q)
    BY <2>2, <2>4, <2>5 DEF EscrowMoved, Moves
  <2> QED
    BY <2>6 DEF r
<1> QED
  BY <1>5, <1>8, <1>9, <1>10, <1>12, <1>13

\* A bounty is written where none is awarded, unless requests overlap.
LEMMA CreateBountySound ==
  ASSUME StoreAssumption, NEW d, NEW g, NEW n, Sound(d, g, n),
         NEW q, Fits(q, n), q.kind = "bounty", g.overlapped \/ d.bounties[q.id].status = "none"
  PROVE  Sound(CreateBounty(d, q).doc, g, n) /\ Moves(d, CreateBounty(d, q), q)
<1> DEFINE b == [status |-> "open", escrow |-> q.escrow, winner |-> None]
           B == [d.bounties EXCEPT ![q.id] = b]
           E == d.escrows
           e == [d EXCEPT !.bounties = B]
           f == [[d EXCEPT !.bounties = B] EXCEPT !.escrows = E]
           r == CreateBounty(d, q)
<1>1. /\ d \in Documents /\ E \in [EscrowIds -> EscrowRecords] /\ d.bounties \in [BountyIds -> BountyRecords]
      /\ EscrowsFine(d.escrows, d.bounties, g)
  BY DEF Sound, Documents
<1>2. q.id \in BountyIds /\ b \in BountyRecords
  BY DEF Fits, Requests, WellFormed, BountyRecords
<1>3. r.doc = e /\ r.paid = None
  BY <1>1 DEF CreateBounty, Done, Documents
<1> HIDE DEF b
<1>4. B \in [BountyIds -> BountyRecords] /\ \A x \in BountyIds : x # q.id => B[x] = d.bounties[x]
  BY <1>1, <1>2
<1> HIDE DEF B
<1>5. EscrowsFine(E, B, g)
  BY <1>1, <1>4 DEF EscrowsFine
<1>6. e = f
  BY <1>1, BountiesOnly
<1> HIDE DEF E, e
<1>7. EscrowsAre(d, f, E, B, g, n)
  BY <1>1, <1>4, <1>5, EscrowsSound
<1> HIDE DEF f, r
<1>8. Still(d, r.doc)
  BY <1>3, <1>6, <1>7 DEF EscrowsAre, Still, E
<1>9. Sound(r.doc, g, n) /\ Moves(d, r, q)
  BY <1>3, <1>6, <1>7, <1>8, StillMoves DEF EscrowsAre
<1> QED
  BY <1>9 DEF r

LEMMA AwardSound ==
  ASSUME StoreAssumption, NEW d, NEW g, NEW n, Sound(d, g, n),
         NEW q, Fits(q, n), q.kind = "award",
         AwardBounty(d, q).ok => d.bounties[q.id].escrow \in g.awards \union {None}
  PROVE  Sound(AwardBounty(d, q).doc, g, n) /\ Moves(d, AwardBounty(d, q), q)
<1> DEFINE a == d.bounties[q.id]
           b == [a EXCEPT !.status = "awarded", !.winner = q.actor]
           x == a.escrow
           B == [d.bounties EXCEPT ![q.id] = b]
           awarded == [d EXCEPT !.bounties = B]
           c == [d.escrows[x] EXCEPT !.status = "released"]
           E == [d.escrows EXCEPT ![x] = c]
           f == [awarded EXCEPT !.escrows = E]
           h == [awarded EXCEPT !.escrows = d.escrows]
           r == AwardBounty(d, q)
<1>1. /\ d \in Documents /\ d.escrows \in [EscrowIds -> EscrowRecords] /\ d.bounties \in [BountyIds -> BountyRecords]
      /\ EscrowsFine(d.escrows, d.bounties, g)
  BY DEF Sound, Documents
<1>2. q.id \in BountyIds /\ q.actor \in Actors /\ a \in BountyRecords /\ x \in EscrowIds \union {None}
  BY <1>1 DEF Fits, Requests, WellFormed, BountyRecords
<1>3. /\ b \in BountyRecords /\ b.status = "awarded" /\ b.escrow = x
  <2> HIDE DEF a
  <2> QED
    BY <1>2 DEF BountyRecords
<1>4. [d EXCEPT !.bounties[q.id].status = "awarded", !.bounties[q.id].winner = q.actor] = awarded
  BY <1>1, <1>2 DEF Documents
<1>5. [awarded EXCEPT !.escrows[x].status = "released"] = f
  BY <1>1 DEF Documents
<1>6. r = IF a.status # "open" THEN Fail(d)
          ELSE IF x = None THEN Done(awarded)
          ELSE IF d.escrows[x].status \in Final \union {"none"} THEN Fail(d)
          ELSE Pay(f, d.escrows[x].tx)
  <2> DEFINE w == [d EXCEPT !.bounties[q.id].status = "awarded", !.bounties[q.id].winner = q.actor]
             To(k) == [k EXCEPT !.escrows[x].status = "released"]
  <2>1. r = IF a.status # "open" THEN Fail(d)
            ELSE IF x = None THEN Done(w)
            ELSE IF d.escrows[x].status \in Final \union {"none"} THEN Fail(d)
            ELSE Pay(To(w), d.escrows[x].tx)
    BY DEF AwardBounty
  <2>2. w = awarded /\ To(awarded) = f
    BY <1>4, <1>5
  <2> HIDE DEF w, To, r, a, x, f, awarded
  <2> QED
    BY <2>1, <2>2
<1>7. CASE r = Fail(d)
  <2>1. r.doc = d /\ r.paid = None
    BY <1>7 DEF Fail
  <2> HIDE DEF r
  <2>2. Sound(r.doc, g, n) /\ Moves(d, r, q)
    BY <2>1, StillMoves DEF Still
  <2> QED
    BY <2>2 DEF r
<1>8. B \in [BountyIds -> BountyRecords] /\ B[q.id] = b /\ \A y \in BountyIds : y # q.id => B[y] = d.bounties[y]
  BY <1>1, <1>2, <1>3
<1>9. CASE r = Done(awarded) /\ a.status = "open"
  <2>1. r.doc = awarded /\ r.paid = None
    BY <1>9 DEF Done
  <2>2. EscrowsFine(d.escrows, B, g)
    <3> HIDE DEF a, b, B
    <3>1. a.status = "open"
      BY <1>9
    <3> QED
      BY <1>1, <1>8, <3>1 DEF EscrowsFine, a
  <2>3. awarded = h
    <3> HIDE DEF B
    <3> QED
      BY <1>1, BountiesOnly
  <2> HIDE DEF B, awarded
  <2>4. EscrowsAre(d, h, d.escrows, B, g, n)
    BY <1>1, <1>8, <2>2, EscrowsSound DEF awarded
  <2> HIDE DEF h, r
  <2>5. Sound(r.doc, g, n) /\ Moves(d, r, q)
    BY <2>1, <2>3, <2>4, StillMoves DEF EscrowsAre, Still
  <2> QED
    BY <2>5 DEF r
<1>10. CASE /\ r = Pay(f, d.escrows[x].tx) /\ a.status = "open" /\ x # None
            /\ d.escrows[x].status \notin Final \union {"none"}
  <2>1. r.doc = f /\ r.paid = d.escrows[x].tx /\ r.ok
    BY <1>10 DEF Pay, Done
  <2>2. x \in EscrowIds /\ x \in g.awards
    BY <1>2, <1>10, <2>1
  <2>3. c \in EscrowRecords /\ c.tx = d.escrows[x].tx /\ c.status = "released"
    <3> DEFINE s == d.escrows[x]
    <3>1. s \in EscrowRecords
      BY <1>1, <2>2
    <3> HIDE DEF s
    <3>2. LET t == [s EXCEPT !.status = "released"] IN t \in EscrowRecords /\ t.tx = s.tx /\ t.status = "released"
      BY <3>1 DEF EscrowRecords, Final
    <3> QED
      BY <3>2 DEF s
  <2>4. a.status = "open"
    BY <1>10
  <2> HIDE DEF c
  <2>5. /\ E \in [EscrowIds -> EscrowRecords] /\ E[x] = c
        /\ \A y \in EscrowIds : y # x => E[y] = d.escrows[y]
    BY <1>1, <2>2, <2>3
  <2> HIDE DEF b, B, E
  <2>6. EscrowsFine(E, B, g)
    BY <1>1, <1>2, <1>3, <1>8, <2>2, <2>3, <2>4, <2>5 DEF EscrowsFine
  <2>7. EscrowsAre(d, f, E, B, g, n)
    BY <1>8, <2>5, <2>6, EscrowsSound
  <2>8. d.escrows[x].status \notin Final
    BY <1>10
  <2> HIDE DEF x, f, r, a
  <2>9. EscrowsStay(d.escrows, f.escrows)
    BY <2>2, <2>3, <2>5, <2>7, <2>8 DEF EscrowsStay, EscrowsAre
  <2>10. Adds(d, f, q)
    BY <2>2, <2>3, <2>5, <2>7 DEF Adds, Uses, EscrowsAre
  <2>11. \A y \in Txs : r.paid = y => PaidFrom(d, f, y)
    BY <2>1, <2>2, <2>3, <2>5, <2>7, <2>8 DEF PaidFrom, EscrowsAre
  <2>12. Sound(r.doc, g, n) /\ Moves(d, r, q)
    BY <2>1, <2>7, <2>9, <2>10, <2>11, GiftsStaySame DEF EscrowsAre, Moves
  <2> QED
    BY <2>12 DEF r
<1>11. \/ r = Fail(d)
       \/ r = Done(awarded) /\ a.status = "open"
       \/ /\ r = Pay(f, d.escrows[x].tx) /\ a.status = "open" /\ x # None
          /\ d.escrows[x].status \notin Final \union {"none"}
  <2> HIDE DEF r, a, x, f, awarded
  <2> QED
    BY <1>6
<1> QED
  BY <1>7, <1>9, <1>10, <1>11

LEMMA NonceSound ==
  ASSUME NEW d, NEW g, NEW n, Sound(d, g, n), NEW q, Fits(q, n)
  PROVE  LET r == Nonce(d, q)
         IN  Sound(r.doc, g, n) /\ Still(d, r.doc) /\ r.paid = None /\ (r.save \/ r.doc = d)
<1> DEFINE N == [d.nonces EXCEPT ![q.actor] = q.nonce]
           e == [d EXCEPT !.nonces = N]
           r == Nonce(d, q)
<1>1. d \in Documents /\ d.nonces \in [Actors -> Nat] /\ q.actor \in Actors /\ q.nonce \in Nat
  BY DEF Sound, Documents, Fits, Requests
<1>2. N \in [Actors -> Nat]
  BY <1>1
<1>3. r = Fail(d) \/ r = Done(e)
  BY <1>1 DEF Nonce, Documents
<1> HIDE DEF N
<1>4. e \in Documents
  BY <1>1, <1>2 DEF Documents
<1>5. /\ e.deposits = d.deposits /\ e.custody = d.custody /\ e.balances = d.balances
      /\ e.withdrawals = d.withdrawals /\ e.approvals = d.approvals /\ e.gifts = d.gifts
      /\ e.escrows = d.escrows /\ e.bounties = d.bounties /\ e.audit = d.audit /\ e.idem = d.idem
      /\ e.claims = d.claims
  BY <1>1 DEF Documents
<1> HIDE DEF e, r
<1>6. Sound(e, g, n) /\ Still(d, e)
  BY <1>4, <1>5 DEF Sound, Still
<1>7. Sound(r.doc, g, n) /\ Still(d, r.doc) /\ r.paid = None /\ (r.save \/ r.doc = d)
  BY <1>3, <1>6 DEF Fail, Done, Still
<1> QED
  BY <1>7 DEF r

Claims(d, r, q) ==
  LET e == r.doc
  IN  /\ e.idem = d.idem /\ e.deposits = d.deposits /\ e.gifts = d.gifts /\ e.escrows = d.escrows
      /\ \/ ~r.ok /\ e.claims = d.claims
         \/ r.ok /\ d.claims[q.tx] \subseteq {Claimant(q)} /\ e.claims = [d.claims EXCEPT ![q.tx] = {Claimant(q)}]

LEMMA ClaimSound ==
  ASSUME NEW d, NEW g, NEW n, Sound(d, g, n), NEW q, Fits(q, n), Funds(q)
  PROVE  LET r == Claim(d, q)
         IN  Sound(r.doc, g, n) /\ Claims(d, r, q) /\ r.paid = None /\ (r.save \/ r.doc = d)
<1> DEFINE C == [d.claims EXCEPT ![q.tx] = {Claimant(q)}]
           e == [d EXCEPT !.claims = C]
           r == Claim(d, q)
<1>1. d \in Documents /\ d.claims \in [Txs -> SUBSET Claimants] /\ q.tx \in Txs
  BY DEF Sound, Documents, Fits, Requests, Funds
<1>2. Claimant(q) \in Claimants
  <2>1. q.kind = "escrow" => q.id \in EscrowIds
    BY DEF Fits, WellFormed
  <2>2. q.n \in Nat /\ q.kind \in {"deposit", "gift", "escrow"}
    BY DEF Fits, Requests, Funds
  <2> QED
    BY <2>1, <2>2 DEF Claimant, Claimants
<1>3. C \in [Txs -> SUBSET Claimants]
  BY <1>1, <1>2
<1>4. r = Fail(d) \/ (r = Done(e) /\ d.claims[q.tx] \subseteq {Claimant(q)})
  BY <1>1 DEF Claim, Documents
<1> HIDE DEF C
<1>5. e \in Documents
  BY <1>1, <1>3 DEF Documents
<1>6. /\ e.deposits = d.deposits /\ e.custody = d.custody /\ e.balances = d.balances
      /\ e.withdrawals = d.withdrawals /\ e.approvals = d.approvals /\ e.gifts = d.gifts
      /\ e.escrows = d.escrows /\ e.bounties = d.bounties /\ e.audit = d.audit /\ e.idem = d.idem
      /\ e.claims = C
  BY <1>1 DEF Documents
<1> HIDE DEF e, r
<1>7. Sound(e, g, n)
  BY <1>5, <1>6 DEF Sound
<1>8. Sound(r.doc, g, n) /\ Claims(d, r, q) /\ r.paid = None /\ (r.save \/ r.doc = d)
  BY <1>4, <1>6, <1>7 DEF Fail, Done, Claims, C
<1> QED
  BY <1>8 DEF r

Remembers(d, e, q) ==
  /\ e.claims = d.claims /\ e.deposits = d.deposits /\ e.gifts = d.gifts /\ e.escrows = d.escrows
  /\ e.idem = [d.idem EXCEPT ![q.key] = {Body(q)}]

LEMMA RememberSound ==
  ASSUME NEW d, NEW g, NEW n, Sound(d, g, n), NEW q, Fits(q, n), q.key \in Keys, g.handled[q.key] > 0
  PROVE  LET r == Remember(d, q)
         IN  Sound(r.doc, g, n) /\ Remembers(d, r.doc, q) /\ r.paid = None /\ r.save /\ r.ok
<1> DEFINE I == [d.idem EXCEPT ![q.key] = {Body(q)}]
           e == [d EXCEPT !.idem = I]
           r == Remember(d, q)
<1>1. d \in Documents /\ d.idem \in [Keys -> SUBSET Requests] /\ q \in Requests /\ Recorded(d.idem, g)
  BY DEF Sound, Documents, Fits
<1>2. Body(q) \in Requests
  BY <1>1 DEF Body, Requests
<1>3. I \in [Keys -> SUBSET Requests]
  BY <1>1, <1>2
<1>4. r = Done(e)
  BY <1>1 DEF Remember, Documents
<1>9. Recorded(I, g)
  BY <1>1 DEF Recorded
<1> HIDE DEF I
<1>5. e \in Documents
  BY <1>1, <1>3 DEF Documents
<1>6. /\ e.deposits = d.deposits /\ e.custody = d.custody /\ e.balances = d.balances
      /\ e.withdrawals = d.withdrawals /\ e.approvals = d.approvals /\ e.gifts = d.gifts
      /\ e.escrows = d.escrows /\ e.bounties = d.bounties /\ e.audit = d.audit /\ e.idem = I
      /\ e.claims = d.claims
  BY <1>1 DEF Documents
<1> HIDE DEF e, r
<1>7. Sound(e, g, n)
  BY <1>5, <1>6, <1>9 DEF Sound
<1>8. Sound(r.doc, g, n) /\ Remembers(d, r.doc, q) /\ r.paid = None /\ r.save /\ r.ok
  BY <1>4, <1>6, <1>7 DEF Done, Remembers, I
<1> QED
  BY <1>8 DEF r

LEMMA AuditSound ==
  ASSUME NEW d, NEW g, NEW n, Sound(d, g, n), NEW q, Fits(q, n)
  PROVE  LET r == Audit(d, q)
         IN  Sound(r.doc, g, n) /\ Still(d, r.doc) /\ r.paid = None /\ r.save /\ r.ok
<1> DEFINE L == Audited(d.audit, q.n)
           e == [d EXCEPT !.audit = L]
           r == Audit(d, q)
<1>1. d \in Documents /\ d.audit \in Seq(AuditRecords) /\ q.n \in Nat /\ Chained(d.audit)
  BY DEF Sound, Documents, Fits, Requests
<1>2. L \in Seq(AuditRecords) /\ Chained(L)
  <2> DEFINE log == d.audit
             x == [n |-> q.n, previous |-> IF log = <<>> THEN 0 ELSE log[Len(log)].n]
  <2>1. log \in Seq(AuditRecords) /\ Chained(log)
    BY <1>1
  <2> HIDE DEF log
  <2>2. Len(log) \in Nat /\ (log = <<>> <=> Len(log) = 0) /\ \A i \in 1..Len(log) : log[i] \in AuditRecords
    BY <2>1
  <2>3. x \in AuditRecords /\ x.previous = IF Len(log) = 0 THEN 0 ELSE log[Len(log)].n
    BY <1>1, <2>2 DEF AuditRecords
  <2>4. L = Append(log, x)
    BY DEF Audited, log
  <2> HIDE DEF L, x
  <2>5. L \in Seq(AuditRecords) /\ Len(L) = Len(log) + 1 /\ L[Len(log) + 1] = x
        /\ \A i \in 1..Len(log) : L[i] = log[i]
    BY <2>1, <2>2, <2>3, <2>4
  <2>6. \A i \in DOMAIN log : log[i].previous = IF i = 1 THEN 0 ELSE log[i - 1].n
    BY <2>1 DEF Chained
  <2>7. ASSUME NEW i \in DOMAIN L
        PROVE  L[i].previous = IF i = 1 THEN 0 ELSE L[i - 1].n
    <3>1. i \in 1..(Len(log) + 1)
      BY <2>5
    <3>2. CASE i \in 1..Len(log)
      BY <2>1, <2>2, <2>5, <2>6, <3>2
    <3>3. CASE i = Len(log) + 1
      BY <2>2, <2>3, <2>5, <3>3
    <3> QED
      BY <2>2, <3>1, <3>2, <3>3
  <2> QED
    BY <2>5, <2>7 DEF Chained
<1>3. r = Done(e)
  BY <1>1 DEF Audit, Documents
<1> HIDE DEF L
<1>5. e \in Documents
  BY <1>1, <1>2 DEF Documents
<1>6. /\ e.deposits = d.deposits /\ e.custody = d.custody /\ e.balances = d.balances
      /\ e.withdrawals = d.withdrawals /\ e.approvals = d.approvals /\ e.gifts = d.gifts
      /\ e.escrows = d.escrows /\ e.bounties = d.bounties /\ e.audit = L /\ e.idem = d.idem
      /\ e.claims = d.claims
  BY <1>1 DEF Documents
<1> HIDE DEF e, r
<1>7. Sound(e, g, n) /\ Still(d, e)
  BY <1>2, <1>5, <1>6 DEF Sound, Still
<1>8. Sound(r.doc, g, n) /\ Still(d, r.doc) /\ r.paid = None /\ r.save /\ r.ok
  BY <1>3, <1>7 DEF Done
<1> QED
  BY <1>8 DEF r

(* ------------------------- one segment of a request ----------------------- *)
\* What is not saved is not changed.
LEMMA HandlerSaves ==
  ASSUME NEW d, NEW q, q.kind \in Kinds, q.kind = "act" => q.action \in {"released", "refunded", "dispute", "cancel"}
  PROVE  Handler(d, q).save \/ Handler(d, q).doc = d
<1>0. /\ \A e : Done(e).save /\ FailSaving(e).save /\ \A x : Pay(e, x).save
      /\ Fail(d).doc = d
  BY DEF Fail, FailSaving, Done, Pay
<1>1. CASE q.kind = "deposit"
  <2>1. Handler(d, q) = Deposit(d, q)
    BY <1>1 DEF Handler
  <2>2. Deposit(d, q).save \/ Deposit(d, q).doc = d
    BY <1>0, <1>1 DEF Deposit
  <2> QED
    BY <2>1, <2>2
<1>2. CASE q.kind = "withdraw"
  <2>1. Handler(d, q) = RequestWithdrawal(d, q)
    BY <1>2 DEF Handler
  <2>2. RequestWithdrawal(d, q).save \/ RequestWithdrawal(d, q).doc = d
    BY <1>0, <1>2 DEF RequestWithdrawal
  <2> QED
    BY <2>1, <2>2
<1>3. CASE q.kind = "approve"
  <2>1. Handler(d, q) = Approve(d, q)
    BY <1>3 DEF Handler
  <2>2. Approve(d, q).save \/ Approve(d, q).doc = d
    BY <1>0, <1>3 DEF Approve
  <2> QED
    BY <2>1, <2>2
<1>4. CASE q.kind = "gift"
  <2>1. Handler(d, q) = CreateGift(d, q)
    BY <1>4 DEF Handler
  <2>2. CreateGift(d, q).save \/ CreateGift(d, q).doc = d
    BY <1>0, <1>4 DEF CreateGift
  <2> QED
    BY <2>1, <2>2
<1>5. CASE q.kind = "claimgift"
  <2>1. Handler(d, q) = ClaimGift(d, q)
    BY <1>5 DEF Handler
  <2>2. ClaimGift(d, q).save \/ ClaimGift(d, q).doc = d
    BY <1>0, <1>5 DEF ClaimGift
  <2> QED
    BY <2>1, <2>2
<1>6. CASE q.kind = "escrow"
  <2>1. Handler(d, q) = CreateEscrow(d, q)
    BY <1>6 DEF Handler
  <2>2. CreateEscrow(d, q).save \/ CreateEscrow(d, q).doc = d
    BY <1>0, <1>6 DEF CreateEscrow
  <2> QED
    BY <2>1, <2>2
<1>7. CASE q.kind = "status"
  <2>1. Handler(d, q) = EscrowStatus(d, q)
    BY <1>7 DEF Handler
  <2>2. EscrowStatus(d, q).save \/ EscrowStatus(d, q).doc = d
    BY <1>0, <1>7 DEF EscrowStatus
  <2> QED
    BY <2>1, <2>2
<1>8. CASE q.kind = "act"
  <2>1. Handler(d, q) = EscrowAction(d, q)
    BY <1>8 DEF Handler
  <2>2. EscrowAction(d, q).save \/ EscrowAction(d, q).doc = d
    BY <1>0, <1>8 DEF EscrowAction
  <2> QED
    BY <2>1, <2>2
<1>9. CASE q.kind = "bounty"
  <2>1. Handler(d, q) = CreateBounty(d, q)
    BY <1>9 DEF Handler
  <2>2. CreateBounty(d, q).save \/ CreateBounty(d, q).doc = d
    BY <1>0, <1>9 DEF CreateBounty
  <2> QED
    BY <2>1, <2>2
<1>10. CASE q.kind = "award"
  <2>1. Handler(d, q) = AwardBounty(d, q)
    BY <1>10 DEF Handler
  <2>2. AwardBounty(d, q).save \/ AwardBounty(d, q).doc = d
    BY <1>0, <1>10 DEF AwardBounty
  <2> QED
    BY <2>1, <2>2
<1>11. CASE q.kind = "review"
  <2>1. Handler(d, q) = ReviewPlan(d, q)
    BY <1>11 DEF Handler
  <2>2. ReviewPlan(d, q).save \/ ReviewPlan(d, q).doc = d
    BY <1>0, <1>11 DEF ReviewPlan
  <2> QED
    BY <2>1, <2>2
<1> QED
  BY <1>1, <1>2, <1>3, <1>4, <1>5, <1>6, <1>7, <1>8, <1>9, <1>10, <1>11 DEF Kinds

LEMMA HandlerSound ==
  ASSUME StoreAssumption, clock \in Nat, NEW d, NEW g, NEW n \in Nat, Sound(d, g, n),
         NEW q, Fits(q, n), FreeIn(d, q.n),
         q.kind = "bounty" => g.overlapped \/ d.bounties[q.id].status = "none",
         q.kind = "award" /\ AwardBounty(d, q).ok => d.bounties[q.id].escrow \in g.awards \union {None}
  PROVE  LET r == Handler(d, q)
         IN  Sound(r.doc, g, n) /\ Moves(d, r, q) /\ (r.save \/ r.doc = d)
<1>1. /\ q.kind \in {"deposit", "withdraw", "approve", "gift", "claimgift", "escrow", "status", "act", "bounty",
                       "award", "review"}
      /\ q.kind = "status" => q.id \in EscrowIds
  BY DEF Fits, Requests, WellFormed, Kinds
<1> DEFINE r == Handler(d, q)
<1>2. r.save \/ r.doc = d
  <2>1. q.kind \in Kinds /\ (q.kind = "act" => q.action \in {"released", "refunded", "dispute", "cancel"})
    BY DEF Fits, Requests, WellFormed
  <2> QED
    BY <2>1, HandlerSaves
<1>3. Sound(r.doc, g, n) /\ Moves(d, r, q)
  <2>1. CASE q.kind = "deposit"
    <3>1. r = Deposit(d, q)
      BY <2>1 DEF Handler
    <3> QED
      BY <2>1, <3>1, DepositSound
  <2>2. CASE q.kind = "withdraw"
    <3>1. r = RequestWithdrawal(d, q)
      BY <2>2 DEF Handler
    <3> QED
      BY <2>2, <3>1, WithdrawSound
  <2>3. CASE q.kind = "approve"
    <3>1. r = Approve(d, q)
      BY <2>3 DEF Handler
    <3> QED
      BY <2>3, <3>1, ApproveSound
  <2>4. CASE q.kind = "gift"
    <3>1. r = CreateGift(d, q)
      BY <2>4 DEF Handler
    <3> QED
      BY <2>4, <3>1, CreateGiftSound
  <2>5. CASE q.kind = "claimgift"
    <3>1. r = ClaimGift(d, q)
      BY <2>5 DEF Handler
    <3> QED
      BY <2>5, <3>1, ClaimGiftSound
  <2>6. CASE q.kind = "escrow"
    <3>1. r = CreateEscrow(d, q)
      BY <2>6 DEF Handler
    <3> QED
      BY <2>6, <3>1, CreateEscrowSound
  <2>7. CASE q.kind = "status"
    <3>1. r = EscrowStatus(d, q)
      BY <2>7 DEF Handler
    <3> QED
      BY <1>1, <2>7, <3>1, StatusSound
  <2>8. CASE q.kind = "act"
    <3>1. r = EscrowAction(d, q)
      BY <2>8 DEF Handler
    <3> QED
      BY <2>8, <3>1, ActSound
  <2>9. CASE q.kind = "bounty"
    <3>1. r = CreateBounty(d, q)
      BY <2>9 DEF Handler
    <3> QED
      BY <2>9, <3>1, CreateBountySound
  <2>10. CASE q.kind = "award"
    <3>1. r = AwardBounty(d, q)
      BY <2>10 DEF Handler
    <3> QED
      BY <2>10, <3>1, AwardSound
  <2>11. CASE q.kind = "review"
    <3>1. r = ReviewPlan(d, q)
      BY <2>11 DEF Handler
    <3> QED
      BY <2>11, <3>1, ReviewSound
  <2> QED
    BY <1>1, <2>1, <2>2, <2>3, <2>4, <2>5, <2>6, <2>7, <2>8, <2>9, <2>10, <2>11
<1> QED
  BY <1>2, <1>3

(* A request's own number is the only new one in what its handler writes. *)
SameNumbers(d, e) == \A m : FreeIn(d, m) => FreeIn(e, m)
OwnNumber(d, e, q) == \A m : FreeIn(d, m) /\ m # q.n => FreeIn(e, m)

LEMMA ReplacedNew ==
  ASSUME NEW S, NEW r \in S, NEW s, s.n = r.n, NEW m, New(S, m)
  PROVE  New((S \ {r}) \union {s}, m)
BY DEF New

LEMMA ApproveNumbers ==
  ASSUME NEW d \in Documents, NEW q
  PROVE  SameNumbers(d, Approve(d, q).doc)
<1> DEFINE due == {w \in d.withdrawals : w.n = q.w /\ w.status \in {"requested", "approved"}}
           w == CHOOSE x \in due : TRUE
           v == [w EXCEPT !.status = "approved"]
           s == [w EXCEPT !.status = "released"]
           e == Approve(d, q).doc
<1>1. CASE due = {}
  <2>1. e = d
    BY <1>1 DEF Approve, Fail
  <2> QED
    BY <2>1 DEF SameNumbers
<1>2. CASE due # {}
  <2>1. w \in due
    <3> HIDE DEF due
    <3> QED
      BY <1>2
  <2>2. w \in d.withdrawals /\ w \in WithdrawalRecords
    BY <2>1 DEF Documents
  <2>3. v.n = w.n /\ s.n = w.n
    <3> HIDE DEF w
    <3> QED
      BY <2>2 DEF WithdrawalRecords
  <2>4. /\ e.deposits = d.deposits /\ e.gifts = d.gifts
        /\ \/ e.withdrawals = d.withdrawals
           \/ e.withdrawals = (d.withdrawals \ {w}) \union {v}
           \/ e.withdrawals = (d.withdrawals \ {w}) \union {s}
    <3> DEFINE A == d.approvals \union {[n |-> q.n, w |-> q.w, approver |-> q.actor]}
               a == [d EXCEPT !.approvals = A]
               f == [a EXCEPT !.withdrawals = (@ \ {w}) \union {v}]
               g == Released(a, w)
    <3>1. e = d \/ e = f \/ e = g
      BY <1>2 DEF Approve, Fail, Done
    <3>2. /\ f.deposits = d.deposits /\ f.gifts = d.gifts /\ f.withdrawals = (d.withdrawals \ {w}) \union {v}
          /\ g.deposits = d.deposits /\ g.gifts = d.gifts /\ g.withdrawals = (d.withdrawals \ {w}) \union {s}
      <4> HIDE DEF w, v, A
      <4> QED
        BY DEF Documents, Released, s
    <3> HIDE DEF e, f, g, w, v, s
    <3> QED
      BY <3>1, <3>2
  <2> HIDE DEF w, v, s, e
  <2>5. \A m : New(d.withdrawals, m) => New(e.withdrawals, m)
    BY <2>2, <2>3, <2>4, ReplacedNew
  <2>6. SameNumbers(d, e)
    BY <2>4, <2>5 DEF SameNumbers, FreeIn
  <2> QED
    BY <2>6 DEF e
<1> QED
  BY <1>1, <1>2

LEMMA ClaimNumbers ==
  ASSUME NEW d, NEW g, NEW n, Sound(d, g, n), NEW q
  PROVE  SameNumbers(d, ClaimGift(d, q).doc)
<1> DEFINE same == {x \in d.gifts : x.code = q.id}
           a == CHOOSE x \in same : \A y \in same : x.n <= y.n
           With(status, plan) == [d EXCEPT !.gifts = (d.gifts \ {a}) \union {[a EXCEPT !.status = status, !.plan = plan]}]
           r == ClaimGift(d, q)
<1>1. d.gifts \subseteq GiftRecords /\ d \in Documents
  BY DEF Sound, Documents
<1>2. r = IF same = {} \/ a.status # "unclaimed" \/ a.tx = None THEN Fail(d)
          ELSE IF clock > a.until THEN FailSaving(With("expired", "none"))
          ELSE Pay(With("claimed", "pending"), a.tx)
  BY <1>1 DEF ClaimGift, Documents
<1>3. r.doc = d \/ (same # {} /\ (r.doc = With("expired", "none") \/ r.doc = With("claimed", "pending")))
  <2> HIDE DEF r, same, a, With
  <2> QED
    BY <1>2 DEF Fail, FailSaving, Pay, Done
<1>4. CASE r.doc = d
  BY <1>4 DEF SameNumbers
<1>5. CASE same # {} /\ (r.doc = With("expired", "none") \/ r.doc = With("claimed", "pending"))
  <2>1. \E x \in same : \A y \in same : x.n <= y.n
    <3> DEFINE N == {x.n : x \in same}
    <3>0. same # {} /\ \A x \in same : x.n \in Nat
      BY <1>1, <1>5 DEF GiftRecords
    <3>1. N # {} /\ N \subseteq Nat
      <4> HIDE DEF same, a, With, r
      <4> QED
        BY <3>0
    <3>2. PICK m \in N : \A k \in N : m <= k
      <4> HIDE DEF N
      <4> QED
        BY <3>1, LeastElement
    <3> QED
      BY <3>2
  <2>2. a \in same
    <3> HIDE DEF same
    <3> QED
      BY <2>1
  <2>3. a \in d.gifts /\ a \in GiftRecords
    BY <1>1, <2>2
  <2> DEFINE b == [a EXCEPT !.status = "claimed", !.plan = "pending"]
             c == [a EXCEPT !.status = "expired", !.plan = "none"]
  <2>4. b.n = a.n /\ c.n = a.n
    <3> HIDE DEF a
    <3> QED
      BY <2>3 DEF GiftRecords
  <2>5. /\ r.doc.deposits = d.deposits /\ r.doc.withdrawals = d.withdrawals
        /\ r.doc.gifts = (d.gifts \ {a}) \union {b} \/ r.doc.gifts = (d.gifts \ {a}) \union {c}
    <3> HIDE DEF a, r
    <3> QED
      BY <1>1, <1>5 DEF Documents
  <2> HIDE DEF a, b, c, r
  <2>6. SameNumbers(d, r.doc)
    BY <2>3, <2>4, <2>5, ReplacedNew DEF SameNumbers, FreeIn
  <2> QED
    BY <2>6 DEF r
<1> QED
  BY <1>3, <1>4, <1>5

LEMMA ReviewNumbers ==
  ASSUME NEW d \in Documents, NEW q
  PROVE  SameNumbers(d, ReviewPlan(d, q).doc)
<1> DEFINE planned == {x \in d.gifts : x.n = q.w /\ x.plan # "none"}
           a == CHOOSE x \in planned : TRUE
           b == [a EXCEPT !.plan = PlanAfter(q.action)]
           f == [d EXCEPT !.gifts = (d.gifts \ {a}) \union {b}]
           e == ReviewPlan(d, q).doc
<1>1. e = d \/ (planned # {} /\ e = f)
  BY DEF ReviewPlan, Fail, Done, Documents
<1>2. CASE planned # {} /\ e = f
  <2>1. a \in planned
    <3> HIDE DEF planned
    <3> QED
      BY <1>2
  <2>2. a \in d.gifts /\ a \in GiftRecords
    BY <2>1 DEF Documents
  <2>3. b.n = a.n
    <3> HIDE DEF a
    <3> QED
      BY <2>2 DEF GiftRecords
  <2>4. f.deposits = d.deposits /\ f.withdrawals = d.withdrawals /\ f.gifts = (d.gifts \ {a}) \union {b}
    <3> HIDE DEF a, b
    <3> QED
      BY DEF Documents
  <2> HIDE DEF a, b, f, e
  <2>5. \A m : New(d.gifts, m) => New(e.gifts, m)
    BY <1>2, <2>2, <2>3, <2>4, ReplacedNew
  <2>6. SameNumbers(d, e)
    BY <1>2, <2>4, <2>5 DEF SameNumbers, FreeIn
  <2> QED
    BY <2>6 DEF e
<1> QED
  BY <1>1, <1>2 DEF SameNumbers

LEMMA CanceledNumbers ==
  ASSUME NEW d \in Documents, NEW x
  PROVE  SameNumbers(d, Canceled(d, x))
BY DEF Documents, Canceled, SameNumbers, FreeIn

LEMMA EscrowNumbers ==
  ASSUME NEW d \in Documents, NEW q
  PROVE  /\ SameNumbers(d, CreateEscrow(d, q).doc) /\ SameNumbers(d, EscrowStatus(d, q).doc)
         /\ SameNumbers(d, CreateBounty(d, q).doc)
         /\ q.action \in {"released", "refunded", "dispute", "cancel"} => SameNumbers(d, EscrowAction(d, q).doc)
         /\ SameNumbers(d, AwardBounty(d, q).doc)
<1> DEFINE Rest(e) == e.deposits = d.deposits /\ e.withdrawals = d.withdrawals /\ e.gifts = d.gifts
<1>0. \A e : Rest(e) => SameNumbers(d, e)
  BY DEF SameNumbers, FreeIn
<1>1. Rest(CreateEscrow(d, q).doc)
  BY DEF CreateEscrow, Done, Documents
<1>2. Rest(EscrowStatus(d, q).doc)
  BY DEF EscrowStatus, Canceled, Done, Fail, Documents
<1>3. Rest(CreateBounty(d, q).doc)
  BY DEF CreateBounty, Done, Documents
<1>4. ASSUME q.action \in {"released", "refunded", "dispute", "cancel"}
      PROVE  Rest(EscrowAction(d, q).doc)
  BY <1>4 DEF EscrowAction, Done, Fail, Pay, Documents
<1>5. Rest(AwardBounty(d, q).doc)
  BY DEF AwardBounty, Done, Fail, Pay, Documents
<1> HIDE DEF Rest
<1> QED
  BY <1>0, <1>1, <1>2, <1>3, <1>4, <1>5

LEMMA CreatedNumbers ==
  ASSUME NEW d \in Documents, NEW q
  PROVE  /\ OwnNumber(d, Deposit(d, q).doc, q) /\ OwnNumber(d, RequestWithdrawal(d, q).doc, q)
         /\ OwnNumber(d, CreateGift(d, q).doc, q)
<1>0. ASSUME NEW S, NEW T, NEW r, T = S \union {r}, r.n = q.n, NEW m, New(S, m), m # q.n
      PROVE  New(T, m)
  BY <1>0 DEF New
<1>1. OwnNumber(d, Deposit(d, q).doc, q)
  <2> DEFINE r == [n |-> q.n, customer |-> q.id, amount |-> q.amount, tx |-> q.tx]
             e == Deposit(d, q).doc
  <2>1. r.n = q.n
    OBVIOUS
  <2>2. e.deposits = d.deposits \union {r} /\ e.withdrawals = d.withdrawals /\ e.gifts = d.gifts
    BY DEF Deposit, Done, Documents
  <2> HIDE DEF r, e
  <2>3. OwnNumber(d, e, q)
    BY <1>0, <2>1, <2>2 DEF OwnNumber, FreeIn
  <2> QED
    BY <2>3 DEF e
<1>2. OwnNumber(d, RequestWithdrawal(d, q).doc, q)
  BY DEF RequestWithdrawal, Done, Fail, Documents, OwnNumber, FreeIn, New
<1>3. OwnNumber(d, CreateGift(d, q).doc, q)
  <2> DEFINE r == [n |-> q.n, code |-> q.id, tx |-> q.tx, status |-> "unclaimed", until |-> clock + Expiry,
                   plan |-> "none"]
             e == CreateGift(d, q).doc
  <2>1. r.n = q.n
    OBVIOUS
  <2>2. e.gifts = d.gifts \union {r} /\ e.withdrawals = d.withdrawals /\ e.deposits = d.deposits
    BY DEF CreateGift, Done, Documents
  <2> HIDE DEF r, e
  <2>3. OwnNumber(d, e, q)
    BY <1>0, <2>1, <2>2 DEF OwnNumber, FreeIn
  <2> QED
    BY <2>3 DEF e
<1> QED
  BY <1>1, <1>2, <1>3

LEMMA HandlerNumbers ==
  ASSUME NEW d, NEW g, NEW n, Sound(d, g, n), NEW q, Fits(q, n)
  PROVE  OwnNumber(d, Handler(d, q).doc, q)
<1>1. /\ q.kind \in {"deposit", "withdraw", "approve", "gift", "claimgift", "escrow", "status", "act", "bounty",
                       "award", "review"}
      /\ q.kind = "act" => q.action \in {"released", "refunded", "dispute", "cancel"}
      /\ d \in Documents
  BY DEF Fits, Requests, WellFormed, Kinds, Sound
<1> DEFINE e == Handler(d, q).doc
<1>2. SameNumbers(d, e) => OwnNumber(d, e, q)
  BY DEF SameNumbers, OwnNumber
<1>3. CASE q.kind \in {"deposit", "withdraw", "gift"}
  <2>1. \/ Handler(d, q) = Deposit(d, q) \/ Handler(d, q) = RequestWithdrawal(d, q)
        \/ Handler(d, q) = CreateGift(d, q)
    BY <1>3 DEF Handler
  <2> QED
    BY <1>1, <2>1, CreatedNumbers
<1>4. CASE q.kind = "approve"
  BY <1>1, <1>2, <1>4, ApproveNumbers DEF Handler
<1>5. CASE q.kind = "claimgift"
  BY <1>1, <1>2, <1>5, ClaimNumbers DEF Handler
<1>6. CASE q.kind = "review"
  <2>1. Handler(d, q) = ReviewPlan(d, q)
    BY <1>6 DEF Handler
  <2> QED
    BY <1>1, <1>2, <2>1, ReviewNumbers
<1>7. CASE q.kind \in {"escrow", "status", "act", "bounty", "award"}
  <2>1. \/ Handler(d, q) = CreateEscrow(d, q) \/ Handler(d, q) = EscrowStatus(d, q)
        \/ Handler(d, q) = CreateBounty(d, q) \/ Handler(d, q) = AwardBounty(d, q)
        \/ q.kind = "act" /\ Handler(d, q) = EscrowAction(d, q)
    BY <1>7 DEF Handler
  <2> QED
    BY <1>1, <1>2, <2>1, EscrowNumbers
<1> QED
  BY <1>1, <1>3, <1>4, <1>5, <1>6, <1>7

LEMMA Places ==
  /\ Len(Pipeline) = 8
  /\ Pipeline[1] = "nonce" /\ Pipeline[2] = "claim" /\ Pipeline[3] = "exists" /\ Pipeline[4] = "check"
  /\ Pipeline[5] = "handle" /\ Pipeline[6] = "note" /\ Pipeline[7] = "remember" /\ Pipeline[8] = "audit"
  /\ DOMAIN Pipeline = 1..8
BY DEF Pipeline

\* What the segment at a place may do to the copy.
Effect(i, d, r, q) ==
  /\ r.save \/ r.doc = d
  /\ i # 5 => r.paid = None /\ SameNumbers(d, r.doc)
  /\ i \in {1, 3, 6, 8} => Still(d, r.doc)
  /\ i = 2 => Claims(d, r, q)
  /\ i = 3 /\ r.ok => r.doc = d /\ d.bounties[q.id].status = "none"
  /\ i = 4 => Moves(d, r, q) /\ (r.ok => r.doc = d)
  /\ i = 5 => Moves(d, r, q) /\ OwnNumber(d, r.doc, q)
  /\ i = 7 => Remembers(d, r.doc, q)
  /\ i > 5 => r.ok

\* A request may run its segment on a document.
Ready(i, d, q, g) ==
  /\ i = 5 => /\ FreeIn(d, q.n)
              /\ q.kind = "bounty" => g.overlapped \/ d.bounties[q.id].status = "none"
              /\ q.kind = "award" /\ AwardBounty(d, q).ok => d.bounties[q.id].escrow \in g.awards \union {None}
  /\ i = 7 => g.handled[q.key] > 0

LEMMA StillNumbers ==
  ASSUME NEW d, NEW e, e.deposits = d.deposits, e.gifts = d.gifts, e.withdrawals = d.withdrawals
  PROVE  SameNumbers(d, e)
BY DEF SameNumbers, FreeIn

LEMMA SegmentSound ==
  ASSUME StoreAssumption, clock \in Nat, NEW d, NEW g, NEW n \in Nat, Sound(d, g, n),
         NEW q, Fits(q, n), NEW i \in 1..8, Runs(q, Pipeline[i]), Ready(i, d, q, g)
  PROVE  LET r == Segment(Pipeline[i], d, q)
         IN  Sound(r.doc, g, n) /\ Effect(i, d, r, q)
<1> DEFINE r == Segment(Pipeline[i], d, q)
<1>0. d \in Documents
  BY DEF Sound
<1>1. CASE i = 1
  <2>1. r = Nonce(d, q)
    BY <1>1, Places DEF Segment
  <2>2. Sound(r.doc, g, n) /\ Still(d, r.doc) /\ r.paid = None /\ (r.save \/ r.doc = d)
    BY <2>1, NonceSound
  <2>3. r.doc.withdrawals = d.withdrawals
    BY <1>0, <2>1 DEF Nonce, Fail, Done, Documents
  <2> HIDE DEF r
  <2>4. SameNumbers(d, r.doc)
    BY <2>2, <2>3, StillNumbers DEF Still
  <2>5. Effect(i, d, r, q)
    BY <1>1, <2>2, <2>4 DEF Effect
  <2> QED
    BY <2>2, <2>5 DEF r
<1>2. CASE i = 2
  <2>1. r = Claim(d, q)
    BY <1>2, Places DEF Segment
  <2>0. Funds(q)
    BY <1>2, Places DEF Runs, Funds
  <2>2. Sound(r.doc, g, n) /\ Claims(d, r, q) /\ r.paid = None /\ (r.save \/ r.doc = d)
    BY <2>0, <2>1, ClaimSound
  <2>3. r.doc.withdrawals = d.withdrawals
    BY <1>0, <2>1 DEF Claim, Fail, Done, Documents
  <2> HIDE DEF r
  <2>4. SameNumbers(d, r.doc)
    BY <2>2, <2>3, StillNumbers DEF Claims
  <2>5. Effect(i, d, r, q)
    BY <1>2, <2>2, <2>4 DEF Effect
  <2> QED
    BY <2>2, <2>5 DEF r
<1>3. CASE i = 3
  <2>1. r = BountyExists(d, q)
    BY <1>3, Places DEF Segment
  <2>2. /\ r.doc = d /\ r.paid = None
        /\ r.ok => d.bounties[q.id].status = "none"
    BY <2>1 DEF BountyExists, Fail, Pass, Done
  <2> HIDE DEF r
  <2>3. Effect(i, d, r, q)
    BY <1>3, <2>2 DEF Effect, SameNumbers, Still
  <2> QED
    BY <2>2, <2>3 DEF r
<1>4. CASE i = 4
  <2>1. r = CheckBounty(d, q)
    BY <1>4, Places DEF Segment
  <2>2. q.kind = "bounty" /\ q.escrow \in EscrowIds
    BY <1>4, Places DEF Runs, Fits, Requests
  <2>7. Sound(r.doc, g, n) /\ Moves(d, r, q)
    BY <2>1, <2>2, CheckSound
  <2>8. r.ok => r.doc = d
    BY <2>1 DEF CheckBounty, FailSaving, Fail, Pass, Done
  <2>3. Sound(r.doc, g, n) /\ Moves(d, r, q) /\ (r.ok => r.doc = d)
    BY <2>7, <2>8
  <2>4. r.paid = None /\ (r.save \/ r.doc = d) /\ (r.doc = d \/ r.doc = Canceled(d, q.escrow))
    BY <2>1 DEF CheckBounty, FailSaving, Fail, Pass, Done
  <2> HIDE DEF r
  <2>5. SameNumbers(d, r.doc)
    BY <1>0, <2>4, CanceledNumbers DEF SameNumbers
  <2>6. Effect(i, d, r, q)
    BY <1>4, <2>3, <2>4, <2>5 DEF Effect
  <2> QED
    BY <2>3, <2>6 DEF r
<1>5. CASE i = 5
  <2>1. r = Handler(d, q)
    BY <1>5, Places DEF Segment
  <2>2. Sound(r.doc, g, n) /\ Moves(d, r, q) /\ (r.save \/ r.doc = d)
    BY <1>5, <2>1, HandlerSound DEF Ready
  <2>3. OwnNumber(d, r.doc, q)
    BY <2>1, HandlerNumbers
  <2> HIDE DEF r
  <2>6. Effect(i, d, r, q)
    BY <1>5, <2>2, <2>3 DEF Effect
  <2> QED
    BY <2>2, <2>6 DEF r
<1>6. CASE i = 6
  <2>1. r = Done(d)
    BY <1>6, Places DEF Segment
  <2>2. r.doc = d /\ r.paid = None /\ r.ok
    BY <2>1 DEF Done
  <2> HIDE DEF r
  <2>3. Effect(i, d, r, q)
    BY <1>6, <2>2 DEF Effect, SameNumbers, Still
  <2> QED
    BY <2>2, <2>3 DEF r
<1>7. CASE i = 7
  <2>1. r = Remember(d, q)
    BY <1>7, Places DEF Segment
  <2>0. q.key \in Keys /\ g.handled[q.key] > 0
    BY <1>7, Places DEF Runs, Fits, Requests, Ready
  <2>2. Sound(r.doc, g, n) /\ Remembers(d, r.doc, q) /\ r.paid = None /\ r.save /\ r.ok
    BY <2>0, <2>1, RememberSound
  <2>3. r.doc.withdrawals = d.withdrawals
    <3> DEFINE I == [d.idem EXCEPT ![q.key] = {Body(q)}]
               e == [d EXCEPT !.idem = I]
    <3>1. r = Done(e)
      BY <1>0, <2>1 DEF Remember, Documents
    <3> HIDE DEF I
    <3>2. e.withdrawals = d.withdrawals
      BY <1>0 DEF Documents
    <3> HIDE DEF e, r
    <3>3. r.doc = e
      BY <3>1 DEF Done
    <3> QED
      BY <3>2, <3>3
  <2> HIDE DEF r
  <2>4. SameNumbers(d, r.doc)
    BY <2>2, <2>3, StillNumbers DEF Remembers
  <2>5. Effect(i, d, r, q)
    BY <1>7, <2>2, <2>4 DEF Effect
  <2> QED
    BY <2>2, <2>5 DEF r
<1>8. CASE i = 8
  <2>1. r = Audit(d, q)
    BY <1>8, Places DEF Segment
  <2>2. Sound(r.doc, g, n) /\ Still(d, r.doc) /\ r.paid = None /\ r.save /\ r.ok
    BY <2>1, AuditSound
  <2>3. r.doc.withdrawals = d.withdrawals
    <3> DEFINE L == Audited(d.audit, q.n)
               e == [d EXCEPT !.audit = L]
    <3>1. r = Done(e)
      BY <1>0, <2>1 DEF Audit, Documents
    <3> HIDE DEF L
    <3>2. e.withdrawals = d.withdrawals
      BY <1>0 DEF Documents
    <3> HIDE DEF e, r
    <3>3. r.doc = e
      BY <3>1 DEF Done
    <3> QED
      BY <3>2, <3>3
  <2> HIDE DEF r
  <2>4. SameNumbers(d, r.doc)
    BY <2>2, <2>3, StillNumbers DEF Still
  <2>5. Effect(i, d, r, q)
    BY <1>8, <2>2, <2>4 DEF Effect
  <2> QED
    BY <2>2, <2>5 DEF r
<1> QED
  BY <1>1, <1>2, <1>3, <1>4, <1>5, <1>6, <1>7, <1>8

LEMMA SoundGrows ==
  ASSUME NEW d, NEW g \in Ghosts, NEW h \in Ghosts, NEW m \in Nat, NEW n \in Nat, Sound(d, g, m), m <= n,
         g.awards \subseteq h.awards, g.overlapped => h.overlapped,
         \A k \in Keys : g.handled[k] > 0 => h.handled[k] > 0
  PROVE  Sound(d, h, n)
<1>1. \A S : Numbered(S, m) => Numbered(S, n)
  BY DEF Numbered
<1>2. EscrowsFine(d.escrows, d.bounties, h)
  BY DEF Sound, EscrowsFine, Ghosts
<1> QED
  BY <1>1, <1>2 DEF Sound, MoneyFine, GiftsFine, Recorded

(* ------------------- threads and the document together ------------------- *)
Loaded(t) == Active(t) /\ thread[t].copy # None

Typed ==
  /\ sent \in Nat /\ clock \in 0..MaxTime /\ menu \in Menus /\ ghost \in Ghosts
  /\ thread \in [Threads -> [at : 0..8, q : Requests \union {None}, copy : Documents \union {None}]]

DocsSound ==
  /\ Sound(doc, ghost, sent)
  /\ \A t \in Threads : Loaded(t) => Sound(thread[t].copy, ghost, sent)

ThreadsFit ==
  /\ \A t \in Threads : Active(t) =>
       /\ Fits(thread[t].q, sent)
       /\ thread[t].at \in 1..8 /\ Runs(thread[t].q, Pipeline[thread[t].at])
       /\ thread[t].at > 5 /\ thread[t].q.key # None => ghost.handled[thread[t].q.key] > 0
  /\ \A t, u \in Threads : Active(t) /\ Active(u) /\ t # u => thread[t].q.n # thread[u].q.n

\* The number of a request whose handler has not run is in no document.
NumbersFree ==
  \A t \in Threads : Active(t) /\ thread[t].at <= 5 =>
    /\ FreeIn(doc, thread[t].q.n)
    /\ \A u \in Threads : Loaded(u) => FreeIn(thread[u].copy, thread[t].q.n)

Alone ==
  \/ ghost.overlapped
  \/ /\ \A t, u \in Threads : Active(t) /\ Active(u) => t = u
     /\ \A t \in Threads : Loaded(t) => thread[t].copy = doc
     /\ \A t \in Threads : Active(t) /\ thread[t].q.kind = "bounty" /\ thread[t].at \in {4, 5} =>
          doc.bounties[thread[t].q.id].status = "none"

StoreInv == Typed /\ DocsSound /\ ThreadsFit /\ NumbersFree /\ Alone

\* The place a request goes to after place i.
Goes(t, q, i) ==
  \E j \in 1..8 :
    /\ j > i /\ Runs(q, Pipeline[j])
    /\ i < 5 => j <= 5
    /\ i < 2 /\ Funds(q) => j <= 2
    /\ i < 3 /\ q.kind = "bounty" => j <= 3
    /\ i < 7 /\ q.key # None => j <= 7
    /\ thread' = [thread EXCEPT ![t] = [at |-> j, q |-> q, copy |-> None]]

LEMMA Going ==
  ASSUME NEW t, NEW q, NEW i \in 0..7, Proceeds(t, q, i)
  PROVE  Goes(t, q, i)
<1>1. PICK j \in Later(q, i) :
        /\ \A k \in Later(q, i) : j <= k
        /\ thread' = [thread EXCEPT ![t] = [at |-> j, q |-> q, copy |-> None]]
  BY DEF Proceeds
<1>2. \A k \in 1..8 : k > i /\ Runs(q, Pipeline[k]) => j <= k
  BY <1>1, Places DEF Later
<1>3. j \in 1..8 /\ j > i /\ Runs(q, Pipeline[j])
  BY <1>1, Places DEF Later
<1>4. /\ Runs(q, Pipeline[5]) /\ (Funds(q) => Runs(q, Pipeline[2]))
      /\ (q.kind = "bounty" => Runs(q, Pipeline[3])) /\ (q.key # None => Runs(q, Pipeline[7]))
  BY Places DEF Runs, Funds
<1>5. /\ i < 5 => j <= 5
      /\ i < 2 /\ Funds(q) => j <= 2
      /\ i < 3 /\ q.kind = "bounty" => j <= 3
      /\ i < 7 /\ q.key # None => j <= 7
  BY <1>2, <1>4
<1> QED
  BY <1>1, <1>3, <1>5 DEF Goes

LEMMA InitStore ==
  ASSUME StoreAssumption, Init
  PROVE  StoreInv
<1>1. EmptyDoc \in Documents
  <2>1. NoEscrow \in EscrowRecords /\ NoBounty \in BountyRecords
    BY DEF NoEscrow, NoBounty, EscrowRecords, BountyRecords
  <2> HIDE DEF NoEscrow, NoBounty
  <2>2. <<>> \in Seq(AuditRecords)
    OBVIOUS
  <2> QED
    BY <2>1, <2>2 DEF EmptyDoc, Documents
<1>2. ghost \in Ghosts
  BY DEF Init, Ghosts
<1>3. thread \in [Threads -> [at : 0..8, q : Requests \union {None}, copy : Documents \union {None}]]
      /\ \A t \in Threads : ~Active(t)
  BY DEF Init, Resting, Active
<1>4. MoneyFine({}, EmptyDoc.custody, EmptyDoc.balances, {}, {}, 0)
  <2>1. IsFiniteSet({}) /\ IsFiniteSet(Customers)
    BY FS_EmptySet DEF StoreAssumption
  <2>2. SumFunctionOnSet(EmptyDoc.balances, Customers) = 0
    BY <2>1, SumZero DEF EmptyDoc
  <2>3. InSum({}) = 0
    BY SumEmpty DEF InSum
  <2>4. {w \in {} : w.status = "released"} = {}
    OBVIOUS
  <2>5. EmptyDoc.custody["hot"] = 0 /\ EmptyDoc.custody["cold"] = 0
    BY DEF EmptyDoc, Tiers
  <2> QED
    BY <2>1, <2>2, <2>3, <2>4, <2>5 DEF MoneyFine, Numbered
<1>5. Sound(EmptyDoc, ghost, 0)
  <2>1. GiftsFine({}, 0) /\ Chained(<<>>)
    BY DEF GiftsFine, Numbered, Chained
  <2>2. EscrowsFine(EmptyDoc.escrows, EmptyDoc.bounties, ghost)
    BY DEF EscrowsFine, EmptyDoc, NoEscrow
  <2>3. Recorded(EmptyDoc.idem, ghost)
    BY DEF Recorded, EmptyDoc
  <2> QED
    BY <1>1, <1>4, <2>1, <2>2, <2>3 DEF Sound, EmptyDoc
<1>6. Typed
  BY <1>2, <1>3 DEF Typed, Init, StoreAssumption
<1> QED
  BY <1>3, <1>5, <1>6 DEF StoreInv, DocsSound, Loaded, ThreadsFit, NumbersFree, Alone, Init

LEMMA LoadStore ==
  ASSUME StoreAssumption, StoreInv, NEW t \in Threads, Load(t)
  PROVE  StoreInv'
<1> DEFINE rec == [thread[t] EXCEPT !.copy = doc]
<1>1. /\ thread' = [thread EXCEPT ![t] = rec]
      /\ UNCHANGED <<clock, menu, sent, doc, ghost>>
  BY DEF Load
<1>2. doc \in Documents /\ thread[t] \in [at : 0..8, q : Requests \union {None}, copy : Documents \union {None}]
      /\ thread \in [Threads -> [at : 0..8, q : Requests \union {None}, copy : Documents \union {None}]]
  BY DEF StoreInv, Typed, DocsSound, Sound
<1>3. /\ rec \in [at : 0..8, q : Requests \union {None}, copy : Documents \union {None}]
      /\ rec.at = thread[t].at /\ rec.q = thread[t].q /\ rec.copy = doc
  BY <1>2
<1> HIDE DEF rec
<1>4. /\ thread'[t] = rec /\ \A u \in Threads : u # t => thread'[u] = thread[u]
      /\ \A u \in Threads : thread'[u].at = thread[u].at /\ thread'[u].q = thread[u].q
  BY <1>1, <1>2, <1>3
<1>5. /\ \A u \in Threads : Active(u)' <=> Active(u)
      /\ \A u \in Threads : Loaded(u)' => thread'[u].copy = doc \/ (Loaded(u) /\ thread'[u].copy = thread[u].copy)
  BY <1>3, <1>4 DEF Active, Loaded
<1>6. Typed'
  BY <1>1, <1>2, <1>3 DEF StoreInv, Typed
<1>7. DocsSound'
  BY <1>1, <1>5 DEF StoreInv, DocsSound
<1>8. ThreadsFit'
  BY <1>1, <1>4, <1>5 DEF StoreInv, ThreadsFit
<1>9. NumbersFree'
  BY <1>1, <1>4, <1>5 DEF StoreInv, NumbersFree
<1>10. Alone'
  BY <1>1, <1>4, <1>5 DEF StoreInv, Alone
<1> QED
  BY <1>6, <1>7, <1>8, <1>9, <1>10 DEF StoreInv

LEMMA TickStore ==
  ASSUME StoreAssumption, StoreInv, Tick
  PROVE  StoreInv'
<1>1. UNCHANGED <<menu, sent, doc, thread, ghost>> /\ clock' \in 0..MaxTime
  BY DEF Tick, StoreInv, Typed, StoreAssumption
<1> QED
  BY <1>1 DEF StoreInv, Typed, DocsSound, ThreadsFit, NumbersFree, Alone, Active, Loaded

LEMMA CrashStore ==
  ASSUME StoreAssumption, StoreInv, Crash
  PROVE  StoreInv'
<1>1. /\ \A t \in Threads : ~Active(t)'
      /\ thread' \in [Threads -> [at : 0..8, q : Requests \union {None}, copy : Documents \union {None}]]
  BY DEF Crash, Active, Resting
<1>2. /\ ghost' \in Ghosts /\ ghost'.awards = ghost.awards /\ ghost'.overlapped = ghost.overlapped
      /\ ghost'.handled = ghost.handled
  BY DEF Crash, StoreInv, Typed, Ghosts
<1>3. UNCHANGED <<clock, menu, sent, doc>>
  BY DEF Crash
<1>4. Sound(doc, ghost', sent)
  BY <1>2, SoundGrows DEF StoreInv, Typed, DocsSound
<1>5. Typed' /\ DocsSound'
  BY <1>1, <1>2, <1>3, <1>4 DEF StoreInv, Typed, DocsSound, Loaded
<1> QED
  BY <1>1, <1>2, <1>3, <1>5 DEF StoreInv, ThreadsFit, NumbersFree, Alone, Loaded

LEMMA StutterStore ==
  ASSUME StoreInv, UNCHANGED vars
  PROVE  StoreInv'
BY DEF vars, StoreInv, Typed, DocsSound, ThreadsFit, NumbersFree, Alone, Active, Loaded

LEMMA Sending ==
  ASSUME StoreAssumption, StoreInv, NEW t \in Threads, NEW r \in Offered, NEW w \in Named(r.kind)
  PROVE  Fits([r EXCEPT !.n = sent + 1, !.w = w], sent + 1)
<1> DEFINE q == [r EXCEPT !.n = sent + 1, !.w = w]
<1>1. menu \in Menus /\ sent \in Nat /\ doc \in Documents
  BY DEF StoreInv, Typed, DocsSound, Sound
<1>2. r \in Requests /\ WellFormed(r)
  <2>1. CASE InPast
    <3>1. r = menu.first[sent + 1] /\ menu.first \in Seq(Requests) /\ sent < Len(menu.first)
      BY <1>1, <2>1 DEF Offered, InPast, StoreAssumption
    <3>2. sent + 1 \in DOMAIN menu.first
      BY <1>1, <3>1
    <3> QED
      BY <1>1, <3>1, <3>2 DEF StoreAssumption
  <2>2. CASE ~InPast
    BY <1>1, <2>2 DEF Offered, StoreAssumption
  <2> QED
    BY <2>1, <2>2
<1>3. w \in Nat
  BY <1>1 DEF Named, Documents, WithdrawalRecords, GiftRecords
<1>4. q \in Requests
  <2> DEFINE m == sent + 1
             p == [r EXCEPT !.n = m]
  <2>1. m \in Nat
    BY <1>1
  <2> HIDE DEF m
  <2>2. p \in Requests
    BY <1>2, <2>1 DEF Requests
  <2>3. q = [p EXCEPT !.w = w]
    BY <1>2 DEF m, Requests
  <2> HIDE DEF p, q
  <2> QED
    BY <1>3, <2>2, <2>3 DEF Requests
<1>5. q.kind = r.kind /\ q.id = r.id /\ q.tx = r.tx /\ q.action = r.action /\ q.n = sent + 1
  BY <1>1, <1>2, <1>3 DEF Requests
<1> HIDE DEF q
<1>6. Fits(q, sent + 1)
  BY <1>1, <1>2, <1>4, <1>5 DEF Fits, WellFormed
<1> QED
  BY <1>6 DEF q

LEMMA SendStore ==
  ASSUME StoreAssumption, StoreInv, NEW t \in Threads, NEW r \in Offered, NEW w \in Named(r.kind), Send(t, r, w)
  PROVE  StoreInv'
<1> DEFINE q == [r EXCEPT !.n = sent + 1, !.w = w]
<1>1. Fits(q, sent + 1)
  BY Sending
<1>2. q.n = sent + 1 /\ q \in Requests
  BY <1>1, Sending DEF Fits, Requests
<1>3. /\ ~Active(t) /\ sent' = sent + 1
      /\ Goes(t, q, 0) \/ thread' = thread
      /\ ghost' = [ghost EXCEPT !.overlapped = @ \/ \E u \in Threads : Active(u),
                                !.recreated = @ \/ (r.kind = "escrow" /\ doc.escrows[r.id].status # "none")]
      /\ UNCHANGED <<clock, menu, doc>>
  BY Going DEF Send
<1> HIDE DEF q
<1>4. /\ ghost' \in Ghosts /\ ghost'.awards = ghost.awards /\ ghost'.handled = ghost.handled
      /\ ghost'.overlapped = (ghost.overlapped \/ \E u \in Threads : Active(u))
  BY <1>3 DEF StoreInv, Typed, Ghosts
<1>5. sent \in Nat /\ sent' \in Nat /\ sent <= sent'
  BY <1>3 DEF StoreInv, Typed
<1>6. Sound(doc, ghost', sent') /\ \A u \in Threads : Loaded(u) => Sound(thread[u].copy, ghost', sent')
  <2>1. \A d : Sound(d, ghost, sent) => Sound(d, ghost', sent')
    BY <1>4, <1>5, SoundGrows DEF StoreInv, Typed
  <2> QED
    BY <2>1 DEF StoreInv, DocsSound
<1>7. \A d : Sound(d, ghost, sent) => FreeIn(d, sent + 1)
  BY <1>5 DEF Sound, MoneyFine, GiftsFine, Numbered, FreeIn, New
<1>8. /\ thread' \in [Threads -> [at : 0..8, q : Requests \union {None}, copy : Documents \union {None}]]
      /\ \A u \in Threads : u # t => thread'[u] = thread[u]
      /\ \/ thread'[t] = thread[t]
         \/ /\ thread'[t].q = q /\ thread'[t].copy = None /\ thread'[t].at \in 1..3
            /\ Runs(q, Pipeline[thread'[t].at])
         \/ /\ thread'[t].q = q /\ thread'[t].copy = None /\ thread'[t].at \in 1..5
            /\ q.kind # "bounty" /\ Runs(q, Pipeline[thread'[t].at])
  <2>1. CASE thread' = thread
    BY <2>1 DEF StoreInv, Typed
  <2>2. CASE Goes(t, q, 0)
    <3>1. PICK j \in 1..8 : j <= 5 /\ (q.kind = "bounty" => j <= 3) /\ Runs(q, Pipeline[j])
                            /\ thread' = [thread EXCEPT ![t] = [at |-> j, q |-> q, copy |-> None]]
      <4>1. PICK j \in 1..8 :
              /\ j > 0 /\ Runs(q, Pipeline[j])
              /\ 0 < 5 => j <= 5
              /\ 0 < 2 /\ Funds(q) => j <= 2
              /\ 0 < 3 /\ q.kind = "bounty" => j <= 3
              /\ 0 < 7 /\ q.key # None => j <= 7
              /\ thread' = [thread EXCEPT ![t] = [at |-> j, q |-> q, copy |-> None]]
        BY <2>2 DEF Goes
      <4>2. j <= 5 /\ (q.kind = "bounty" => j <= 3)
        BY <4>1
      <4>3. thread' = [thread EXCEPT ![t] = [at |-> j, q |-> q, copy |-> None]]
        BY <4>1
      <4> QED
        BY <4>1, <4>2, <4>3, Zenon
    <3> QED
      BY <1>2, <3>1 DEF StoreInv, Typed
  <2> QED
    BY <1>3, <2>1, <2>2
<1>9. /\ \A u \in Threads : u # t => (Active(u)' <=> Active(u)) /\ (Loaded(u)' <=> Loaded(u))
      /\ ~Loaded(t)'
      /\ Active(t)' => thread'[t].q = q
  BY <1>3, <1>8 DEF Active, Loaded
<1>10. Typed'
  BY <1>3, <1>4, <1>5, <1>8 DEF StoreInv, Typed
<1>11. DocsSound'
  BY <1>3, <1>6, <1>8, <1>9 DEF DocsSound
<1>12. ThreadsFit'
  <2>1. \A x : Fits(x, sent) => Fits(x, sent') /\ x.n # sent + 1
    BY <1>5 DEF Fits
  <2>2. ASSUME NEW u \in Threads, Active(u)'
        PROVE  /\ Fits(thread'[u].q, sent')
               /\ thread'[u].at \in 1..8 /\ Runs(thread'[u].q, Pipeline[thread'[u].at])
               /\ thread'[u].at > 5 /\ thread'[u].q.key # None => ghost'.handled[thread'[u].q.key] > 0
    <3>1. CASE u = t
      <4>1. thread'[t] # thread[t]
        BY <1>3, <2>2, <3>1 DEF Active
      <4> QED
        BY <1>1, <1>3, <1>8, <3>1, <4>1
    <3>2. CASE u # t
      BY <1>4, <1>8, <1>9, <2>1, <2>2, <3>2 DEF StoreInv, ThreadsFit
    <3> QED
      BY <3>1, <3>2
  <2>3. ASSUME NEW u \in Threads, NEW v \in Threads, Active(u)', Active(v)', u # v
        PROVE  thread'[u].q.n # thread'[v].q.n
    BY <1>2, <1>8, <1>9, <2>1, <2>3 DEF StoreInv, ThreadsFit
  <2> QED
    BY <2>2, <2>3 DEF ThreadsFit
<1>13. NumbersFree'
  <2>1. ASSUME NEW u \in Threads, Active(u)', thread'[u].at <= 5
        PROVE  FreeIn(doc, thread'[u].q.n) /\ \A v \in Threads : Loaded(v) => FreeIn(thread[v].copy, thread'[u].q.n)
    <3>1. CASE u = t
      BY <1>2, <1>7, <1>9, <2>1, <3>1 DEF StoreInv, DocsSound
    <3>2. CASE u # t
      BY <1>8, <1>9, <2>1, <3>2 DEF StoreInv, NumbersFree
    <3> QED
      BY <3>1, <3>2
  <2>2. \A v \in Threads : Loaded(v)' => Loaded(v) /\ thread'[v].copy = thread[v].copy
    BY <1>8, <1>9
  <2> QED
    BY <1>3, <2>1, <2>2 DEF NumbersFree
<1>14. Alone'
  <2>1. SUFFICES ASSUME ~ghost'.overlapped
        PROVE  /\ \A u, v \in Threads : Active(u)' /\ Active(v)' => u = v
               /\ \A u \in Threads : Loaded(u)' => thread'[u].copy = doc
               /\ \A u \in Threads : Active(u)' /\ thread'[u].q.kind = "bounty" /\ thread'[u].at \in {4, 5} =>
                    doc.bounties[thread'[u].q.id].status = "none"
    BY <1>3 DEF Alone
  <2>2. \A u \in Threads : ~Active(u)
    BY <1>4, <2>1
  <2>3. \A u \in Threads : Active(u)' => u = t
    BY <1>9, <2>2
  <2>4. Active(t)' => ~(thread'[t].q.kind = "bounty" /\ thread'[t].at \in {4, 5})
    <3>1. Active(t)' => thread'[t] # thread[t]
      BY <2>2 DEF Active
    <3> QED
      BY <1>8, <3>1
  <2>5. \A u \in Threads : ~Loaded(u)'
    BY <1>9, <2>2 DEF Loaded
  <2>6. \A u, v \in Threads : Active(u)' /\ Active(v)' => u = v
    BY <2>3
  <2>7. \A u \in Threads : ~(Active(u)' /\ thread'[u].q.kind = "bounty" /\ thread'[u].at \in {4, 5})
    BY <2>3, <2>4
  <2> QED
    BY <2>5, <2>6, <2>7
<1> QED
  BY <1>10, <1>11, <1>12, <1>13, <1>14 DEF StoreInv

\* What a save does, r being the outcome of the segment on the copy c.
Saved(t, q, i, c, r) ==
  /\ Active(t) /\ Loaded(t) /\ thread[t].q = q /\ thread[t].at = i /\ thread[t].copy = c
  /\ Fits(q, sent) /\ i \in 1..8 /\ Runs(q, Pipeline[i])
  /\ Sound(c, ghost', sent) /\ Sound(r.doc, ghost', sent) /\ Effect(i, c, r, q)
  /\ (r.save /\ doc' = r.doc) \/ (~r.save /\ doc' = doc)
  /\ UNCHANGED <<clock, menu, sent>>

Counts(q, i, r) ==
  /\ ghost' \in Ghosts
  /\ ghost'.overlapped = ghost.overlapped /\ ghost'.crashed = ghost.crashed /\ ghost'.recreated = ghost.recreated
  /\ \A k \in Keys : ghost'.handled[k] = IF r.ok /\ i = 5 /\ q.key = k THEN ghost.handled[k] + 1 ELSE ghost.handled[k]
  /\ \A x \in Txs : ghost'.paid[x] = IF r.paid = x THEN ghost.paid[x] + 1 ELSE ghost.paid[x]
  /\ ghost.awards \subseteq ghost'.awards

\* The thread rests, or the segment went well and it goes to its next place.
Advances(t, q, i, r) ==
  \/ thread' = [thread EXCEPT ![t] = Resting] /\ (~r.ok \/ Later(q, i) = {})
  \/ r.ok /\ Goes(t, q, i)

LEMMA GhostCounts ==
  ASSUME StoreInv, NEW t \in Threads, Active(t), thread[t].q \in Requests, NEW r, ghost' = Counted(t, r)
  PROVE  /\ Counts(thread[t].q, thread[t].at, r)
         /\ \A x \in EscrowIds :
              r.ok /\ thread[t].at = 5 /\ thread[t].q.kind = "award"
                /\ thread[t].copy.bounties[thread[t].q.id].escrow = x => x \in ghost'.awards
<1> DEFINE q == thread[t].q
           done == r.ok /\ thread[t].at = Handling
           H == [k \in Keys |-> IF done /\ q.key = k THEN ghost.handled[k] + 1 ELSE ghost.handled[k]]
           P == [x \in Txs |-> IF r.paid = x THEN ghost.paid[x] + 1 ELSE ghost.paid[x]]
           E == {e \in EscrowIds : q.kind = "award" /\ thread[t].copy.bounties[q.id].escrow = e}
           A == IF done THEN ghost.awards \union E ELSE ghost.awards
<1>1. ghost \in Ghosts
  BY DEF StoreInv, Typed
<1>2. H \in [Keys -> Nat] /\ P \in [Txs -> Nat] /\ A \in SUBSET EscrowIds
  BY <1>1 DEF Ghosts
<1>3. ghost' = [ghost EXCEPT !.handled = H, !.paid = P, !.awards = A]
  BY <1>1 DEF Counted, Ghosts
<1>4. done <=> (r.ok /\ thread[t].at = 5)
  BY DEF Handling
<1> HIDE DEF H, P, A, E, q
<1>5. /\ ghost' \in Ghosts /\ ghost'.handled = H /\ ghost'.paid = P /\ ghost'.awards = A
      /\ ghost'.overlapped = ghost.overlapped /\ ghost'.crashed = ghost.crashed /\ ghost'.recreated = ghost.recreated
  BY <1>1, <1>2, <1>3 DEF Ghosts
<1>6. /\ \A k \in Keys : H[k] = IF done /\ q.key = k THEN ghost.handled[k] + 1 ELSE ghost.handled[k]
      /\ \A x \in Txs : P[x] = IF r.paid = x THEN ghost.paid[x] + 1 ELSE ghost.paid[x]
      /\ ghost.awards \subseteq A
  BY DEF H, P, A
<1>7. Counts(q, thread[t].at, r)
  BY <1>4, <1>5, <1>6 DEF Counts
<1> QED
  BY <1>4, <1>5, <1>7 DEF q, A, E

LEMMA SaveFacts ==
  ASSUME StoreAssumption, StoreInv, NEW t \in Threads, Save(t)
  PROVE  \E q, i, c, r : Saved(t, q, i, c, r) /\ Counts(q, i, r) /\ Advances(t, q, i, r)
<1> DEFINE q == thread[t].q
           i == thread[t].at
           c == thread[t].copy
           r == Segment(Pipeline[i], c, q)
<1>1. /\ Active(t) /\ c # None
      /\ doc' = IF r.save THEN r.doc ELSE doc
      /\ IF ~r.ok \/ Later(q, i) = {} THEN thread' = [thread EXCEPT ![t] = Resting] ELSE Proceeds(t, q, i)
      /\ ghost' = Counted(t, r)
      /\ UNCHANGED <<clock, menu, sent>>
  BY DEF Save
<1>2. Fits(q, sent) /\ i \in 1..8 /\ Runs(q, Pipeline[i]) /\ q \in Requests
  BY <1>1 DEF StoreInv, ThreadsFit, Fits
<1>3. Loaded(t) /\ Sound(c, ghost, sent) /\ sent \in Nat /\ clock \in Nat /\ ghost \in Ghosts
  BY <1>1 DEF Loaded, StoreInv, DocsSound, Typed
<1> HIDE DEF r
<1>4. /\ Counts(q, i, r)
      /\ \A x \in EscrowIds :
           r.ok /\ i = 5 /\ q.kind = "award" /\ c.bounties[q.id].escrow = x => x \in ghost'.awards
  BY <1>1, <1>2, GhostCounts
<1>5. Sound(c, ghost', sent)
  <2>1. /\ ghost' \in Ghosts /\ ghost.awards \subseteq ghost'.awards /\ (ghost.overlapped => ghost'.overlapped)
        /\ \A k \in Keys : ghost.handled[k] > 0 => ghost'.handled[k] > 0
    BY <1>3, <1>4 DEF Counts, Ghosts
  <2> QED
    BY <1>3, <2>1, SoundGrows
<1>6. Ready(i, c, q, ghost')
  <2>1. ASSUME i = 5
        PROVE  FreeIn(c, q.n)
    BY <1>1, <1>3, <2>1 DEF StoreInv, NumbersFree
  <2>2. ASSUME i = 5, q.kind = "bounty"
        PROVE  ghost'.overlapped \/ c.bounties[q.id].status = "none"
    BY <1>1, <1>3, <1>4, <2>2 DEF StoreInv, Alone, Counts
  <2>3. ASSUME i = 5, q.kind = "award", AwardBounty(c, q).ok
        PROVE  c.bounties[q.id].escrow \in ghost'.awards \union {None}
    <3>1. r = AwardBounty(c, q)
      BY <2>3, Places DEF r, Segment, Handler
    <3>2. c.bounties[q.id].escrow \in EscrowIds \union {None}
      BY <1>2, <1>3, <2>3 DEF Fits, WellFormed, Sound, Documents, BountyRecords
    <3> QED
      BY <1>4, <2>3, <3>1, <3>2
  <2>4. ASSUME i = 7
        PROVE  ghost'.handled[q.key] > 0
    <3>1. q.key # None /\ q.key \in Keys
      BY <1>2, <2>4, Places DEF Runs, Requests
    <3>2. ghost.handled[q.key] > 0
      BY <1>1, <2>4, <3>1 DEF StoreInv, ThreadsFit
    <3> QED
      BY <1>3, <1>4, <3>1, <3>2, <2>4 DEF Counts
  <2> QED
    BY <2>1, <2>2, <2>3, <2>4 DEF Ready
<1>7. Sound(r.doc, ghost', sent) /\ Effect(i, c, r, q)
  BY <1>2, <1>3, <1>5, <1>6, SegmentSound DEF r
<1>8. Saved(t, q, i, c, r)
  <2>1. (r.save /\ doc' = r.doc) \/ (~r.save /\ doc' = doc)
    BY <1>1
  <2> HIDE DEF q, i, c
  <2> QED
    BY <1>1, <1>2, <1>3, <1>5, <1>7, <2>1 DEF Saved, q, i, c
<1>9. Advances(t, q, i, r)
  <2>1. CASE ~r.ok \/ Later(q, i) = {}
    BY <1>1, <2>1 DEF Advances
  <2>2. CASE ~(~r.ok \/ Later(q, i) = {})
    <3>1. i # 8
      BY <2>2, Places DEF Later
    <3>2. Goes(t, q, i)
      BY <1>1, <1>2, <2>2, <3>1, Going
    <3> QED
      BY <2>2, <3>2 DEF Advances
  <2> QED
    BY <2>1, <2>2
<1> QED
  BY <1>4, <1>8, <1>9

\* What a thread does next, place by place.
LEMMA Advancing ==
  ASSUME StoreInv, NEW t \in Threads, NEW q \in Requests, NEW i \in 1..8, NEW r, Advances(t, q, i, r)
  PROVE  /\ thread' \in [Threads -> [at : 0..8, q : Requests \union {None}, copy : Documents \union {None}]]
         /\ \A u \in Threads : u # t => thread'[u] = thread[u]
         /\ ~Loaded(t)'
         /\ Active(t)' => /\ r.ok /\ thread'[t].q = q /\ thread'[t].at \in 1..8 /\ thread'[t].at > i
                          /\ Runs(q, Pipeline[thread'[t].at])
                          /\ i < 5 => thread'[t].at <= 5
                          /\ i < 2 /\ Funds(q) => thread'[t].at <= 2
                          /\ i < 3 /\ q.kind = "bounty" => thread'[t].at <= 3
                          /\ i < 7 /\ q.key # None => thread'[t].at <= 7
         /\ ~Active(t)' => ~r.ok \/ Later(q, i) = {} \/ q = None
<1>0. thread \in [Threads -> [at : 0..8, q : Requests \union {None}, copy : Documents \union {None}]]
  BY DEF StoreInv, Typed
<1>1. CASE thread' = [thread EXCEPT ![t] = Resting] /\ (~r.ok \/ Later(q, i) = {})
  BY <1>0, <1>1 DEF Active, Loaded, Resting
<1>2. CASE r.ok /\ Goes(t, q, i)
  <2>1. PICK j \in 1..8 :
          /\ j > i /\ Runs(q, Pipeline[j])
          /\ i < 5 => j <= 5
          /\ i < 2 /\ Funds(q) => j <= 2
          /\ i < 3 /\ q.kind = "bounty" => j <= 3
          /\ i < 7 /\ q.key # None => j <= 7
          /\ thread' = [thread EXCEPT ![t] = [at |-> j, q |-> q, copy |-> None]]
    BY <1>2 DEF Goes
  <2>2. thread'[t] = [at |-> j, q |-> q, copy |-> None] /\ \A u \in Threads : u # t => thread'[u] = thread[u]
    BY <1>0, <2>1
  <2>3. thread' \in [Threads -> [at : 0..8, q : Requests \union {None}, copy : Documents \union {None}]]
    BY <1>0, <2>1
  <2> QED
    BY <1>2, <2>1, <2>2, <2>3 DEF Active, Loaded
<1> QED
  BY <1>1, <1>2 DEF Advances

LEMMA SaveStore ==
  ASSUME StoreAssumption, StoreInv, NEW t \in Threads, Save(t)
  PROVE  StoreInv'
<1>1. PICK q, i, c, r : Saved(t, q, i, c, r) /\ Counts(q, i, r) /\ Advances(t, q, i, r)
  BY SaveFacts
<1>2. /\ Active(t) /\ Loaded(t) /\ thread[t].q = q /\ thread[t].at = i /\ thread[t].copy = c
      /\ Fits(q, sent) /\ i \in 1..8
      /\ Sound(r.doc, ghost', sent) /\ Effect(i, c, r, q)
      /\ doc' = doc \/ (r.save /\ doc' = r.doc)
      /\ UNCHANGED <<clock, menu, sent>>
  BY <1>1 DEF Saved
<1>3. /\ ghost' \in Ghosts /\ ghost \in Ghosts /\ ghost.awards \subseteq ghost'.awards
      /\ ghost'.overlapped = ghost.overlapped
      /\ \A k \in Keys : ghost.handled[k] > 0 => ghost'.handled[k] > 0
  <2>1. ghost \in Ghosts
    BY DEF StoreInv, Typed
  <2>2. \A k \in Keys : ghost.handled[k] \in Nat
    BY <2>1 DEF Ghosts
  <2>3. Counts(q, i, r)
    BY <1>1
  <2>4. \A k \in Keys : ghost'.handled[k] = IF r.ok /\ i = 5 /\ q.key = k THEN ghost.handled[k] + 1 ELSE ghost.handled[k]
    BY <2>3 DEF Counts
  <2>5. \A k \in Keys : ghost.handled[k] > 0 => ghost'.handled[k] > 0
    BY <2>2, <2>4
  <2> QED
    BY <2>1, <2>3, <2>5 DEF Counts
<1>4. q \in Requests /\ sent \in Nat
  BY <1>2 DEF Fits, StoreInv, Typed
<1>5. /\ thread' \in [Threads -> [at : 0..8, q : Requests \union {None}, copy : Documents \union {None}]]
      /\ \A u \in Threads : u # t => thread'[u] = thread[u]
      /\ ~Loaded(t)'
      /\ Active(t)' => /\ r.ok /\ thread'[t].q = q /\ thread'[t].at \in 1..8 /\ thread'[t].at > i
                       /\ Runs(q, Pipeline[thread'[t].at])
                       /\ i < 5 => thread'[t].at <= 5
                       /\ i < 3 /\ q.kind = "bounty" => thread'[t].at <= 3
  BY <1>1, <1>2, <1>4, Advancing
<1>6. /\ \A u \in Threads : u # t => (Active(u)' <=> Active(u)) /\ (Loaded(u)' <=> Loaded(u))
      /\ \A u \in Threads : Active(u)' => Active(u) /\ thread'[u].q = thread[u].q
      /\ \A u \in Threads : Loaded(u)' => Loaded(u) /\ thread'[u].copy = thread[u].copy
  BY <1>2, <1>5 DEF Active, Loaded
<1>7. Typed'
  BY <1>2, <1>3, <1>5 DEF StoreInv, Typed
<1>8. DocsSound'
  <2>1. \A d : Sound(d, ghost, sent) => Sound(d, ghost', sent)
    BY <1>3, <1>4, SoundGrows
  <2> QED
    BY <1>2, <1>6, <2>1 DEF StoreInv, DocsSound
<1>9. ThreadsFit'
  <2>1. ASSUME NEW u \in Threads, Active(u)'
        PROVE  /\ Fits(thread'[u].q, sent)
               /\ thread'[u].at \in 1..8 /\ Runs(thread'[u].q, Pipeline[thread'[u].at])
               /\ thread'[u].at > 5 /\ thread'[u].q.key # None => ghost'.handled[thread'[u].q.key] > 0
    <3>1. CASE u # t
      <4>1. thread'[u] = thread[u] /\ Active(u)
        BY <1>5, <1>6, <2>1, <3>1
      <4>2. /\ Fits(thread[u].q, sent)
            /\ thread[u].at \in 1..8 /\ Runs(thread[u].q, Pipeline[thread[u].at])
            /\ thread[u].at > 5 /\ thread[u].q.key # None => ghost.handled[thread[u].q.key] > 0
        BY <4>1 DEF StoreInv, ThreadsFit
      <4>3. thread[u].q.key # None => thread[u].q.key \in Keys
        BY <4>2 DEF Fits, Requests
      <4> QED
        BY <1>3, <4>1, <4>2, <4>3
    <3>2. CASE u = t
      <4>1. ASSUME thread'[t].at > 5, q.key # None
            PROVE  ghost'.handled[q.key] > 0
        <5>1. q.key \in Keys /\ ghost.handled[q.key] \in Nat
          BY <1>3, <1>4, <4>1 DEF Requests, Ghosts
        <5>2. CASE i = 5
          BY <1>1, <1>5, <2>1, <3>2, <5>1, <5>2 DEF Counts
        <5>3. CASE i > 5
          BY <1>2, <1>3, <4>1, <5>1, <5>3 DEF StoreInv, ThreadsFit
        <5> QED
          BY <1>2, <1>5, <2>1, <3>2, <4>1, <5>2, <5>3
      <4> QED
        BY <1>2, <1>5, <2>1, <3>2, <4>1
    <3> QED
      BY <3>1, <3>2
  <2>2. ASSUME NEW u \in Threads, NEW v \in Threads, Active(u)', Active(v)', u # v
        PROVE  thread'[u].q.n # thread'[v].q.n
    BY <1>6, <2>2 DEF StoreInv, ThreadsFit
  <2> QED
    BY <1>2, <2>1, <2>2 DEF ThreadsFit
<1>10. NumbersFree'
  <2>1. ASSUME NEW u \in Threads, Active(u)', thread'[u].at <= 5
        PROVE  /\ FreeIn(doc', thread'[u].q.n)
               /\ \A v \in Threads : Loaded(v)' => FreeIn(thread'[v].copy, thread'[u].q.n)
    <3>1. Active(u) /\ thread'[u].q = thread[u].q /\ thread[u].at <= 5
      BY <1>2, <1>5, <1>6, <2>1
    <3>2. /\ FreeIn(doc, thread[u].q.n) /\ FreeIn(c, thread[u].q.n)
          /\ \A v \in Threads : Loaded(v) => FreeIn(thread[v].copy, thread[u].q.n)
      BY <1>2, <3>1 DEF StoreInv, NumbersFree
    <3>3. FreeIn(r.doc, thread[u].q.n)
      <4>1. CASE i # 5
        BY <1>2, <3>2, <4>1 DEF Effect, SameNumbers
      <4>2. CASE i = 5
        <5>1. u # t
          BY <1>5, <2>1, <4>2
        <5>2. thread[u].q.n # q.n
          BY <1>2, <3>1, <5>1 DEF StoreInv, ThreadsFit
        <5> QED
          BY <1>2, <3>2, <4>2, <5>2 DEF Effect, OwnNumber
      <4> QED
        BY <4>1, <4>2
    <3> QED
      BY <1>2, <1>6, <3>1, <3>2, <3>3
  <2> QED
    BY <2>1 DEF NumbersFree
<1>11. Alone'
  <2>1. SUFFICES ASSUME ~ghost.overlapped
        PROVE  /\ \A u, v \in Threads : Active(u)' /\ Active(v)' => u = v
               /\ \A u \in Threads : Loaded(u)' => thread'[u].copy = doc'
               /\ \A u \in Threads : Active(u)' /\ thread'[u].q.kind = "bounty" /\ thread'[u].at \in {4, 5} =>
                    doc'.bounties[thread'[u].q.id].status = "none"
    BY <1>3 DEF Alone
  <2>2. /\ \A u, v \in Threads : Active(u) /\ Active(v) => u = v
        /\ c = doc
        /\ q.kind = "bounty" /\ i \in {4, 5} => doc.bounties[q.id].status = "none"
    BY <1>2, <2>1 DEF StoreInv, Alone
  <2>3. \A u \in Threads : Active(u)' => u = t
    BY <1>2, <1>6, <2>2
  <2>4. \A u \in Threads : ~Loaded(u)'
    BY <1>2, <1>5, <1>6, <2>2 DEF Loaded
  <2>5. ASSUME Active(t)', q.kind = "bounty", thread'[t].at \in {4, 5}
        PROVE  doc'.bounties[q.id].status = "none"
    <3>1. r.ok /\ i \in {3, 4}
      BY <1>2, <1>5, <2>5
    <3>2. r.doc = doc
      BY <1>2, <2>2, <3>1 DEF Effect
    <3>3. doc.bounties[q.id].status = "none"
      BY <1>2, <2>2, <2>5, <3>1 DEF Effect
    <3> QED
      BY <1>2, <3>2, <3>3
  <2> QED
    BY <1>5, <2>3, <2>4, <2>5
<1> QED
  BY <1>7, <1>8, <1>9, <1>10, <1>11 DEF StoreInv

LEMMA StoreInvariant == Spec => []StoreInv
<1> USE StoreAssumption
<1>1. Init => StoreInv
  BY InitStore
<1>2. StoreInv /\ [Next]_vars => StoreInv'
  <2> SUFFICES ASSUME StoreInv, [Next]_vars PROVE StoreInv'
    OBVIOUS
  <2>1. ASSUME NEW t \in Threads, NEW r \in Offered, NEW w \in Named(r.kind), Send(t, r, w)
        PROVE  StoreInv'
    BY <2>1, SendStore
  <2>2. ASSUME NEW t \in Threads, Load(t)
        PROVE  StoreInv'
    BY <2>2, LoadStore
  <2>3. ASSUME NEW t \in Threads, Save(t)
        PROVE  StoreInv'
    BY <2>3, SaveStore
  <2>4. CASE Crash
    BY <2>4, CrashStore
  <2>5. CASE Tick
    BY <2>5, TickStore
  <2>6. CASE UNCHANGED vars
    BY <2>6, StutterStore
  <2> QED
    BY <2>1, <2>2, <2>3, <2>4, <2>5, <2>6 DEF Next
<1> QED
  BY <1>1, <1>2, PTL DEF Spec

\* Theorem.  In every document ever saved the exchange holds what it owes and paid
\* only what two people agreed to, settled escrows have two backers or an award, and
\* the audit log is one chain: also when requests overlap and threads die between
\* their steps, because the handler of a request writes records of its own number
\* into a copy that was itself sound (__init__.py:565-599).
THEOREM RecordsStaySound == Spec => []RecordsSound
<1> USE StoreAssumption
<1>1. StoreInv => RecordsSound
  <2> SUFFICES ASSUME StoreInv PROVE RecordsSound
    OBVIOUS
  <2>1. Sound(doc, ghost, sent)
    BY DEF StoreInv, DocsSound
  <2>2. TypeOK
    <3>1. doc \in Documents /\ \A k \in Keys : doc.idem[k] = {} \/ ghost.handled[k] > 0
      BY <2>1 DEF Sound, Recorded
    <3>2. ASSUME NEW t \in Threads, Active(t)
          PROVE  /\ thread[t].q \in Requests /\ thread[t].q.n \in 1..sent
                 /\ thread[t].at \in DOMAIN Pipeline /\ Runs(thread[t].q, Pipeline[thread[t].at])
      BY <3>2, Places DEF StoreInv, ThreadsFit, Fits
    <3>3. \A w \in doc.withdrawals : w.n \in 1..sent
      BY <2>1 DEF Sound, MoneyFine, Numbered
    <3> QED
      BY <3>1, <3>2, <3>3 DEF StoreInv, Typed, TypeOK
  <2>3. Backed(doc)
    BY <2>1 DEF Sound, MoneyFine, Backed
  <2>4. PaidByTwo(doc, ghost)
    <3>1. MoneyFine(doc.deposits, doc.custody, doc.balances, doc.withdrawals, doc.approvals, sent)
          /\ EscrowsFine(doc.escrows, doc.bounties, ghost)
      BY <2>1 DEF Sound
    <3>2. \A w \in doc.withdrawals : w.status = "released" => Cardinality(Signers(doc.approvals, w.n)) >= 2
      BY <3>1 DEF MoneyFine
    <3>3. \A e \in EscrowIds : doc.escrows[e].status \in {"released", "refunded"} =>
            \/ Cardinality(Backers(doc.escrows[e], doc.escrows[e].status)) >= 2
            \/ /\ e \in ghost.awards /\ doc.escrows[e].status = "released"
               /\ \/ ghost.overlapped
                  \/ \E b \in BountyIds : doc.bounties[b].status = "awarded" /\ doc.bounties[b].escrow = e
      BY <3>1 DEF EscrowsFine
    <3> QED
      BY <3>2, <3>3 DEF PaidByTwo, Signers, Backers
  <2> QED
    BY <2>1, <2>2, <2>3, <2>4 DEF RecordsSound, Sound
<1> QED
  BY <1>1, StoreInvariant, PTL

(* ----------------- requests one at a time: coins and keys ----------------- *)
\* A save when no requests overlap: the copy is the document.
LEMMA SaveAlone ==
  ASSUME StoreAssumption, StoreInv, NEW t \in Threads, Save(t), ~ghost.overlapped
  PROVE  \E q, i, r :
           /\ q \in Requests /\ i \in 1..8 /\ Runs(q, Pipeline[i]) /\ thread[t].q = q /\ thread[t].at = i /\ Active(t)
           /\ Effect(i, doc, r, q) /\ doc' = r.doc
           /\ Counts(q, i, r) /\ Advances(t, q, i, r)
           /\ \A u \in Threads : Active(u) => u = t
<1>1. PICK q, i, c, r : Saved(t, q, i, c, r) /\ Counts(q, i, r) /\ Advances(t, q, i, r)
  BY SaveFacts
<1>2. /\ Active(t) /\ Loaded(t) /\ thread[t].q = q /\ thread[t].at = i /\ thread[t].copy = c
      /\ Fits(q, sent) /\ i \in 1..8 /\ Runs(q, Pipeline[i]) /\ Effect(i, c, r, q)
      /\ (r.save /\ doc' = r.doc) \/ (~r.save /\ doc' = doc)
  BY <1>1 DEF Saved
<1>3. c = doc /\ \A u \in Threads : Active(u) => u = t
  BY <1>2 DEF StoreInv, Alone
<1>4. doc' = r.doc
  BY <1>2, <1>3 DEF Effect
<1>5. q \in Requests
  BY <1>2 DEF Fits
<1>6. Effect(i, doc, r, q)
  BY <1>2, <1>3
<1> QED
  BY <1>1, <1>2, <1>3, <1>4, <1>5, <1>6

\* A request that arrives when no other one runs.
LEMMA SendAlone ==
  ASSUME StoreAssumption, StoreInv, NEW t \in Threads, NEW r \in Offered, NEW w \in Named(r.kind), Send(t, r, w),
         ~ghost'.overlapped
  PROVE  /\ ~ghost.overlapped /\ ghost'.crashed = ghost.crashed /\ (ghost.recreated => ghost'.recreated)
         /\ ghost'.handled = ghost.handled /\ ghost'.paid = ghost.paid /\ doc' = doc
         /\ \A u \in Threads : ~Active(u)
         /\ \A u \in Threads : Active(u)' =>
              /\ thread'[u].q \in Requests /\ thread'[u].at \in 1..5 /\ Fresh(doc, thread'[u].q)
              /\ Funds(thread'[u].q) => thread'[u].at <= 2
              /\ thread'[u].q.kind = "escrow" /\ ~ghost'.recreated => doc.escrows[thread'[u].q.id].status = "none"
<1> DEFINE q == [r EXCEPT !.n = sent + 1, !.w = w]
<1>1. Fits(q, sent + 1)
  BY Sending
<1>2. q \in Requests
  BY <1>1 DEF Fits
<1>3. /\ doc' = doc
      /\ (Fresh(doc, q) /\ Goes(t, q, 0)) \/ thread' = thread
      /\ ghost' = [ghost EXCEPT !.overlapped = @ \/ \E u \in Threads : Active(u),
                                !.recreated = @ \/ (r.kind = "escrow" /\ doc.escrows[r.id].status # "none")]
  BY Going DEF Send
<1>4. ghost \in Ghosts
  BY DEF StoreInv, Typed
<1>5. q.kind = r.kind /\ q.id = r.id
  OBVIOUS
<1> HIDE DEF q
<1>6. /\ ghost'.crashed = ghost.crashed /\ ghost'.handled = ghost.handled /\ ghost'.paid = ghost.paid
      /\ ghost'.overlapped = (ghost.overlapped \/ \E u \in Threads : Active(u))
      /\ ghost'.recreated = (ghost.recreated \/ (r.kind = "escrow" /\ doc.escrows[r.id].status # "none"))
  BY <1>3, <1>4 DEF Ghosts
<1>7. ~ghost.overlapped /\ \A u \in Threads : ~Active(u)
  BY <1>6
<1>8. ASSUME NEW u \in Threads, Active(u)'
      PROVE  /\ thread'[u].q \in Requests /\ thread'[u].at \in 1..5 /\ Fresh(doc, thread'[u].q)
             /\ Funds(thread'[u].q) => thread'[u].at <= 2
             /\ thread'[u].q.kind = "escrow" /\ ~ghost'.recreated => doc.escrows[thread'[u].q.id].status = "none"
  <2>1. thread \in [Threads -> [at : 0..8, q : Requests \union {None}, copy : Documents \union {None}]]
    BY DEF StoreInv, Typed
  <2>2. thread'[u] # thread[u]
    BY <1>7, <1>8 DEF Active
  <2>3. Fresh(doc, q) /\ Goes(t, q, 0)
    BY <1>3, <2>2
  <2>4. PICK j \in 1..8 :
          /\ j > 0 /\ Runs(q, Pipeline[j])
          /\ 0 < 5 => j <= 5
          /\ 0 < 2 /\ Funds(q) => j <= 2
          /\ 0 < 3 /\ q.kind = "bounty" => j <= 3
          /\ 0 < 7 /\ q.key # None => j <= 7
          /\ thread' = [thread EXCEPT ![t] = [at |-> j, q |-> q, copy |-> None]]
    BY <2>3 DEF Goes
  <2>5. thread'[u].q = q /\ thread'[u].at = j
    BY <2>1, <2>2, <2>4
  <2>6. j <= 5 /\ (Funds(q) => j <= 2)
    BY <2>4
  <2>7. q.kind = "escrow" /\ ~ghost'.recreated => doc.escrows[q.id].status = "none"
    BY <1>5, <1>6
  <2>8. j \in 1..5
    BY <2>6
  <2> QED
    BY <1>2, <2>3, <2>5, <2>6, <2>7, <2>8, Zenon
<1> QED
  BY <1>3, <1>6, <1>7, <1>8

(* A coin funds what has claimed it. *)
FundingInv ==
  \/ ghost.overlapped
  \/ /\ \A x \in Txs : Uses(doc, x) \subseteq doc.claims[x] /\ \A u, v \in doc.claims[x] : u = v
     /\ \A t \in Threads : Active(t) /\ Funds(thread[t].q) /\ thread[t].at \in 3..5 =>
          doc.claims[thread[t].q.tx] = {Claimant(thread[t].q)}

LEMMA SaveFunding ==
  ASSUME StoreAssumption, StoreInv, FundingInv, NEW t \in Threads, Save(t)
  PROVE  FundingInv'
<1>1. ghost'.overlapped = ghost.overlapped
  BY SaveFacts DEF Counts
<1>2. SUFFICES ASSUME ~ghost.overlapped
      PROVE  /\ \A x \in Txs : Uses(doc', x) \subseteq doc'.claims[x] /\ \A u, v \in doc'.claims[x] : u = v
             /\ \A u \in Threads : Active(u)' /\ Funds(thread'[u].q) /\ thread'[u].at \in 3..5 =>
                  doc'.claims[thread'[u].q.tx] = {Claimant(thread'[u].q)}
  BY <1>1 DEF FundingInv, Uses
<1>3. PICK q, i, r :
        /\ q \in Requests /\ i \in 1..8 /\ Runs(q, Pipeline[i]) /\ thread[t].q = q /\ thread[t].at = i /\ Active(t)
        /\ Effect(i, doc, r, q) /\ doc' = r.doc
        /\ Counts(q, i, r) /\ Advances(t, q, i, r)
        /\ \A u \in Threads : Active(u) => u = t
  BY <1>2, SaveAlone
<1>4. /\ \A x \in Txs : Uses(doc, x) \subseteq doc.claims[x] /\ \A u, v \in doc.claims[x] : u = v
      /\ Funds(q) /\ i \in 3..5 => doc.claims[q.tx] = {Claimant(q)}
  BY <1>2, <1>3 DEF FundingInv
<1>5. doc.claims \in [Txs -> SUBSET Claimants]
  BY DEF StoreInv, DocsSound, Sound, Documents
<1>6. q.tx \in Txs \/ ~Funds(q)
  BY <1>3 DEF Requests, Funds
<1>7. /\ \A x \in Txs : Uses(doc', x) \subseteq doc'.claims[x] /\ \A u, v \in doc'.claims[x] : u = v
      /\ Funds(q) /\ i = 2 /\ r.ok => doc'.claims[q.tx] = {Claimant(q)}
      /\ i # 2 => doc'.claims = doc.claims
  <2>1. CASE i \in {1, 3, 6, 7, 8}
    <3>1. doc'.claims = doc.claims /\ \A x : Uses(doc', x) = Uses(doc, x)
      <4>1. doc'.claims = doc.claims /\ doc'.deposits = doc.deposits /\ doc'.gifts = doc.gifts /\ doc'.escrows = doc.escrows
        BY <1>3, <2>1 DEF Effect, Still, Remembers
      <4> QED
        BY <4>1 DEF Uses
    <3> QED
      BY <1>4, <2>1, <3>1
  <2>2. CASE i = 2
    <3>1. Claims(doc, r, q) /\ Funds(q)
      BY <1>3, <2>2, Places DEF Effect, Runs, Funds
    <3>2. \A x : Uses(doc', x) = Uses(doc, x)
      BY <1>3, <3>1 DEF Claims, Uses
    <3>3. CASE ~r.ok /\ doc'.claims = doc.claims
      BY <1>4, <2>2, <3>2, <3>3
    <3>4. CASE r.ok /\ doc.claims[q.tx] \subseteq {Claimant(q)} /\ doc'.claims = [doc.claims EXCEPT ![q.tx] = {Claimant(q)}]
      BY <1>4, <1>5, <1>6, <2>2, <3>1, <3>2, <3>4
    <3> QED
      BY <1>3, <3>1, <3>3, <3>4 DEF Claims
  <2>3. CASE i = 4
    <3>1. ~Funds(q) /\ Moves(doc, r, q)
      BY <1>3, <2>3, Places DEF Effect, Runs, Funds
    <3>2. doc'.claims = doc.claims /\ \A x \in Txs : Uses(doc', x) \subseteq Uses(doc, x)
      BY <1>3, <3>1 DEF Moves, Adds
    <3> QED
      BY <1>4, <2>3, <3>2
  <2>4. CASE i = 5
    <3>1. Moves(doc, r, q)
      BY <1>3, <2>4 DEF Effect
    <3>2. /\ doc'.claims = doc.claims
          /\ \A x \in Txs : \A u \in Uses(doc', x) : u \in Uses(doc, x) \/ (Funds(q) /\ q.tx = x /\ u = Claimant(q))
      BY <1>3, <3>1 DEF Moves, Adds
    <3> QED
      BY <1>4, <2>4, <3>2
  <2> QED
    BY <1>3, <2>1, <2>2, <2>3, <2>4
<1>8. ASSUME NEW u \in Threads, Active(u)', Funds(thread'[u].q), thread'[u].at \in 3..5
      PROVE  doc'.claims[thread'[u].q.tx] = {Claimant(thread'[u].q)}
  <2>1. /\ \A v \in Threads : v # t => thread'[v] = thread[v]
        /\ Active(t)' => /\ r.ok /\ thread'[t].q = q /\ thread'[t].at \in 1..8 /\ thread'[t].at > i
                         /\ i < 2 /\ Funds(q) => thread'[t].at <= 2
    BY <1>3, Advancing
  <2>2. u = t
    BY <1>3, <1>8, <2>1 DEF Active
  <2>3. r.ok /\ thread'[t].q = q /\ i \in 2..4
    BY <1>3, <1>8, <2>1, <2>2
  <2> QED
    BY <1>4, <1>7, <1>8, <2>2, <2>3
<1> QED
  BY <1>7, <1>8

LEMMA FundingInvariant == Spec => []FundingInv
<1> USE StoreAssumption
<1>1. Init => FundingInv
  BY DEF Init, FundingInv, EmptyDoc, NoEscrow, Uses, Active, Resting, StoreAssumption
<1>2. StoreInv /\ FundingInv /\ [Next]_vars => FundingInv'
  <2> SUFFICES ASSUME StoreInv, FundingInv, [Next]_vars PROVE FundingInv'
    OBVIOUS
  <2>1. ASSUME NEW t \in Threads, NEW r \in Offered, NEW w \in Named(r.kind), Send(t, r, w)
        PROVE  FundingInv'
    <3>1. SUFFICES ASSUME ~ghost'.overlapped PROVE FundingInv'
      BY DEF FundingInv
    <3>2. /\ ~ghost.overlapped /\ doc' = doc
          /\ \A u \in Threads : Active(u)' => thread'[u].at \in 1..5 /\ (Funds(thread'[u].q) => thread'[u].at <= 2)
      BY <2>1, <3>1, SendAlone
    <3>3. \A u \in Threads : ~(Active(u)' /\ Funds(thread'[u].q) /\ thread'[u].at \in 3..5)
      BY <3>2
    <3> QED
      BY <3>2, <3>3 DEF FundingInv, Uses
  <2>2. ASSUME NEW t \in Threads, Load(t)
        PROVE  FundingInv'
    <3>1. UNCHANGED <<doc, ghost>> /\ \A u \in Threads : thread'[u].q = thread[u].q /\ thread'[u].at = thread[u].at
      BY <2>2 DEF Load, StoreInv, Typed
    <3> QED
      BY <3>1 DEF FundingInv, Uses, Active
  <2>3. ASSUME NEW t \in Threads, Save(t)
        PROVE  FundingInv'
    BY <2>3, SaveFunding
  <2>4. CASE Crash
    <3>1. doc' = doc /\ ghost'.overlapped = ghost.overlapped /\ \A t \in Threads : ~Active(t)'
      BY <2>4 DEF Crash, Active, Resting, StoreInv, Typed, Ghosts
    <3> QED
      BY <3>1 DEF FundingInv, Uses
  <2>5. CASE Tick
    BY <2>5 DEF Tick, FundingInv, Uses, Active
  <2>6. CASE UNCHANGED vars
    BY <2>6 DEF vars, FundingInv, Uses, Active
  <2> QED
    BY <2>1, <2>2, <2>3, <2>4, <2>5, <2>6 DEF Next
<1> QED
  BY <1>1, <1>2, StoreInvariant, PTL DEF Spec

(* A key runs once. *)
KeyInv ==
  \/ ghost.overlapped \/ ghost.crashed
  \/ /\ \A k \in Keys :
          \/ ghost.handled[k] = 0
          \/ /\ ghost.handled[k] = 1
             /\ \/ doc.idem[k] # {}
                \/ \E t \in Threads : Active(t) /\ thread[t].q.key = k /\ thread[t].at \in 6..7
     /\ \A t \in Threads : Active(t) /\ thread[t].q.key # None /\ thread[t].at <= 5 =>
          ghost.handled[thread[t].q.key] = 0

LEMMA SaveKey ==
  ASSUME StoreAssumption, StoreInv, KeyInv, NEW t \in Threads, Save(t)
  PROVE  KeyInv'
<1>1. ghost'.overlapped = ghost.overlapped /\ ghost'.crashed = ghost.crashed
  BY SaveFacts DEF Counts
<1>2. SUFFICES ASSUME ~ghost.overlapped, ~ghost.crashed
      PROVE  /\ \A k \in Keys :
                  \/ ghost'.handled[k] = 0
                  \/ /\ ghost'.handled[k] = 1
                     /\ \/ doc'.idem[k] # {}
                        \/ \E u \in Threads : Active(u)' /\ thread'[u].q.key = k /\ thread'[u].at \in 6..7
             /\ \A u \in Threads : Active(u)' /\ thread'[u].q.key # None /\ thread'[u].at <= 5 =>
                  ghost'.handled[thread'[u].q.key] = 0
  BY <1>1 DEF KeyInv
<1>3. PICK q, i, r :
        /\ q \in Requests /\ i \in 1..8 /\ Runs(q, Pipeline[i]) /\ thread[t].q = q /\ thread[t].at = i /\ Active(t)
        /\ Effect(i, doc, r, q) /\ doc' = r.doc
        /\ Counts(q, i, r) /\ Advances(t, q, i, r)
        /\ \A u \in Threads : Active(u) => u = t
  BY <1>2, SaveAlone
<1>4. /\ \A k \in Keys :
           \/ ghost.handled[k] = 0
           \/ ghost.handled[k] = 1 /\ (doc.idem[k] # {} \/ (q.key = k /\ i \in 6..7))
      /\ q.key # None /\ i <= 5 => ghost.handled[q.key] = 0
  BY <1>2, <1>3 DEF KeyInv
<1>5. \A k \in Keys : ghost'.handled[k] = IF r.ok /\ i = 5 /\ q.key = k THEN ghost.handled[k] + 1 ELSE ghost.handled[k]
  BY <1>3 DEF Counts
<1>6. doc.idem \in [Keys -> SUBSET Requests] /\ q.key \in Keys \union {None} /\ None \notin Keys
  BY <1>3 DEF StoreInv, DocsSound, Sound, Documents, Requests, StoreAssumption
<1>7. /\ i # 7 => doc'.idem = doc.idem
      /\ i = 7 => q.key \in Keys /\ doc'.idem = [doc.idem EXCEPT ![q.key] = {Body(q)}]
  <2>1. i = 7 => q.key # None
    BY <1>3, Places DEF Runs
  <2>2. i \in {1, 3, 6, 8} => doc'.idem = doc.idem
    BY <1>3 DEF Effect, Still
  <2>3. i = 2 => doc'.idem = doc.idem
    BY <1>3 DEF Effect, Claims
  <2>4. i \in {4, 5} => doc'.idem = doc.idem
    BY <1>3 DEF Effect, Moves
  <2>5. i = 7 => doc'.idem = [doc.idem EXCEPT ![q.key] = {Body(q)}]
    BY <1>3 DEF Effect, Remembers
  <2> QED
    BY <1>3, <1>6, <2>1, <2>2, <2>3, <2>4, <2>5
<1>8. \A k \in Keys : doc.idem[k] # {} => doc'.idem[k] # {}
  BY <1>6, <1>7
<1>9. i = 7 => doc'.idem[q.key] # {}
  BY <1>6, <1>7
<1>10. /\ \A v \in Threads : v # t => thread'[v] = thread[v]
       /\ Active(t)' => /\ r.ok /\ thread'[t].q = q /\ thread'[t].at \in 1..8 /\ thread'[t].at > i
                        /\ i < 7 /\ q.key # None => thread'[t].at <= 7
       /\ ~Active(t)' => ~r.ok \/ Later(q, i) = {} \/ q = None
  BY <1>3, Advancing
<1>11. ASSUME r.ok, i \in 5..6, q.key # None
       PROVE  Active(t)' /\ thread'[t].q.key = q.key /\ thread'[t].at \in 6..7
  <2>1. 7 \in Later(q, i)
    BY <1>11, Places DEF Later, Runs
  <2>2. q # None
    BY <1>3 DEF Active
  <2> QED
    BY <1>3, <1>10, <1>11, <2>1, <2>2
<1>12. ASSUME NEW k \in Keys
       PROVE  \/ ghost'.handled[k] = 0
              \/ /\ ghost'.handled[k] = 1
                 /\ \/ doc'.idem[k] # {}
                    \/ \E u \in Threads : Active(u)' /\ thread'[u].q.key = k /\ thread'[u].at \in 6..7
  <2>1. CASE r.ok /\ i = 5 /\ q.key = k
    BY <1>4, <1>5, <1>6, <1>11, <2>1
  <2>2. CASE ~(r.ok /\ i = 5 /\ q.key = k)
    <3>1. ghost'.handled[k] = ghost.handled[k]
      BY <1>5, <2>2
    <3>2. CASE ghost.handled[k] = 0
      BY <3>1, <3>2
    <3>3. CASE ghost.handled[k] = 1 /\ doc.idem[k] # {}
      BY <1>8, <3>1, <3>3
    <3>4. CASE ghost.handled[k] = 1 /\ q.key = k /\ i = 7
      BY <1>9, <3>1, <3>4
    <3>5. CASE ghost.handled[k] = 1 /\ q.key = k /\ i = 6
      <4>1. r.ok
        BY <1>3, <3>5 DEF Effect
      <4> QED
        BY <1>6, <1>11, <3>1, <3>5, <4>1
    <3> QED
      BY <1>4, <3>2, <3>3, <3>4, <3>5
  <2> QED
    BY <2>1, <2>2
<1>13. ASSUME NEW u \in Threads, Active(u)', thread'[u].q.key # None, thread'[u].at <= 5
       PROVE  ghost'.handled[thread'[u].q.key] = 0
  <2>1. u = t
    BY <1>3, <1>10, <1>13 DEF Active
  <2>2. thread'[u].q = q /\ i \in 1..4 /\ q.key \in Keys
    BY <1>3, <1>6, <1>10, <1>13, <2>1
  <2>3. ghost.handled[q.key] = 0
    BY <1>4, <1>13, <2>2
  <2>4. ghost'.handled[q.key] = 0
    BY <1>5, <2>2, <2>3
  <2> QED
    BY <2>2, <2>4
<1> QED
  BY <1>12, <1>13

LEMMA KeyInvariant == Spec => []KeyInv
<1> USE StoreAssumption
<1>1. Init => KeyInv
  BY DEF Init, KeyInv, Active, Resting
<1>2. StoreInv /\ KeyInv /\ [Next]_vars => KeyInv'
  <2> SUFFICES ASSUME StoreInv, KeyInv, [Next]_vars PROVE KeyInv'
    OBVIOUS
  <2>1. ASSUME NEW t \in Threads, NEW r \in Offered, NEW w \in Named(r.kind), Send(t, r, w)
        PROVE  KeyInv'
    <3>1. SUFFICES ASSUME ~ghost'.overlapped, ~ghost'.crashed PROVE KeyInv'
      BY DEF KeyInv
    <3>2. /\ ~ghost.overlapped /\ ~ghost.crashed /\ doc' = doc /\ ghost'.handled = ghost.handled
          /\ \A u \in Threads : ~Active(u)
          /\ \A u \in Threads : Active(u)' => thread'[u].q \in Requests /\ Fresh(doc, thread'[u].q)
      BY <2>1, <3>1, SendAlone
    <3>3. \A k \in Keys : ghost.handled[k] = 0 \/ (ghost.handled[k] = 1 /\ doc.idem[k] # {})
      BY <3>2 DEF KeyInv
    <3>4. ASSUME NEW u \in Threads, Active(u)', thread'[u].q.key # None
          PROVE  ghost'.handled[thread'[u].q.key] = 0
      <4>1. thread'[u].q.key \in Keys /\ doc.idem[thread'[u].q.key] = {}
        BY <3>2, <3>4 DEF Requests, Fresh
      <4> QED
        BY <3>2, <3>3, <4>1
    <3> QED
      BY <3>2, <3>3, <3>4 DEF KeyInv
  <2>2. ASSUME NEW t \in Threads, Load(t)
        PROVE  KeyInv'
    <3>1. UNCHANGED <<doc, ghost>> /\ \A u \in Threads : thread'[u].q = thread[u].q /\ thread'[u].at = thread[u].at
      BY <2>2 DEF Load, StoreInv, Typed
    <3>2. \A u \in Threads : Active(u)' <=> Active(u)
      BY <3>1 DEF Active
    <3> QED
      BY <3>1, <3>2 DEF KeyInv
  <2>3. ASSUME NEW t \in Threads, Save(t)
        PROVE  KeyInv'
    BY <2>3, SaveKey
  <2>4. CASE Crash
    BY <2>4 DEF Crash, KeyInv, StoreInv, Typed, Ghosts
  <2>5. CASE Tick
    BY <2>5 DEF Tick, KeyInv, Active
  <2>6. CASE UNCHANGED vars
    BY <2>6 DEF vars, KeyInv, Active
  <2> QED
    BY <2>1, <2>2, <2>3, <2>4, <2>5, <2>6 DEF Next
<1> QED
  BY <1>1, <1>2, StoreInvariant, PTL DEF Spec

\* Theorem.  As long as no request overlaps another and no crash falls between a
\* handler and the record of its key, a key runs its handler once: until the record
\* is there, the one request with the key is still on its way to it
\* (__init__.py:5968-5997).
THEOREM KeysRunOnce == Spec => []KeyRunsOnceUncut
<1> USE StoreAssumption
<1>1. KeyInv => KeyRunsOnceUncut
  BY DEF KeyInv, KeyRunsOnceUncut, KeyRunsOnce
<1> QED
  BY <1>1, KeyInvariant, PTL

(* A coin is paid out once. *)
SettledFrom(d, x) ==
  \/ \E g \in d.gifts : g.tx = x /\ g.status = "claimed"
  \/ \E e \in EscrowIds : d.escrows[e].tx = x /\ d.escrows[e].status \in {"released", "refunded"}

\* No request at work on an escrow that is already there.
FirstEscrow ==
  \A t \in Threads : Active(t) /\ thread[t].q.kind = "escrow" /\ thread[t].at <= 5 =>
    doc.escrows[thread[t].q.id].status = "none"

PaidInv ==
  Excused \/ (FirstEscrow /\ \A x \in Txs : ghost.paid[x] = 0 \/ (ghost.paid[x] = 1 /\ SettledFrom(doc, x)))

\* What a save does to decisions, when no requests overlap and no escrow is
\* created anew.
Decided(d, e) ==
  /\ EscrowsStay(d.escrows, e.escrows)
  /\ GiftsStay(d.gifts, e.gifts)

LEMMA SaveDecides ==
  ASSUME StoreAssumption, StoreInv, ~ghost.overlapped, FirstEscrow, NEW t \in Threads, Save(t)
  PROVE  Decided(doc, doc') /\ FirstEscrow'
<1>1. PICK q, i, r :
        /\ q \in Requests /\ i \in 1..8 /\ Runs(q, Pipeline[i]) /\ thread[t].q = q /\ thread[t].at = i /\ Active(t)
        /\ Effect(i, doc, r, q) /\ doc' = r.doc
        /\ Counts(q, i, r) /\ Advances(t, q, i, r)
        /\ \A u \in Threads : Active(u) => u = t
  BY SaveAlone
<1>2. i \in {1, 2, 3, 6, 7, 8} => doc'.gifts = doc.gifts /\ doc'.escrows = doc.escrows
  <2>1. i \in {1, 3, 6, 8} => doc'.gifts = doc.gifts /\ doc'.escrows = doc.escrows
    BY <1>1 DEF Effect, Still
  <2>2. i = 2 => doc'.gifts = doc.gifts /\ doc'.escrows = doc.escrows
    BY <1>1 DEF Effect, Claims
  <2>3. i = 7 => doc'.gifts = doc.gifts /\ doc'.escrows = doc.escrows
    BY <1>1 DEF Effect, Remembers
  <2> QED
    BY <2>1, <2>2, <2>3
<1>3. i \in {4, 5} => Moves(doc, r, q)
  BY <1>1 DEF Effect
<1>4. q.kind = "escrow" /\ i <= 5 => doc.escrows[q.id].status = "none"
  BY <1>1 DEF FirstEscrow
<1>5. i = 4 => q.kind # "escrow"
  BY <1>1, Places DEF Runs
<1>6. Decided(doc, doc')
  <2>1. CASE i \in {1, 2, 3, 6, 7, 8}
    BY <1>2, <2>1, GiftsStaySame DEF Decided, EscrowsStay
  <2>2. CASE i \in {4, 5}
    BY <1>1, <1>3, <1>4, <2>2 DEF Moves, Decided
  <2> QED
    BY <1>1, <2>1, <2>2
<1>7. FirstEscrow'
  <2>1. /\ \A v \in Threads : v # t => thread'[v] = thread[v]
        /\ Active(t)' => thread'[t].q = q /\ thread'[t].at \in 1..8 /\ thread'[t].at > i
    BY <1>1, Advancing
  <2>2. \A u \in Threads : Active(u)' => u = t
    BY <1>1, <2>1 DEF Active
  <2>3. ASSUME Active(t)', q.kind = "escrow", thread'[t].at <= 5
        PROVE  doc'.escrows[q.id].status = "none"
    <3>1. i \in 1..3
      BY <1>1, <1>5, <2>1, <2>3
    <3> QED
      BY <1>2, <1>4, <2>3, <3>1
  <2> QED
    BY <2>1, <2>2, <2>3 DEF FirstEscrow
<1> QED
  BY <1>6, <1>7

\* What a coin settles is decided: neither taken back nor done twice.
LEMMA SettledStays ==
  ASSUME NEW d, NEW e, Decided(d, e), NEW x, SettledFrom(d, x)
  PROVE  SettledFrom(e, x)
<1>1. CASE \E g \in d.gifts : g.tx = x /\ g.status = "claimed"
  BY <1>1 DEF Decided, GiftsStay, SettledFrom
<1>2. CASE \E s \in EscrowIds : d.escrows[s].tx = x /\ d.escrows[s].status \in {"released", "refunded"}
  BY <1>2 DEF Decided, EscrowsStay, SettledFrom, Final
<1> QED
  BY <1>1, <1>2 DEF SettledFrom

LEMMA PaysFirst ==
  ASSUME NEW d, NEW g, NEW n, Sound(d, g, n), NEW e, NEW x \in Txs, \A u, v \in Uses(d, x) : u = v, PaidFrom(d, e, x)
  PROVE  ~SettledFrom(d, x) /\ SettledFrom(e, x)
<1>0. GiftsFine(d.gifts, n)
  BY DEF Sound
<1>1. CASE \E a \in d.gifts, h \in e.gifts :
             /\ a.tx = x /\ a.status = "unclaimed"
             /\ h.n = a.n /\ h.tx = x /\ h.status = "claimed"
  <2>1. PICK a \in d.gifts, h \in e.gifts :
             /\ a.tx = x /\ a.status = "unclaimed"
             /\ h.n = a.n /\ h.tx = x /\ h.status = "claimed"
    BY <1>1
  <2>2. <<"gift", a.n>> \in Uses(d, x)
    BY <2>1 DEF Uses
  <2>3. ASSUME NEW b \in d.gifts, b.tx = x, b.status = "claimed"
        PROVE  FALSE
    <3>1. <<"gift", b.n>> \in Uses(d, x)
      BY <2>3 DEF Uses
    <3>2. b.n = a.n
      BY <2>2, <3>1
    <3> QED
      BY <1>0, <2>1, <2>3, <3>2 DEF GiftsFine, Numbered
  <2>4. ASSUME NEW s \in EscrowIds, d.escrows[s].tx = x
        PROVE  FALSE
    <3>1. <<"escrow", s>> \in Uses(d, x)
      BY <2>4 DEF Uses
    <3> QED
      BY <2>2, <3>1
  <2> QED
    BY <2>1, <2>3, <2>4 DEF SettledFrom
<1>2. CASE \E s \in EscrowIds :
             /\ d.escrows[s].tx = x /\ d.escrows[s].status \notin Final
             /\ e.escrows[s].tx = x /\ e.escrows[s].status \in {"released", "refunded"}
  <2>1. PICK s \in EscrowIds :
             /\ d.escrows[s].tx = x /\ d.escrows[s].status \notin Final
             /\ e.escrows[s].tx = x /\ e.escrows[s].status \in {"released", "refunded"}
    BY <1>2
  <2>2. <<"escrow", s>> \in Uses(d, x)
    BY <2>1 DEF Uses
  <2>3. ASSUME NEW b \in d.gifts, b.tx = x
        PROVE  FALSE
    <3>1. <<"gift", b.n>> \in Uses(d, x)
      BY <2>3 DEF Uses
    <3> QED
      BY <2>2, <3>1
  <2>4. ASSUME NEW z \in EscrowIds, d.escrows[z].tx = x, d.escrows[z].status \in {"released", "refunded"}
        PROVE  FALSE
    <3>1. <<"escrow", z>> \in Uses(d, x)
      BY <2>4 DEF Uses
    <3>2. z = s
      BY <2>2, <3>1
    <3> QED
      BY <2>1, <2>4, <3>2 DEF Final
  <2> QED
    BY <2>1, <2>3, <2>4 DEF SettledFrom
<1> QED
  BY <1>1, <1>2 DEF PaidFrom

LEMMA SavePaid ==
  ASSUME StoreAssumption, StoreInv, FundingInv, PaidInv, NEW t \in Threads, Save(t)
  PROVE  PaidInv'
<1>1. ghost'.overlapped = ghost.overlapped /\ ghost'.recreated = ghost.recreated
  BY SaveFacts DEF Counts
<1>2. SUFFICES ASSUME ~Excused
      PROVE  FirstEscrow' /\ \A x \in Txs : ghost'.paid[x] = 0 \/ (ghost'.paid[x] = 1 /\ SettledFrom(doc', x))
  BY <1>1 DEF PaidInv, Excused, SettledFrom
<1>3. FirstEscrow /\ ~ghost.overlapped /\ \A x \in Txs : ghost.paid[x] = 0 \/ (ghost.paid[x] = 1 /\ SettledFrom(doc, x))
  BY <1>2 DEF PaidInv, Excused
<1>4. Decided(doc, doc') /\ FirstEscrow'
  BY <1>3, SaveDecides
<1>5. ASSUME NEW x \in Txs
      PROVE  ghost'.paid[x] = 0 \/ (ghost'.paid[x] = 1 /\ SettledFrom(doc', x))
  <2>1. PICK q, i, r :
        /\ q \in Requests /\ i \in 1..8 /\ Runs(q, Pipeline[i]) /\ thread[t].q = q /\ thread[t].at = i /\ Active(t)
        /\ Effect(i, doc, r, q) /\ doc' = r.doc
        /\ Counts(q, i, r) /\ Advances(t, q, i, r)
        /\ \A u \in Threads : Active(u) => u = t
    BY <1>3, SaveAlone
  <2>2. ghost'.paid[x] = IF r.paid = x THEN ghost.paid[x] + 1 ELSE ghost.paid[x]
    BY <2>1 DEF Counts
  <2>3. SettledFrom(doc, x) => SettledFrom(doc', x)
    BY <1>4, SettledStays
  <2>4. CASE r.paid # x
    BY <1>3, <2>2, <2>3, <2>4
  <2>5. CASE r.paid = x
    <3>1. x # None
      BY DEF StoreAssumption
    <3>2. PaidFrom(doc, doc', x)
      BY <2>1, <2>5, <3>1 DEF Effect, Moves
    <3>3. Sound(doc, ghost, sent)
      BY DEF StoreInv, DocsSound
    <3>4. \A u, v \in Uses(doc, x) : u = v
      BY <1>3 DEF FundingInv
    <3>5. ~SettledFrom(doc, x) /\ SettledFrom(doc', x)
      BY <3>2, <3>3, <3>4, PaysFirst
    <3> QED
      BY <1>3, <2>2, <2>5, <3>5
  <2> QED
    BY <2>4, <2>5
<1> QED
  BY <1>4, <1>5

LEMMA PaidInvariant == Spec => []PaidInv
<1> USE StoreAssumption
<1>1. Init => PaidInv
  BY DEF Init, PaidInv, FirstEscrow, Active, Resting
<1>2. StoreInv /\ FundingInv /\ PaidInv /\ [Next]_vars => PaidInv'
  <2> SUFFICES ASSUME StoreInv, FundingInv, PaidInv, [Next]_vars PROVE PaidInv'
    OBVIOUS
  <2>1. ASSUME NEW t \in Threads, NEW r \in Offered, NEW w \in Named(r.kind), Send(t, r, w)
        PROVE  PaidInv'
    <3>1. SUFFICES ASSUME ~ghost'.overlapped, ~ghost'.recreated PROVE PaidInv'
      BY DEF PaidInv, Excused
    <3>2. /\ ~ghost.overlapped /\ ~ghost.recreated /\ doc' = doc /\ ghost'.paid = ghost.paid
          /\ \A u \in Threads : Active(u)' /\ thread'[u].q.kind = "escrow" =>
               doc.escrows[thread'[u].q.id].status = "none"
      BY <2>1, <3>1, SendAlone
    <3>3. FirstEscrow'
      BY <3>2 DEF FirstEscrow
    <3>4. \A x \in Txs : SettledFrom(doc, x)' <=> SettledFrom(doc, x)
      BY <3>2 DEF SettledFrom
    <3> QED
      BY <3>2, <3>3, <3>4 DEF PaidInv, Excused
  <2>2. ASSUME NEW t \in Threads, Load(t)
        PROVE  PaidInv'
    <3>1. UNCHANGED <<doc, ghost>> /\ \A u \in Threads : thread'[u].q = thread[u].q /\ thread'[u].at = thread[u].at
      BY <2>2 DEF Load, StoreInv, Typed
    <3>2. \A u \in Threads : Active(u)' <=> Active(u)
      BY <3>1 DEF Active
    <3> QED
      BY <3>1, <3>2 DEF PaidInv, Excused, FirstEscrow, SettledFrom
  <2>3. ASSUME NEW t \in Threads, Save(t)
        PROVE  PaidInv'
    BY <2>3, SavePaid
  <2>4. CASE Crash
    <3>1. doc' = doc /\ ghost'.overlapped = ghost.overlapped /\ ghost'.recreated = ghost.recreated
          /\ ghost'.paid = ghost.paid /\ \A t \in Threads : ~Active(t)'
      BY <2>4 DEF Crash, Active, Resting, StoreInv, Typed, Ghosts
    <3> QED
      BY <3>1 DEF PaidInv, Excused, FirstEscrow, SettledFrom
  <2>5. CASE Tick
    BY <2>5 DEF Tick, PaidInv, Excused, FirstEscrow, SettledFrom, Active
  <2>6. CASE UNCHANGED vars
    BY <2>6 DEF vars, PaidInv, Excused, FirstEscrow, SettledFrom, Active
  <2> QED
    BY <2>1, <2>2, <2>3, <2>4, <2>5, <2>6 DEF Next
<1> QED
  BY <1>1, <1>2, StoreInvariant, FundingInvariant, PTL DEF Spec

\* Theorem.  A coin funds the one record that claimed it and is paid out at most
\* once: every use of a coin is among its claimants, of which there is at most one,
\* and what was paid for left a record that stays (__init__.py:3343-3380, 4482-4566).
THEOREM CoinsAreUsedOnce == Spec => []CoinsUsedOnce
<1> USE StoreAssumption
<1>1. FundingInv /\ PaidInv => CoinsUsedOnce
  BY DEF FundingInv, PaidInv, CoinsUsedOnce, CoinFundsOneRecord, CoinPaidOnce
<1> QED
  BY <1>1, FundingInvariant, PaidInvariant, PTL

\* Theorem.  Requests one at a time neither reopen a settled escrow nor let a
\* rejected payout plan be signed or broadcast (__init__.py:1764-1820, 4518-4520).
THEOREM DecisionsAreKept == Spec => DecisionsStand
<1> USE StoreAssumption
<1>1. StoreInv /\ PaidInv /\ [Next]_vars =>
        [\/ Excused
         \/ /\ \A e \in EscrowIds : doc.escrows[e].status \in {"released", "refunded", "canceled"} =>
                  doc'.escrows[e].status = doc.escrows[e].status
            /\ \A g \in doc.gifts : g.plan = "rejected" =>
                  \E h \in doc'.gifts : h.n = g.n /\ h.plan \in {"rejected", "ready"}]_vars
  <2> SUFFICES ASSUME StoreInv, PaidInv, [Next]_vars, ~Excused
      PROVE  \/ UNCHANGED vars
             \/ /\ \A e \in EscrowIds : doc.escrows[e].status \in {"released", "refunded", "canceled"} =>
                  doc'.escrows[e].status = doc.escrows[e].status
                /\ \A g \in doc.gifts : g.plan = "rejected" =>
                  \E h \in doc'.gifts : h.n = g.n /\ h.plan \in {"rejected", "ready"}
    OBVIOUS
  <2>1. CASE doc' = doc
    BY <2>1
  <2>2. ASSUME NEW t \in Threads, Save(t)
        PROVE  /\ \A e \in EscrowIds : doc.escrows[e].status \in {"released", "refunded", "canceled"} =>
                  doc'.escrows[e].status = doc.escrows[e].status
               /\ \A g \in doc.gifts : g.plan = "rejected" =>
                  \E h \in doc'.gifts : h.n = g.n /\ h.plan \in {"rejected", "ready"}
    <3>1. Decided(doc, doc')
      BY <2>2, SaveDecides DEF PaidInv, Excused
    <3> QED
      BY <3>1 DEF Decided, EscrowsStay, GiftsStay, Final
  <2> QED
    BY <2>1, <2>2 DEF Next, Send, Load, Crash, Tick, vars
<1> QED
  BY <1>1, StoreInvariant, PaidInvariant, PTL DEF Spec, DecisionsStand
=============================================================================
