------------------------------ MODULE AppDeals ------------------------------
(***************************************************************************)
(* The app layer's money and voting records (netcoin/apps): invoices and     *)
(* watched addresses over the node's chain, a developer's spends under a     *)
(* funding policy, a token ledger, polls, votes, proposals that need         *)
(* approvals, and recurring agreements.  A request is one step here: what    *)
(* overlapping requests do to the document is the subject of AppStore.       *)
(***************************************************************************)
EXTENDS Integers, Sequences, FiniteSets, Functions

CONSTANTS
  Payments, Value,       \* transactions to the address, and what they pay
  Invoices, Watches,     \* ids; they share the address
  InvoiceAmounts, Depths, \* amounts asked for and confirmations required
  InvoiceLife,           \* expires_in
  NotifiedCap,           \* how many notified txids a watch keeps
  MaxHeight,             \* bound on the chain
  SpendIds, Players, SpendAmounts, DailyCaps, PlayerCaps, Window,
  MaxSpends,             \* bound on the spends ever made
  Accounts, MaxSupplies, MaxUnits,   \* MaxUnits bounds the token amounts
  Members, Needed,       \* signers, and the approvals a proposal may ask for
  MaxProposals,
  Options, Interval,
  LastDue,               \* end_time of the agreement
  MaxAdvances,           \* bound on its payments and skips
  Horizon                \* bound on the clock of this module

ASSUME DealsAssumption ==
  /\ IsFiniteSet(Payments) /\ Value \in [Payments -> Nat]
  /\ IsFiniteSet(Accounts) /\ IsFiniteSet(Members)
  /\ InvoiceAmounts \subseteq Nat \ {0} /\ Depths \subseteq Nat \ {0} /\ NotifiedCap \in Nat
  /\ SpendAmounts \union DailyCaps \union PlayerCaps \subseteq Nat /\ Window \in Int
  /\ MaxSupplies \subseteq Nat /\ MaxUnits \in Nat
  /\ Needed \subseteq Nat \ {0} /\ Interval \in Nat /\ LastDue \in Int
  /\ {MaxHeight, MaxSpends, MaxProposals, MaxAdvances, Horizon, InvoiceLife} \subseteq Nat

VARIABLES
  today,
  blocks,           \* the main chain above the start: the payments of each block
  seen,             \* mempool_times: per payment the time, or -1
  invoices,         \* per invoice its record
  watches, notices, \* per watch its record, and its events per payment
  regressed,        \* payments a reorganisation took off the chain
  policy, spends, issued, \* issued: every spend ever made, overwritten ones too
  token,
  poll, post, idea,
  team, treasury, circle,
  agreement

payVars == <<blocks, seen, invoices, watches, notices, regressed>>
fundVars == <<policy, spends, issued>>
voteVars == <<poll, post, idea>>
planVars == <<team, treasury, circle>>
dealVars == <<today, payVars, fundVars, token, voteVars, planVars, agreement>>

NoInvoice == [status |-> "none", amount |-> 0, depth |-> 1, at |-> 0, height |-> 0, old |-> {}]
NoWatch == [depth |-> 0, notified |-> {}, anew |-> 0]
NoToken == [made |-> FALSE, supply |-> 0, max |-> 0, mintable |-> FALSE, held |-> [a \in Accounts |-> 0]]
NoPoll == [status |-> "none", start |-> 0, end |-> 0, votes |-> [m \in Members |-> "none"]]
NoProposal == [status |-> "none", needed |-> 1, approvals |-> {}, plans |-> 0]
NoAgreement == [status |-> "none", start |-> 0, due |-> 0, advances |-> 0]

DealsInit ==
  /\ today = 0
  /\ blocks = <<>> /\ seen = [x \in Payments |-> -1]
  /\ invoices = [i \in Invoices |-> NoInvoice]
  /\ watches = [w \in Watches |-> NoWatch] /\ notices = [w \in Watches |-> [x \in Payments |-> 0]]
  /\ regressed = {}
  /\ policy = [daily |-> 0, player |-> 0, paused |-> FALSE] /\ spends = {} /\ issued = {}
  /\ token = NoToken
  /\ poll = NoPoll
  /\ post = [voted |-> [m \in Members |-> 0], up |-> 0, down |-> 0, score |-> 0]
  /\ idea = [voters |-> {}, votes |-> 0]
  /\ team = [needed |-> 1, proposals |-> <<>>] /\ treasury = NoProposal /\ circle = NoProposal
  /\ agreement = NoAgreement

DealsTick ==
  /\ today < Horizon
  /\ today' = today + 1
  /\ UNCHANGED <<payVars, fundVars, token, voteVars, planVars, agreement>>

(* ---------------- the chain the records look at -------------------------- *)
Mined == UNION {blocks[h] : h \in DOMAIN blocks}
HeightOf(x) == CHOOSE h \in DOMAIN blocks : x \in blocks[h]
Waiting == {x \in Payments : seen[x] >= 0}
ChainRest == <<today, invoices, watches, notices, fundVars, token, voteVars, planVars, agreement>>

Broadcast(x) ==
  /\ x \notin Waiting \union Mined
  /\ seen' = [seen EXCEPT ![x] = today]
  /\ UNCHANGED <<blocks, regressed, ChainRest>>

MineBlock(S) ==
  /\ Len(blocks) < MaxHeight
  /\ S \subseteq Waiting
  /\ blocks' = Append(blocks, S)
  /\ seen' = [x \in Payments |-> IF x \in S THEN -1 ELSE seen[x]]
  /\ UNCHANGED <<regressed, ChainRest>>

\* A branch of one block more replaces the last block; what it leaves out
\* waits again.
Reorganise(S) ==
  /\ blocks # <<>> /\ Len(blocks) < MaxHeight
  /\ LET lost == blocks[Len(blocks)] IN
       /\ S \subseteq Waiting \union lost
       /\ blocks' = Append(Append(SubSeq(blocks, 1, Len(blocks) - 1), S), {})
       /\ seen' = [x \in Payments |-> IF x \in S THEN -1 ELSE IF x \in lost THEN today ELSE seen[x]]
       /\ regressed' = regressed \union lost
  /\ UNCHANGED ChainRest

(* ---------------- invoices and watched addresses ------------------------- *)
Total(S) == SumFunctionOnSet(Value, S)
Depth(x) == Len(blocks) - HeightOf(x) + 1

\* Faulty variant: every payment to the address counts.
FaultyCounting(inv) == Mined \union Waiting

\* The payments that count for an invoice: mined above the height it was
\* created at, or waiting since its creation.
Counting(inv) ==
  {x \in Mined : HeightOf(x) > inv.height} \union {x \in Waiting : seen[x] >= inv.at}

InvoiceStatus(inv) ==
  LET all == Total(Counting(inv))
      deep == Total({x \in Counting(inv) \intersect Mined : Depth(x) >= inv.depth})
  IN  CASE deep >= inv.amount -> "confirmed"
        [] deep < inv.amount /\ all >= inv.amount -> "pending"
        [] all > 0 /\ all < inv.amount -> "underpaid"
        [] all = 0 -> IF today > inv.at + InvoiceLife THEN "expired" ELSE "unpaid"

\* invoice_status stores what it computed (and queues an event for a change: see
\* Webhooks).
Polled(i, inv) ==
  /\ invoices' = [invoices EXCEPT ![i] = [inv EXCEPT !.status = InvoiceStatus(inv)]]
  /\ UNCHANGED <<today, blocks, seen, watches, notices, regressed, fundVars, token, voteVars, planVars, agreement>>

PollInvoice(i) == invoices[i].status # "none" /\ Polled(i, invoices[i])

\* create_invoice writes over a record of the same id and asks for its status.
CreateInvoice(i, amount, depth) ==
  Polled(i, [status |-> "unpaid", amount |-> amount, depth |-> depth, at |-> today,
             height |-> Len(blocks), old |-> Mined])

RegisterWatch(w, depth) ==
  /\ watches[w].anew < 2
  /\ watches' = [watches EXCEPT ![w] = [depth |-> depth, notified |-> {}, anew |-> @.anew + 1]]
  /\ UNCHANGED <<today, blocks, seen, invoices, notices, regressed, fundVars, token, voteVars, planVars, agreement>>

\* list(set)[-cap:]: which ones fall out is up to the order of a set.
Remembered(notified) ==
  IF Cardinality(notified) <= NotifiedCap THEN {notified}
  ELSE {S \in SUBSET notified : Cardinality(S) = NotifiedCap}

ScanDeposits(w) ==
  LET ready == {x \in Mined : Depth(x) >= watches[w].depth}
      new == ready \ watches[w].notified
  IN  /\ watches[w].depth > 0
      /\ \A x \in new : notices[w][x] < 2
      /\ notices' = [notices EXCEPT ![w] = [x \in Payments |-> IF x \in new THEN @[x] + 1 ELSE @[x]]]
      /\ \E kept \in Remembered(watches[w].notified \union new) :
           watches' = [watches EXCEPT ![w].notified = IF new = {} THEN @ ELSE kept]
      /\ UNCHANGED <<today, blocks, seen, invoices, regressed, fundVars, token, voteVars, planVars, agreement>>

ChainNext ==
  \/ \E x \in Payments : Broadcast(x)
  \/ \E S \in SUBSET Payments : MineBlock(S) \/ Reorganise(S)
InvoicesNext == \E i \in Invoices : PollInvoice(i) \/ \E a \in InvoiceAmounts, d \in Depths : CreateInvoice(i, a, d)
WatchesNext == \E w \in Watches : ScanDeposits(w) \/ \E d \in Depths : RegisterWatch(w, d)

(* ---------------- a developer's spends ------------------------------------ *)
FundRest == <<today, payVars, token, voteVars, planVars, agreement>>
Worth(S) == SumFunctionOnSet([r \in S |-> r.amount], S)
Recent(S, now) == {r \in S : r.at >= now - Window}
Of(S, player) == {r \in S : r.player = player}

SetPolicy(daily, player, paused) ==
  /\ policy' = [daily |-> daily, player |-> player, paused |-> paused]
  /\ UNCHANGED <<spends, issued, FundRest>>

\* _enforce_developer_funding_policy; 0 is no cap.
Allowed(player, amount) ==
  LET recent == Recent(spends, today) IN
  /\ ~policy.paused
  /\ policy.daily = 0 \/ Worth(recent) + amount <= policy.daily
  /\ policy.player = 0 \/ Worth(Of(recent, player)) + amount <= policy.player

\* Faulty variant: a batch starts its sums at nothing.
FaultyBatchAllowed(p, a, q, b) ==
  /\ ~policy.paused
  /\ policy.daily = 0 \/ a + b <= policy.daily
  /\ policy.player = 0 \/ (a <= policy.player /\ b + (IF p = q THEN a ELSE 0) <= policy.player)

\* The rows of a batch are added up before any of them is written.
BatchAllowed(p, a, q, b) ==
  LET recent == Recent(spends, today)
      Spent(player) == Worth(Of(recent, player))
  IN  /\ ~policy.paused
      /\ policy.daily = 0 \/ Worth(recent) + a + b <= policy.daily
      /\ policy.player = 0 \/ (/\ Spent(p) + a <= policy.player
                               /\ Spent(q) + b + (IF p = q THEN a ELSE 0) <= policy.player)

\* Every record carries the caps it was made under and its place in the order.
Spend(bucket, id, player, amount, n) ==
  [bucket |-> bucket, id |-> id, player |-> player, amount |-> amount, at |-> today, n |-> n,
   daily |-> policy.daily, cap |-> policy.player]
Written(S, new) == {r \in S : r.bucket # new.bucket \/ r.id # new.id} \union {new}

Record(bucket, id, player, amount) ==
  LET new == Spend(bucket, id, player, amount, Cardinality(issued) + 1) IN
  /\ Cardinality(issued) < MaxSpends
  /\ Allowed(player, amount)
  /\ spends' = Written(spends, new)
  /\ issued' = issued \union {new}
  /\ UNCHANGED <<policy, FundRest>>

CreateReward(id, player, amount) == Record("rewards", <<0, id>>, player, amount)
CreateWithdrawal(id, player, amount) == Record("withdrawals", <<0, id>>, player, amount)

CreateBatch(p, a, q, b) ==
  LET n == Cardinality(issued)
      rows == {Spend("rewards", <<n + 1, 1>>, p, a, n + 1), Spend("rewards", <<n + 1, 2>>, q, b, n + 2)}
  IN  /\ n + 2 <= MaxSpends
      /\ BatchAllowed(p, a, q, b)
      /\ spends' = spends \union rows
      /\ issued' = issued \union rows
      /\ UNCHANGED <<policy, FundRest>>

FundingNext ==
  \/ \E d \in DailyCaps, c \in PlayerCaps, paused \in BOOLEAN : SetPolicy(d, c, paused)
  \/ \E id \in SpendIds, p \in Players, a \in SpendAmounts : CreateReward(id, p, a) \/ CreateWithdrawal(id, p, a)
  \/ \E p, q \in Players, a, b \in SpendAmounts : CreateBatch(p, a, q, b)

(* ---------------- tokens --------------------------------------------------- *)
TokenRest == <<today, payVars, fundVars, voteVars, planVars, agreement>>

CreateToken(creator, units, max, mintable) ==
  /\ ~token.made
  /\ max = 0 \/ units <= max
  /\ token' = [made |-> TRUE, supply |-> units, max |-> max, mintable |-> mintable,
               held |-> [NoToken.held EXCEPT ![creator] = units]]
  /\ UNCHANGED TokenRest

MintToken(to, units) ==
  /\ token.made /\ token.mintable
  /\ token.max = 0 \/ token.supply + units <= token.max
  /\ token.supply + units <= MaxUnits
  /\ token' = [token EXCEPT !.supply = @ + units, !.held[to] = @ + units]
  /\ UNCHANGED TokenRest

TransferToken(from, to, units) ==
  /\ token.made /\ from # to
  /\ units <= token.held[from]
  /\ token' = [token EXCEPT !.held[from] = @ - units, !.held[to] = @ + units]
  /\ UNCHANGED TokenRest

\* Faulty variant: burnt units stay in the supply.
FaultyBurnt(t, a, units) == [t EXCEPT !.held[a] = @ - units]

Burnt(t, a, units) == [t EXCEPT !.held[a] = @ - units, !.supply = @ - units]

BurnToken(a, units) ==
  /\ token.made /\ units <= token.held[a]
  /\ token' = Burnt(token, a, units)
  /\ UNCHANGED TokenRest

TokenNext ==
  \/ \E a \in Accounts, u \in 0..MaxUnits, m \in MaxSupplies, f \in BOOLEAN : CreateToken(a, u, m, f)
  \/ \E a \in Accounts, u \in 1..MaxUnits : MintToken(a, u) \/ BurnToken(a, u) \/ \E b \in Accounts : TransferToken(a, b, u)

(* ---------------- polls and votes ------------------------------------------- *)
VoteRest == <<today, payVars, fundVars, token, planVars, agreement>>

CreatePoll(start, end) ==
  /\ poll.status = "none"
  /\ poll' = [NoPoll EXCEPT !.status = "open", !.start = start, !.end = end]
  /\ UNCHANGED <<post, idea, VoteRest>>

\* Faulty variant: only the end of the poll refuses a vote.
FaultyOver(p) == today > p.end

\* A vote that comes too late closes the poll, whatever its status was.
Over(p) == p.status # "open" \/ today > p.end

CastVote(m, option) ==
  /\ poll.status # "none"
  /\ IF Over(poll) THEN poll' = [poll EXCEPT !.status = "closed"]
     ELSE today >= poll.start /\ poll' = [poll EXCEPT !.votes[m] = option]
  /\ UNCHANGED <<post, idea, VoteRest>>

ClosePoll(status) ==
  /\ poll.status # "none"
  /\ poll' = [poll EXCEPT !.status = status]
  /\ UNCHANGED <<post, idea, VoteRest>>

\* A second vote of the same voter moves from one counter to the other.
VotePost(m, delta) ==
  LET before == post.voted[m]
      Moved(count, side) == count + (IF delta = side THEN 1 ELSE 0) - (IF before = side THEN 1 ELSE 0)
  IN  /\ before # delta
      /\ post' = [voted |-> [post.voted EXCEPT ![m] = delta], up |-> Moved(post.up, 1),
                  down |-> Moved(post.down, -1), score |-> post.score + delta - before]
      /\ UNCHANGED <<poll, idea, VoteRest>>

VoteImprovement(m) ==
  /\ m \notin idea.voters
  /\ idea' = [voters |-> idea.voters \union {m}, votes |-> idea.votes + 1]
  /\ UNCHANGED <<poll, post, VoteRest>>

VotesNext ==
  \/ \E s, e \in 0..Horizon : CreatePoll(s, e)
  \/ \E m \in Members : VoteImprovement(m) \/ (\E o \in Options : CastVote(m, o)) \/ (\E d \in {-1, 1} : VotePost(m, d))
  \/ \E status \in {"closed", "canceled"} : ClosePoll(status)

(* ---------------- proposals ------------------------------------------------- *)
PlanRest == <<today, payVars, fundVars, token, voteVars, agreement>>

\* A team wallet that is created again has no proposals.
CreateTeam(needed) ==
  /\ team' = [needed |-> needed, proposals |-> <<>>]
  /\ UNCHANGED <<treasury, circle, PlanRest>>

ProposeTeam ==
  /\ Len(team.proposals) < MaxProposals
  /\ team' = [team EXCEPT !.proposals = Append(@, [approvals |-> {}, status |-> "pending"])]
  /\ UNCHANGED <<treasury, circle, PlanRest>>

ApproveTeam(k, m) ==
  LET approvals == team.proposals[k].approvals \union {m}
      status == IF Cardinality(approvals) >= team.needed THEN "approved" ELSE team.proposals[k].status
  IN  /\ team' = [team EXCEPT !.proposals[k] = [approvals |-> approvals, status |-> status]]
      /\ UNCHANGED <<treasury, circle, PlanRest>>

ProposeTreasury(needed) ==
  /\ treasury' = [status |-> "pending", needed |-> needed, approvals |-> {}, plans |-> 0]
  /\ UNCHANGED <<team, circle, PlanRest>>

\* The plan is made with the approval that completes the count.
ApproveTreasury(m) ==
  LET approvals == treasury.approvals \union {m}
      ready == Cardinality(approvals) >= treasury.needed /\ treasury.status = "pending"
  IN  /\ treasury.status # "none"
      /\ treasury' = [treasury EXCEPT !.approvals = approvals,
                                      !.status = IF ready THEN "ready" ELSE @,
                                      !.plans = IF ready THEN @ + 1 ELSE @]
      /\ UNCHANGED <<team, circle, PlanRest>>

ProposeCircle(m) ==
  /\ circle.status = "none"
  /\ circle' = [NoProposal EXCEPT !.status = "pending", !.needed = Cardinality(Members), !.approvals = {m}]
  /\ UNCHANGED <<team, treasury, PlanRest>>

JoinCircle(m) ==
  LET members == circle.approvals \union {m}
      active == circle.status = "pending" /\ Cardinality(members) >= circle.needed
  IN  /\ circle.status # "none"
      /\ circle' = [circle EXCEPT !.approvals = members, !.status = IF active THEN "ready" ELSE @]
      /\ UNCHANGED <<team, treasury, PlanRest>>

PlansNext ==
  \/ \E n \in Needed : CreateTeam(n) \/ ProposeTreasury(n)
  \/ ProposeTeam
  \/ \E m \in Members : ApproveTreasury(m) \/ ProposeCircle(m) \/ JoinCircle(m)
  \/ \E m \in Members : \E k \in DOMAIN team.proposals : ApproveTeam(k, m)

(* ---------------- recurring agreements -------------------------------------- *)
AgreementRest == <<today, payVars, fundVars, token, voteVars, planVars>>

CreateAgreement(start) ==
  /\ agreement' = [status |-> "active", start |-> start, due |-> start, advances |-> 0]
  /\ UNCHANGED AgreementRest

\* Pausing, resuming and canceling look at no status.
SetAgreement(status) ==
  /\ agreement.status # "none"
  /\ agreement' = [agreement EXCEPT !.status = status]
  /\ UNCHANGED AgreementRest

\* A skip moves the due date, a payment may also complete the agreement.
Advance(paid) ==
  LET due == agreement.due + Interval IN
  /\ agreement.status # "none" /\ agreement.advances < MaxAdvances
  /\ agreement' = [agreement EXCEPT !.due = due, !.advances = @ + 1,
                                    !.status = IF paid /\ due > LastDue THEN "completed" ELSE @]
  /\ UNCHANGED AgreementRest

AgreementNext ==
  \/ \E s \in 0..Horizon : CreateAgreement(s)
  \/ \E status \in {"active", "paused", "canceled"} : SetAgreement(status)
  \/ \E paid \in BOOLEAN : Advance(paid)

DealsNext ==
  \/ DealsTick \/ ChainNext \/ InvoicesNext \/ WatchesNext \/ FundingNext
  \/ TokenNext \/ VotesNext \/ PlansNext \/ AgreementNext

DealsSpec == DealsInit /\ [][DealsNext]_dealVars

(* ---------------- properties -------------------------------------------------- *)
\* Statuses are those of the code and clocks stay in their range
\* (DEFAULT_APP_STATE, __init__.py:62-165).
DealsTypeOK ==
  /\ today \in 0..Horizon
  /\ \A i \in Invoices : invoices[i].status \in {"none", "unpaid", "expired", "underpaid", "pending", "confirmed"}
  /\ poll.status \in {"none", "open", "closed", "canceled"}
  /\ agreement.status \in {"none", "active", "paused", "canceled", "completed"}
  /\ token.supply \in 0..MaxUnits /\ \A a \in Accounts : token.held[a] >= 0

\* The holders of a token hold its supply, which stays within its maximum.
TokenBacked ==
  /\ token.supply = SumFunctionOnSet(token.held, Accounts)
  /\ token.max > 0 => token.supply <= token.max

\* The counters of a post and an idea are those of their voters, however often
\* a vote was changed.
VotesCounted ==
  LET Voters(side) == Cardinality({m \in Members : post.voted[m] = side}) IN
  /\ post.up = Voters(1) /\ post.down = Voters(-1) /\ post.score = post.up - post.down
  /\ idea.votes = Cardinality(idea.voters)

\* What counts as approved has the approvals it needs, from as many members; a
\* treasury proposal has one payout plan from then on and none before.
ApprovedByEnough ==
  /\ \A k \in DOMAIN team.proposals :
       team.proposals[k].status = "approved" <=> Cardinality(team.proposals[k].approvals) >= team.needed
  /\ treasury.plans = IF treasury.status = "ready" THEN 1 ELSE 0
  /\ \A p \in {treasury, circle} : p.status = "ready" => Cardinality(p.approvals) >= p.needed

\* An agreement is due as many intervals after its start as it advanced, and is
\* completed only past its end.
DueOnSchedule ==
  /\ agreement.due = agreement.start + Interval * agreement.advances
  /\ agreement.status = "completed" => agreement.due > LastDue

\* Every saved document adds up (__init__.py:2622-2791, 3101-3131, 3326-3341,
\* 3532-3582, 3866-3932, 4198-4279, 5042-5098).
DealsAddUp == DealsTypeOK /\ TokenBacked /\ VotesCounted /\ ApprovedByEnough /\ DueOnSchedule

\* What the records show a developer to have spent in the window of a spend,
\* that spend included, is within the caps it was made under, whether it came
\* as a reward, a withdrawal or a row of a batch (__init__.py:1939-1971, 2400-2431).
SpendWithinCap ==
  \A s \in spends :
    LET before == {r \in Recent(spends, s.at) : r.n <= s.n} IN
    /\ s.daily > 0 => Worth(before) <= s.daily
    /\ s.cap > 0 => Worth(Of(before, s.player)) <= s.cap

\* ... and so is what was ever planned ("derived from actual reward/withdrawal
\* records, not a separate drift-prone counter", feature_catalog.py:715).
PlannedWithinCap ==
  \A s \in issued : s.daily > 0 => Worth({r \in Recent(issued, s.at) : r.n <= s.n}) <= s.daily

\* A confirmed invoice is covered by payments that were not on the chain when it
\* was created, or that a reorganisation put there anew (__init__.py:784-792).
PaidAnew(moved) ==
  \A i \in Invoices : invoices[i].status = "confirmed" =>
    Total((Mined \union regressed) \ (invoices[i].old \ moved)) >= invoices[i].amount
\* ... which is the exception to what the comment there says.
OnlyLaterPayments == PaidAnew({})

\* A watch announces a deposit once, through reorganisations too, unless it was
\* registered again or had more deposits than it remembers (__init__.py:2263-2330).
Announced(w) == {x \in Payments : notices[w][x] > 0}
NeverRefires == \A w \in Watches : watches[w].anew > 1 \/ \A x \in Payments : notices[w][x] <= 1
NotifiedOnce ==
  \A w \in Watches :
    \/ watches[w].anew > 1 \/ Cardinality(Announced(w)) > NotifiedCap
    \/ \A x \in Payments : notices[w][x] <= 1

\* Invoices are paid anew, deposits are announced once.
ReceiptsExact == PaidAnew(regressed) /\ NotifiedOnce

\* Votes count only in the time of an open poll, and a poll that ended does not
\* open again (__init__.py:4615-4652, 4669-4687); an approval is not taken back
\* unless the proposal is created anew (3911-3932, 5069-5098).
DecidedStays ==
  [][/\ (poll.status \in {"closed", "canceled"} \/ today \notin poll.start..poll.end) => poll'.votes = poll.votes
     /\ poll.status \in {"closed", "canceled"} => poll'.status \in {"closed", "canceled"}
     /\ treasury.status = "ready" => treasury'.status = "ready" \/ treasury'.approvals = {}
     /\ circle.status = "ready" => circle'.status = "ready"]_dealVars
=============================================================================
