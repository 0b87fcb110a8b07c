------------------------------ MODULE AppStore ------------------------------
(***************************************************************************)
(* The app layer's single document (netcoin/apps) and the write requests    *)
(* that change it.  A request is a pipeline of segments; each loads the     *)
(* whole document, changes its copy and saves the copy back.  The lock is   *)
(* held inside load and inside save, never across the two, and the server   *)
(* runs every request in a thread of its own, so a segment is two steps.    *)
(* Modelled requests: exchange deposits and withdrawals, gifts, bounties,   *)
(* 2-of-3 escrows and the review of payout plans.                           *)
(***************************************************************************)
EXTENDS Integers, Sequences, FiniteSets, Functions

CONSTANTS
  Threads,
  Keys,             \* idempotency keys
  Customers,
  Codes,            \* of gifts
  Actors,           \* wallets, approvers and operators
  Txs,              \* confirmed transactions that pay the address asked for
  Amount,           \* [Txs -> what they pay]
  EscrowIds, BountyIds,
  Menus,            \* loads: requests come one at a time from first, then from the set requests
  Expiry,           \* expires_in of gifts, funding_expiry_seconds of escrows
  MaxTime, None

Kinds == {"deposit", "withdraw", "approve", "gift", "claimgift", "escrow", "status", "act", "bounty",
          "award", "review"}
Tiers == {"hot", "cold"}

\* What a request says.  Its number n is given when it is sent; w is the number
\* of the withdrawal or the gift it names.
Requests ==
  [kind : Kinds, id : Customers \union Codes \union EscrowIds \union BountyIds, actor : Actors,
   key : Keys \union {None}, nonce : Nat, tx : Txs \union {None}, amount : Nat, tier : Tiers,
   action : {"", "released", "refunded", "dispute", "cancel", "approve", "reject", "signed", "broadcast"},
   escrow : EscrowIds \union {None}, n : Nat, w : Nat]
WellFormed(r) ==
  /\ r.kind \in {"deposit", "withdraw"} => r.id \in Customers
  /\ r.kind = "deposit" => r.tx \in Txs
  /\ r.kind \in {"gift", "claimgift"} => r.id \in Codes
  /\ r.kind \in {"escrow", "status", "act"} => r.id \in EscrowIds
  /\ r.kind \in {"bounty", "award"} => r.id \in BountyIds
  /\ r.kind = "act" => r.action \in {"released", "refunded", "dispute", "cancel"}
  /\ r.kind = "review" => r.action \in {"approve", "reject", "signed", "broadcast"}

ASSUME StoreAssumption ==
  /\ IsFiniteSet(Customers) /\ Amount \in [Txs -> Nat]
  /\ None \notin Txs \union Keys \union EscrowIds
  /\ Expiry \in Nat /\ MaxTime \in Nat
  /\ \A m \in Menus :
       /\ m.sends \in Nat /\ m.threads \in Nat
       /\ m.first \in Seq(Requests) /\ m.requests \subseteq Requests
       /\ \A r \in m.requests : WellFormed(r)
       /\ \A i \in DOMAIN m.first : WellFormed(m.first[i])

VARIABLES
  clock,
  menu,             \* the load of this behaviour
  sent,             \* requests sent so far: ids are numbered in that order
  doc,              \* the document on disk
  thread,           \* per thread the request it runs and its place in it
  ghost             \* what the properties count and excuse

vars == <<clock, menu, sent, doc, thread, ghost>>

NoEscrow == [status |-> "none", tx |-> None, approvals |-> {}, until |-> 0]
NoBounty == [status |-> "none", escrow |-> None, winner |-> None]

EmptyDoc ==
  [idem |-> [k \in Keys |-> {}], nonces |-> [a \in Actors |-> 0],
   claims |-> [x \in Txs |-> {}],
   deposits |-> {}, custody |-> [tier \in Tiers |-> 0],
   balances |-> [c \in Customers |-> 0], owners |-> [c \in Customers |-> None],
   withdrawals |-> {}, approvals |-> {},
   gifts |-> {}, escrows |-> [e \in EscrowIds |-> NoEscrow],
   bounties |-> [b \in BountyIds |-> NoBounty],
   audit |-> <<>>]

(* ---------------- what a segment does to the copy it loaded ------------- *)
\* ok: the request goes on; save: the copy is written; paid: the coin a new
\* payout plan or settlement spends.
Fail(d) == [ok |-> FALSE, save |-> FALSE, doc |-> d, paid |-> None]
FailSaving(d) == [Fail(d) EXCEPT !.save = TRUE]
Done(d) == [ok |-> TRUE, save |-> TRUE, doc |-> d, paid |-> None]
Pay(d, tx) == [Done(d) EXCEPT !.paid = tx]
Pass(d) == [Done(d) EXCEPT !.save = FALSE]

\* What is hashed with an idempotency key: the request, whenever it is sent.
Body(q) == [q EXCEPT !.n = 0]

\* Faulty variant: a repeated key runs again when its body is another one.
FaultyFresh(d, q) == q.key = None \/ Body(q) \notin d.idem[q.key]

\* The idempotency key of a request; a replay answers from the record, another
\* body is refused: either way the request changes nothing.
Fresh(d, q) == q.key = None \/ d.idem[q.key] = {}

Nonce(d, q) ==
  IF q.nonce <= d.nonces[q.actor] THEN Fail(d) ELSE Done([d EXCEPT !.nonces[q.actor] = q.nonce])

Claimant(q) == IF q.kind = "escrow" THEN <<"escrow", q.id>> ELSE <<q.kind, q.n>>

\* Faulty variant: a coin that funds something else is claimed again.
FaultyClaim(d, q) ==
  IF q.amount > Amount[q.tx] THEN Fail(d) ELSE Done([d EXCEPT !.claims[q.tx] = {Claimant(q)}])

\* verify_chain_funding: the coin is claimed before the record it funds exists.
Claim(d, q) ==
  IF q.amount > Amount[q.tx] \/ ~(d.claims[q.tx] \subseteq {Claimant(q)})
  THEN Fail(d) ELSE Done([d EXCEPT !.claims[q.tx] = {Claimant(q)}])

Deposit(d, q) ==
  Done([d EXCEPT !.deposits = @ \union {[n |-> q.n, customer |-> q.id, amount |-> q.amount, tx |-> q.tx]},
                 !.custody[q.tier] = @ + q.amount,
                 !.balances[q.id] = @ + q.amount])

\* The first signed request owns the customer id.
RequestWithdrawal(d, q) ==
  IF d.owners[q.id] \notin {None, q.actor} \/ q.amount > d.balances[q.id] THEN Fail(d)
  ELSE Done([d EXCEPT !.owners[q.id] = q.actor,
                      !.withdrawals = @ \union {[n |-> q.n, customer |-> q.id, amount |-> q.amount,
                                                 status |-> "requested"]}])

\* Faulty variant: counts approvals, not approvers.
FaultySigners(approvals, w) == {a \in approvals : a.w = w}

Signers(approvals, w) == {a.approver : a \in {b \in approvals : b.w = w}}
Released(d, w) ==
  [d EXCEPT !.balances[w.customer] = @ - w.amount, !.custody["hot"] = @ - w.amount,
            !.withdrawals = (@ \ {w}) \union {[w EXCEPT !.status = "released"]}]

\* A second approver releases; what the books cannot cover raises, and the
\* approval it came with is lost with the copy.
Approve(d, q) ==
  LET approvals == d.approvals \union {[n |-> q.n, w |-> q.w, approver |-> q.actor]}
      due == {w \in d.withdrawals : w.n = q.w /\ w.status \in {"requested", "approved"}}
      w == CHOOSE x \in due : TRUE
      approved == [d EXCEPT !.approvals = approvals]
  IN  IF due = {} THEN Fail(d)
      ELSE IF Cardinality(Signers(approvals, q.w)) < 2
      THEN Done([approved EXCEPT !.withdrawals = (@ \ {w}) \union {[w EXCEPT !.status = "approved"]}])
      ELSE IF w.amount > d.balances[w.customer] \/ w.amount > d.custody["hot"] THEN Fail(d)
      ELSE Done(Released(approved, w))

CreateGift(d, q) ==
  Done([d EXCEPT !.gifts = @ \union {[n |-> q.n, code |-> q.id, tx |-> q.tx, status |-> "unclaimed",
                                      until |-> clock + Expiry, plan |-> "none"]}])

\* The first gift with the code decides, whatever becomes of the others.
ClaimGift(d, q) ==
  LET same == {g \in d.gifts : g.code = q.id}
      g == CHOOSE x \in same : \A y \in same : x.n <= y.n
      With(status, plan) == [d EXCEPT !.gifts = (@ \ {g}) \union {[g EXCEPT !.status = status, !.plan = plan]}]
  IN  IF same = {} \/ g.status # "unclaimed" \/ g.tx = None THEN Fail(d)
      ELSE IF clock > g.until THEN FailSaving(With("expired", "none"))
      ELSE Pay(With("claimed", "pending"), g.tx)

\* create_escrow looks at no record of the same id: it is also how a funding
\* transaction gets attached.
CreateEscrow(d, q) ==
  Done([d EXCEPT !.escrows[q.id] = [status |-> IF q.tx = None THEN "funding_ready" ELSE "funded",
                                    tx |-> q.tx, approvals |-> {}, until |-> clock + Expiry]])

\* _expire_escrow_if_stale, as the status page runs it.
Stale(d, e) == d.escrows[e].status = "funding_ready" /\ clock >= d.escrows[e].until
Canceled(d, e) == [d EXCEPT !.escrows[e].status = "canceled"]
EscrowStatus(d, q) == IF Stale(d, q.id) THEN Done(Canceled(d, q.id)) ELSE Fail(d)

Final == {"released", "refunded", "canceled"}
Backers(e, action) == {a.by : a \in {b \in e.approvals : b.action = action}}

EscrowAction(d, q) ==
  LET e == d.escrows[q.id]
      backed == [e EXCEPT !.approvals = @ \union {[action |-> q.action, by |-> q.actor]}]
      To(rec) == [d EXCEPT !.escrows[q.id] = rec]
  IN  CASE e.status \in Final \union {"none"} -> Fail(d)
        [] q.action = "dispute" ->
             IF e.status \in {"funded", "pending"} THEN Done(To([e EXCEPT !.status = "disputed"])) ELSE Fail(d)
        [] q.action = "cancel" ->
             IF e.status = "funding_ready" THEN Done(To([e EXCEPT !.status = "canceled"])) ELSE Fail(d)
        [] q.action \in {"released", "refunded"} ->
             IF e.status \notin {"funded", "disputed", "pending"} THEN Fail(d)
             ELSE IF Cardinality(Backers(backed, q.action)) >= 2
             THEN Pay(To([backed EXCEPT !.status = q.action]), e.tx)
             ELSE Done(To([backed EXCEPT !.status = "pending"]))

\* create_bounty looks three times: for the bounty, for the escrow that backs it
\* and to write.
BountyExists(d, q) == IF d.bounties[q.id].status # "none" THEN Fail(d) ELSE Pass(d)
CheckBounty(d, q) ==
  IF Stale(d, q.escrow) THEN FailSaving(Canceled(d, q.escrow))
  ELSE IF d.escrows[q.escrow].status # "funded" \/ \E b \in BountyIds : d.bounties[b].escrow = q.escrow
  THEN Fail(d) ELSE Pass(d)
CreateBounty(d, q) == Done([d EXCEPT !.bounties[q.id] = [status |-> "open", escrow |-> q.escrow, winner |-> None]])

\* The award settles from the escrow's coin and closes the escrow.
AwardBounty(d, q) ==
  LET e == d.bounties[q.id].escrow
      awarded == [d EXCEPT !.bounties[q.id].status = "awarded", !.bounties[q.id].winner = q.actor]
  IN  IF d.bounties[q.id].status # "open" THEN Fail(d)
      ELSE IF e = None THEN Done(awarded)
      ELSE IF d.escrows[e].status \in Final \union {"none"} THEN Fail(d)
      ELSE Pay([awarded EXCEPT !.escrows[e].status = "released"], d.escrows[e].tx)

\* review_payout_plan, record_signed_payout and record_broadcasted_payout on
\* the plan of a claimed gift; what is rejected is neither signed nor broadcast.
PlanAfter(action) ==
  CASE action = "approve" -> "ready" [] action = "reject" -> "rejected" [] OTHER -> action

ReviewPlan(d, q) ==
  LET planned == {g \in d.gifts : g.n = q.w /\ g.plan # "none"}
      g == CHOOSE x \in planned : TRUE
  IN  IF planned = {} \/ (g.plan = "rejected" /\ q.action \in {"signed", "broadcast"}) THEN Fail(d)
      ELSE Done([d EXCEPT !.gifts = (@ \ {g}) \union {[g EXCEPT !.plan = PlanAfter(q.action)]}])

Remember(d, q) == Done([d EXCEPT !.idem[q.key] = {Body(q)}])

\* append_immutable_audit: the entry carries the hash of the one before it.
Audited(log, n) == Append(log, [n |-> n, previous |-> IF log = <<>> THEN 0 ELSE log[Len(log)].n])
Audit(d, q) == Done([d EXCEPT !.audit = Audited(@, q.n)])

\* What the route calls between the lookup and the store of the key.
Handler(d, q) ==
  CASE q.kind = "deposit" -> Deposit(d, q)
    [] q.kind = "withdraw" -> RequestWithdrawal(d, q)
    [] q.kind = "approve" -> Approve(d, q)
    [] q.kind = "gift" -> CreateGift(d, q)
    [] q.kind = "claimgift" -> ClaimGift(d, q)
    [] q.kind = "escrow" -> CreateEscrow(d, q)
    [] q.kind = "status" -> EscrowStatus(d, q)
    [] q.kind = "act" -> EscrowAction(d, q)
    [] q.kind = "bounty" -> CreateBounty(d, q)
    [] q.kind = "award" -> AwardBounty(d, q)
    [] q.kind = "review" -> ReviewPlan(d, q)

\* The segments of a request after the idempotency lookup, in order; note is
\* audit(), which appends to the admin events only.
Pipeline == <<"nonce", "claim", "exists", "check", "handle", "note", "remember", "audit">>
Handling == 5       \* the handler's place

Runs(q, stage) ==
  \/ stage = "nonce" /\ q.nonce > 0
  \/ stage = "claim" /\ q.kind \in {"deposit", "gift", "escrow"} /\ q.tx # None
  \/ stage = "exists" /\ q.kind = "bounty"
  \/ stage = "check" /\ q.kind = "bounty" /\ q.escrow # None
  \/ stage = "handle"
  \/ stage \in {"note", "audit"} /\ q.kind = "review"
  \/ stage = "remember" /\ q.key # None

Segment(stage, d, q) ==
  CASE stage = "nonce" -> Nonce(d, q)
    [] stage = "claim" -> Claim(d, q)
    [] stage = "exists" -> BountyExists(d, q)
    [] stage = "check" -> CheckBounty(d, q)
    [] stage = "handle" -> Handler(d, q)
    [] stage = "note" -> Done(d)
    [] stage = "remember" -> Remember(d, q)
    [] stage = "audit" -> Audit(d, q)

Later(q, i) == {j \in (i + 1)..Len(Pipeline) : Runs(q, Pipeline[j])}

(* ---------------- threads ------------------------------------------------ *)
Resting == [at |-> 0, q |-> None, copy |-> None]

Init ==
  /\ clock = 0
  /\ menu \in Menus
  /\ sent = 0
  /\ doc = EmptyDoc
  /\ thread = [t \in Threads |-> Resting]
  /\ ghost = [handled |-> [k \in Keys |-> 0], paid |-> [x \in Txs |-> 0], awards |-> {},
              overlapped |-> FALSE, crashed |-> FALSE, recreated |-> FALSE]

Active(t) == thread[t].q # None

\* The requests that may come next and how many may run with the one that does.
InPast == sent < Len(menu.first)
Offered == IF InPast THEN {menu.first[sent + 1]} ELSE {r \in menu.requests : sent < menu.sends}
Room == Cardinality({u \in Threads : Active(u)}) < IF InPast THEN 1 ELSE menu.threads

\* Approvals name a withdrawal that the document shows, reviews a gift.
Named(kind) ==
  CASE kind = "approve" -> {w.n : w \in doc.withdrawals}
    [] kind = "review" -> {g.n : g \in doc.gifts}
    [] OTHER -> {0}

\* The thread goes to the first place after i that runs.
Proceeds(t, q, i) ==
  \E j \in Later(q, i) :
    /\ \A k \in Later(q, i) : j <= k
    /\ thread' = [thread EXCEPT ![t] = [at |-> j, q |-> q, copy |-> None]]

\* A request arrives and looks its key up.
Send(t, r, w) ==
  LET q == [r EXCEPT !.n = sent + 1, !.w = w]
  IN  /\ ~Active(t) /\ Room
      /\ sent' = sent + 1
      /\ IF Fresh(doc, q) THEN Proceeds(t, q, 0) ELSE UNCHANGED thread
      /\ ghost' = [ghost EXCEPT !.overlapped = @ \/ \E u \in Threads : Active(u),
                                !.recreated = @ \/ (r.kind = "escrow" /\ doc.escrows[r.id].status # "none")]
      /\ UNCHANGED <<clock, menu, doc>>

Load(t) ==
  /\ Active(t) /\ thread[t].copy = None
  /\ thread' = [thread EXCEPT ![t].copy = doc]
  /\ UNCHANGED <<clock, menu, sent, doc, ghost>>

\* What the properties count: handlers that went through, coins paid out, and
\* the escrows that awards closed.
Counted(t, r) ==
  LET q == thread[t].q
      handled == r.ok /\ thread[t].at = Handling
      closed == {e \in EscrowIds : q.kind = "award" /\ thread[t].copy.bounties[q.id].escrow = e}
  IN  [ghost EXCEPT !.handled = [k \in Keys |-> IF handled /\ q.key = k THEN @[k] + 1 ELSE @[k]],
                    !.paid = [x \in Txs |-> IF r.paid = x THEN @[x] + 1 ELSE @[x]],
                    !.awards = IF handled THEN @ \union closed ELSE @]

Save(t) ==
  LET at == thread[t].at
      q == thread[t].q
      r == Segment(Pipeline[at], thread[t].copy, q)
  IN  /\ Active(t) /\ thread[t].copy # None
      /\ doc' = IF r.save THEN r.doc ELSE doc
      /\ IF ~r.ok \/ Later(q, at) = {} THEN thread' = [thread EXCEPT ![t] = Resting] ELSE Proceeds(t, q, at)
      /\ ghost' = Counted(t, r)
      /\ UNCHANGED <<clock, menu, sent>>

\* The process ends: threads are gone, the document is the last one saved (a
\* file is replaced, or a row is committed, as a whole).
Crash ==
  /\ \E t \in Threads : Active(t)
  /\ ~ghost.crashed
  /\ thread' = [t \in Threads |-> Resting]
  /\ ghost' = [ghost EXCEPT !.crashed = TRUE]
  /\ UNCHANGED <<clock, menu, sent, doc>>

Tick ==
  /\ clock < MaxTime
  /\ clock' = clock + 1
  /\ UNCHANGED <<menu, sent, doc, thread, ghost>>

Next ==
  \/ \E t \in Threads, r \in Offered : \E w \in Named(r.kind) : Send(t, r, w)
  \/ \E t \in Threads : Load(t) \/ Save(t)
  \/ Crash \/ Tick

Spec == Init /\ [][Next]_vars

(* ---------------- properties --------------------------------------------- *)
Excused == ghost.overlapped \/ ghost.recreated

\* The document's parts and what they refer to (DEFAULT_APP_STATE).
Claimants == ({"deposit", "gift"} \X Nat) \union ({"escrow"} \X EscrowIds)
DepositRecords == [n : Nat, customer : Customers, amount : Nat, tx : Txs]
WithdrawalRecords ==
  [n : Nat, customer : Customers, amount : Nat, status : {"requested", "approved", "released"}]
ApprovalRecords == [n : Nat, w : Nat, approver : Actors]
GiftRecords ==
  [n : Nat, code : Codes, tx : Txs \union {None}, status : {"unclaimed", "claimed", "expired"}, until : Nat,
   plan : {"none", "pending", "ready", "rejected", "signed", "broadcast"}]
EscrowRecords ==
  [status : {"none", "funding_ready", "funded", "pending", "disputed"} \union Final, tx : Txs \union {None},
   approvals : SUBSET [action : {"released", "refunded"}, by : Actors], until : Nat]
BountyRecords ==
  [status : {"none", "open", "awarded"}, escrow : EscrowIds \union {None}, winner : Actors \union {None}]
AuditRecords == [n : Nat, previous : Nat]
Documents ==
  [idem : [Keys -> SUBSET Requests], nonces : [Actors -> Nat], claims : [Txs -> SUBSET Claimants],
   deposits : SUBSET DepositRecords, custody : [Tiers -> Nat], balances : [Customers -> Nat],
   owners : [Customers -> Actors \union {None}], withdrawals : SUBSET WithdrawalRecords,
   approvals : SUBSET ApprovalRecords, gifts : SUBSET GiftRecords, escrows : [EscrowIds -> EscrowRecords],
   bounties : [BountyIds -> BountyRecords], audit : Seq(AuditRecords)]

\* The document's parts are of their types, and a key is recorded for what a
\* handler has done.
TypeOK ==
  /\ sent \in Nat /\ clock \in 0..MaxTime /\ doc \in Documents
  /\ \A t \in Threads : Active(t) =>
       /\ thread[t].q \in Requests /\ thread[t].q.n \in 1..sent
       /\ thread[t].at \in DOMAIN Pipeline /\ Runs(thread[t].q, Pipeline[thread[t].at])
  /\ \A w \in doc.withdrawals : w.n \in 1..sent
  /\ \A k \in Keys : doc.idem[k] = {} \/ ghost.handled[k] > 0

\* What a coin has funded: the claimants whose record names it.
Uses(d, x) ==
  {<<"deposit", r.n>> : r \in {r \in d.deposits : r.tx = x}}
  \union {<<"gift", g.n>> : g \in {g \in d.gifts : g.tx = x}}
  \union {<<"escrow", e>> : e \in {e \in EscrowIds : d.escrows[e].tx = x}}

\* Unless requests overlap, a coin of the chain funds at most one deposit, gift
\* or escrow, whatever crashed in between (__init__.py:3343-3380).
CoinFundsOneRecord == ghost.overlapped \/ \A x \in Txs : \A u, v \in Uses(doc, x) : u = v

\* ... and is paid out at most once: by the gift, by the escrow's two parties or
\* by the bounty it backs, as long as the escrow is not created anew
\* (__init__.py:2835-2861, 2936-2988, 4482-4566).
CoinPaidOnce == Excused \/ \A x \in Txs : ghost.paid[x] <= 1

\* A coin comes in for one thing and goes out once.
CoinsUsedOnce == CoinFundsOneRecord /\ CoinPaidOnce

\* What the exchange holds is what its customers own and what was deposited
\* minus what was released, in every document ever saved: overlapping requests
\* lose whole updates, never half of one (__init__.py:3382-3493).
InSum(S) == SumFunctionOnSet([r \in S |-> r.amount], S)
Backed(d) ==
  LET held == d.custody["hot"] + d.custody["cold"]
  IN  /\ held = SumFunctionOnSet(d.balances, Customers)
      /\ held + InSum({w \in d.withdrawals : w.status = "released"}) = InSum(d.deposits)

\* Released withdrawals have two approvers, settled escrows two participants
\* behind the same action or an award; also when requests overlap
\* (__init__.py:3472-3492, 4535-4557).  The awarded bounty is still there, unless
\* an overlapping create_bounty wrote another over it (__init__.py:2866, 2911-2913).
PaidByTwo(d, g) ==
  /\ \A w \in d.withdrawals : w.status = "released" =>
       Cardinality({a.approver : a \in {b \in d.approvals : b.w = w.n}}) >= 2
  /\ \A e \in EscrowIds : d.escrows[e].status \in {"released", "refunded"} =>
       \/ Cardinality({a.by : a \in {b \in d.escrows[e].approvals : b.action = d.escrows[e].status}}) >= 2
       \/ /\ e \in g.awards /\ d.escrows[e].status = "released"
          /\ \/ g.overlapped
             \/ \E b \in BountyIds : d.bounties[b].status = "awarded" /\ d.bounties[b].escrow = e

\* The immutable log is a chain of hashes even when overlapping requests lose
\* entries of it (__init__.py:1199-1210).
Chained(log) == \A i \in DOMAIN log : log[i].previous = IF i = 1 THEN 0 ELSE log[i - 1].n

\* Every document ever saved is sound: the exchange holds what it owes, pays only
\* what two people agreed to pay, and the log is one chain.
RecordsSound == TypeOK /\ Backed(doc) /\ PaidByTwo(doc, ghost) /\ Chained(doc.audit)

\* A request with an idempotency key runs its handler once, however often it is
\* retried (__init__.py:1063-1111, feature_catalog.py:747).
KeyRunsOnce == \A k \in Keys : ghost.handled[k] <= 1
\* ... as long as no retry overlaps it and no crash comes before the record.
KeyRunsOnceUncut == ghost.overlapped \/ ghost.crashed \/ KeyRunsOnce

\* A settled escrow stays settled and a rejected plan is not signed or
\* broadcast without a new review, unless requests overlap or the escrow is
\* created anew (__init__.py:1764-1820, 4518-4520).
DecisionsStand ==
  [][\/ Excused
     \/ /\ \A e \in EscrowIds : doc.escrows[e].status \in {"released", "refunded", "canceled"} =>
              doc'.escrows[e].status = doc.escrows[e].status
        /\ \A g \in doc.gifts : g.plan = "rejected" =>
              \E h \in doc'.gifts : h.n = g.n /\ h.plan \in {"rejected", "ready"}]_vars
=============================================================================
