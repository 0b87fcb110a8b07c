------------------------------- MODULE MCApp --------------------------------
(***************************************************************************)
(* Loads for the document: families of requests, some one at a time and     *)
(* long, some in two threads and short.                                     *)
(***************************************************************************)
EXTENDS AppStore, AppDeals, TLC

VARIABLE part       \* what the behaviour is about; the rest of the document stays as it is

MCAmount == [x \in Txs |-> 2]

Req(kind, id, actor) ==
  [kind |-> kind, id |-> id, actor |-> actor, key |-> None, nonce |-> 0, tx |-> None,
   amount |-> 2, tier |-> "hot", action |-> "", escrow |-> None, n |-> 0, w |-> 0]

DepositReq(x, key) == [Req("deposit", "c1", "a1") EXCEPT !.tx = x, !.key = key]
ColdReq == [Req("deposit", "c1", "a1") EXCEPT !.tx = "tx2", !.tier = "cold"]
WithdrawReq(a) == [Req("withdraw", "c1", a) EXCEPT !.amount = 2, !.nonce = 1, !.key = "k1"]
ApproveReq(a) == Req("approve", "c1", a)
GiftReq(x) == [Req("gift", "code", "a1") EXCEPT !.tx = x]
ClaimReq(a) == Req("claimgift", "code", a)
ReviewReq(action) == [Req("review", "code", "a1") EXCEPT !.action = action]
EscrowReq(x) == [Req("escrow", "e1", "a1") EXCEPT !.tx = x]
ActReq(a, action) == [Req("act", "e1", a) EXCEPT !.action = action]
BountyReq == [Req("bounty", "b1", "a1") EXCEPT !.escrow = "e1"]

Exchange ==
  [requests |-> {DepositReq("tx1", "k1"), ColdReq, WithdrawReq("a1"), WithdrawReq("a2")}
                \union {ApproveReq(a) : a \in Actors},
   sends |-> 6, threads |-> 1, first |-> <<>>]
ExchangeRace ==
  [requests |-> {DepositReq("tx2", "k1"), WithdrawReq("a1")} \union {ApproveReq(a) : a \in Actors},
   sends |-> 5, threads |-> 2,
   first |-> <<DepositReq("tx1", None), [WithdrawReq("a1") EXCEPT !.key = None]>>]
Approvals ==
  [requests |-> {ApproveReq(a) : a \in Actors},
   sends |-> 7, threads |-> 1,
   first |-> <<DepositReq("tx1", None), [WithdrawReq("a1") EXCEPT !.key = None],
               [WithdrawReq("a1") EXCEPT !.key = None, !.nonce = 2]>>]
Gifts ==
  [requests |-> {GiftReq("tx1"), GiftReq(None), ClaimReq("a1"), DepositReq("tx1", None), ReviewReq("approve"),
                 ReviewReq("reject"), ReviewReq("signed"), ReviewReq("broadcast")},
   sends |-> 6, threads |-> 1, first |-> <<>>]
ReviewRace ==
  [requests |-> {ReviewReq("reject"), ReviewReq("signed")},
   sends |-> 5, threads |-> 2,
   first |-> <<GiftReq("tx1"), ClaimReq("a2")>>]
Escrows ==
  [requests |-> {EscrowReq(None), EscrowReq("tx1"), BountyReq, Req("award", "b1", "a2"), Req("status", "e1", "a1"),
                 ActReq("a1", "dispute"), ActReq("a1", "cancel")}
                \union {ActReq(a, act) : a \in Actors, act \in {"released", "refunded"}},
   sends |-> 6, threads |-> 1, first |-> <<>>]
EscrowRace ==
  [requests |-> {Req("award", "b1", "a2")} \union {ActReq(a, "refunded") : a \in Actors},
   sends |-> 6, threads |-> 2,
   first |-> <<EscrowReq("tx1"), BountyReq>>]

MCMenus == {Exchange, ExchangeRace, Approvals, Gifts, ReviewRace, Escrows, EscrowRace}

(* ---------------- the records that add up -------------------------------- *)
MCValue == [x \in Payments |-> 1]

DocumentInit ==
  /\ part \in {"requests", "invoices", "watches", "funding", "tokens", "votes", "plans", "agreement"}
  /\ Init /\ DealsInit
  /\ (part # "requests" => menu = Exchange)

noRequests == <<part, vars>>

DocumentNext ==
  \/ part = "requests" /\ Next /\ UNCHANGED <<part, dealVars>>
  \/ part # "requests" /\ DealsTick /\ UNCHANGED noRequests
  \/ part = "invoices" /\ (ChainNext \/ InvoicesNext) /\ UNCHANGED noRequests
  \/ part = "watches" /\ (ChainNext \/ WatchesNext) /\ UNCHANGED noRequests
  \/ part = "funding" /\ FundingNext /\ UNCHANGED noRequests
  \/ part = "tokens" /\ TokenNext /\ UNCHANGED noRequests
  \/ part = "votes" /\ VotesNext /\ UNCHANGED noRequests
  \/ part = "plans" /\ PlansNext /\ UNCHANGED noRequests
  \/ part = "agreement" /\ AgreementNext /\ UNCHANGED noRequests

DocumentSpec == DocumentInit /\ [][DocumentNext]_<<part, vars, dealVars>>

\* What was decided, on an escrow, a plan, a poll or a proposal, is not undone
\* later (__init__.py:1764-1820, 4518-4520, 4615-4689, 5069-5098).
NothingUndone == DecisionsStand /\ DecidedStays
=============================================================================
