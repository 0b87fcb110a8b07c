---------------------------- MODULE Withdrawals -----------------------------
(***************************************************************************)
(* Withdrawals and custody accounts of netcoin/exchange.py.  Every call of   *)
(* the ledger is a series of SQLite transactions, and operators work on one  *)
(* database from several processes: a call is a control state per operator,  *)
(* a step is a transaction.  transition_withdrawal guards nothing: any state *)
(* may follow any other.                                                     *)
(***************************************************************************)
EXTENDS Integers, FiniteSets

CONSTANTS
  Operators, Orders,            \* Orders: withdrawal ids
  Due,                          \* amount + fee of each order
  Cold, Hots,                   \* the cold account and the hot ones
  MinApprovals, SingleLimit,    \* per hot account; limit 0 means none
  Granted, Sent                 \* balances configured, amounts transferred

\* Amounts and limits are whole numbers; an id is never the word for none.
ASSUME CustodyAssumption ==
  /\ IsFiniteSet(Operators) /\ "none" \notin Orders
  /\ Due \in [Orders -> Int] /\ MinApprovals \in [Hots -> Int] /\ SingleLimit \in [Hots -> Int]
  /\ Granted \union Sent \subseteq Int

VARIABLES
  order,          \* order -> its state, "none" before it is requested
  vote,           \* <<order, operator>> -> "none", "approved" or "denied"
  balance,        \* account -> balance_sats
  call,           \* operator -> the ledger call it is in
  touched         \* orders changed, or funds moved, since their last evaluation

custodyVars == <<order, vote, balance, call, touched>>

OrderStates == {"requested", "approved", "signed", "broadcast", "confirmed", "failed", "canceled"}
Idle == [at |-> "idle", order |-> "none", amount |-> 0, seen |-> 0, to |-> "none"]

CustodyInit ==
  /\ order = [w \in Orders |-> "none"]
  /\ vote = [k \in Orders \X Operators |-> "none"]
  /\ balance \in [Hots \union {Cold} -> Granted]
  /\ call = [o \in Operators |-> Idle]
  /\ touched = Orders

Votes(w, d) == {o \in Operators : vote[<<w, o>>] = d}

\* Faulty variant: one approval more than the policy asks for.
FaultyReadyToSign(w) ==
  /\ \A h \in Hots : SingleLimit[h] = 0 \/ Due[w] <= SingleLimit[h]
  /\ \E h \in Hots : Due[w] <= balance[h]
  /\ Votes(w, "denied") = {}
  /\ \A n \in {1} \union {MinApprovals[h] : h \in Hots} : Cardinality(Votes(w, "approved")) > n

\* withdrawal_policy's ready_to_sign.
ReadyToSign(w) ==
  /\ \A h \in Hots : SingleLimit[h] = 0 \/ Due[w] <= SingleLimit[h]
  /\ \E h \in Hots : Due[w] <= balance[h]
  /\ Votes(w, "denied") = {}
  /\ \A n \in {1} \union {MinApprovals[h] : h \in Hots} : Cardinality(Votes(w, "approved")) >= n

RequestWithdrawal(w) ==
  /\ order[w] = "none"
  /\ order' = [order EXCEPT ![w] = "requested"]
  /\ touched' = touched \union {w}
  /\ UNCHANGED <<vote, balance, call>>

TransitionWithdrawal(w, s) ==
  /\ order[w] \notin {"none", s}
  /\ order' = [order EXCEPT ![w] = s]
  /\ touched' = touched \union {w}
  /\ UNCHANGED <<vote, balance, call>>

\* approve_withdrawal: the decision is committed first, for an order that need
\* not exist; the policy is read after it; the state is looked at, and changed,
\* in two more transactions.
Decide(o, w, d) ==
  /\ call[o] = Idle
  /\ vote' = [vote EXCEPT ![<<w, o>>] = d]
  /\ call' = [call EXCEPT ![o] = [at |-> "decided", order |-> w, amount |-> 0, seen |-> 0, to |-> "none"]]
  /\ UNCHANGED <<order, balance, touched>>

Evaluate(o) ==
  LET w == call[o].order IN
  /\ call[o].at = "decided"
  /\ call' = [call EXCEPT ![o] = IF order[w] # "none" /\ ReadyToSign(w)
                                 THEN [@ EXCEPT !.at = "ready"] ELSE Idle]
  /\ touched' = IF order[w] # "none" THEN touched \ {w} ELSE touched
  /\ UNCHANGED <<order, vote, balance>>

Look(o) ==
  /\ call[o].at = "ready"
  /\ call' = [call EXCEPT ![o] = IF order[call[o].order] = "requested"
                                 THEN [@ EXCEPT !.at = "approving"] ELSE Idle]
  /\ UNCHANGED <<order, vote, balance, touched>>

Approve(o) ==
  /\ call[o].at = "approving"
  /\ order' = [order EXCEPT ![call[o].order] = "approved"]
  /\ call' = [call EXCEPT ![o] = Idle]
  /\ UNCHANGED <<vote, balance, touched>>

\* configure_custody_account, of an account's balance; its other fields stay.
Configure(a, n) ==
  /\ balance[a] # n
  /\ balance' = [balance EXCEPT ![a] = n]
  /\ touched' = Orders
  /\ UNCHANGED <<order, vote, call>>

\* record_cold_to_hot_transfer: the cold balance is checked in one transaction
\* and both balances are changed in another.
CheckCold(o, h, n) ==
  /\ call[o] = Idle
  /\ n <= balance[Cold]
  /\ call' = [call EXCEPT ![o] = [at |-> "moving", order |-> "none", amount |-> n, seen |-> balance[Cold], to |-> h]]
  /\ UNCHANGED <<order, vote, balance, touched>>

Transferred(c) ==
  [a \in Hots \union {Cold} |->
     balance[a] - (IF a = Cold THEN c.amount ELSE 0) + (IF a = c.to THEN c.amount ELSE 0)]

Transfer(o) ==
  /\ call[o].at = "moving"
  /\ balance' = Transferred(call[o])
  /\ call' = [call EXCEPT ![o] = Idle]
  /\ touched' = Orders
  /\ UNCHANGED <<order, vote>>

CustodyNext ==
  \/ \E w \in Orders : RequestWithdrawal(w) \/ \E s \in OrderStates : TransitionWithdrawal(w, s)
  \/ \E o \in Operators :
       \/ \E w \in Orders, d \in {"approved", "denied"} : Decide(o, w, d)
       \/ Evaluate(o) \/ Look(o) \/ Approve(o) \/ Transfer(o)
       \/ \E h \in Hots, n \in Sent : CheckCold(o, h, n)
  \/ \E a \in Hots \union {Cold}, n \in Granted : Configure(a, n)

CustodySpec == CustodyInit /\ [][CustodyNext]_custodyVars

(* ---------------- properties --------------------------------------------- *)
\* No quorum is missed when operators decide at the same time: once no call is
\* running, an order still requested lacks approvals, was denied, or no hot
\* account can pay it, unless somebody changed it or moved funds after the last
\* evaluation (exchange.py:416-476).
QuorumActedOn ==
  \A w \in Orders \ touched :
    order[w] = "requested" /\ (\A o \in Operators : call[o].order # w) =>
      \/ \E h \in Hots : Cardinality(Votes(w, "approved")) < MinApprovals[h]
      \/ Votes(w, "approved") = {} \/ Votes(w, "denied") # {}
      \/ \E h \in Hots : SingleLimit[h] # 0 /\ Due[w] > SingleLimit[h]
      \/ \A h \in Hots : balance[h] < Due[w]

\* What the check for an insufficient cold account promises (exchange.py:505).
ColdNotOverdrawn == balance[Cold] >= 0
=============================================================================
