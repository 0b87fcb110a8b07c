------------------------------- MODULE Market -------------------------------
(***************************************************************************)
(* One prediction market of the app layer (netcoin/apps/markets): its order *)
(* book with collateralised shorts, the demo wallets, the collateral pool,  *)
(* the life cycle, and settlement by an operator or from an imported        *)
(* source.  A market is one JSON record of the app document, so it is one   *)
(* record here, and each request is an operator from record to record; the  *)
(* action stores its result.  Requests do not overlap here: AppStore        *)
(* models what happens when they do.                                        *)
(***************************************************************************)
EXTENDS Integers, Sequences, FiniteSets, Functions, FiniteSetsExt

CONSTANTS
  Traders,          \* trader ids
  OnChain,          \* those that are addresses of the chain, not demo names
  Outcomes,         \* outcome ids
  Unit,             \* unit_payout_sats
  Deposit,          \* DEFAULT_DEMO_BALANCE_SATS
  Offers,           \* the orders each trader may send
  MaxOrders,        \* bound on the orders of the market
  MaxSettlements,   \* bound on market.resolved events, after which operators rest
  CloseTime,        \* close_time, and source_end_time of an imported market
  MaxTime,          \* bound on the clock
  SourceTime,       \* from when the external source reports a winner
  SourceLabel,      \* the winner it reports: an outcome or a foreign label
  Imported,         \* whether it has an external source
  None

\* POST stands for a limit order with post_only, IOC for a market order too.
Kinds == {"GTC", "DAY", "POST", "IOC", "FOK"}
BasisPoints == 1..9999
OfferType ==
  [side : {"buy", "sell"}, outcome : Outcomes, price : BasisPoints, qty : Nat \ {0}, kind : Kinds]

ASSUME MarketConstants ==
  /\ IsFiniteSet(Traders) /\ OnChain \subseteq Traders
  /\ IsFiniteSet(Outcomes) /\ None \notin Outcomes
  /\ {Unit, Deposit} \subseteq Nat \ {0}
  /\ {MaxOrders, MaxSettlements, CloseTime, MaxTime, SourceTime} \subseteq Nat
  /\ \A t \in Traders : Offers[t] \subseteq OfferType
  /\ \E t \in Traders : Offers[t] # {}
  /\ Imported \in BOOLEAN

VARIABLES
  clock,
  market            \* the record data["prediction_markets"][market_id]

vars == <<clock, market>>

Opposite(side) == IF side = "buy" THEN "sell" ELSE "buy"
ShareCost(price, qty) == ((Unit * price) \div 10000) * qty
ShortCollateral(price, qty) == (Unit - (Unit * price) \div 10000) * qty

\* What an order still reserves when `left` of it is unfilled.
ReservedFor(o, left) == (o.reserve * left) \div o.qty

\* Faulty variant: equal prices do not trade.
FaultyCrosses(o, other) == IF o.side = "buy" THEN o.price > other.price ELSE other.price > o.price

Crosses(o, other) == IF o.side = "buy" THEN o.price >= other.price ELSE other.price >= o.price

\* The orders an incoming order o can trade with, and the book's priority.
Counterparts(m, o) ==
  {i \in DOMAIN m.orders : /\ m.orders[i].status = "open"
                           /\ m.orders[i].outcome = o.outcome
                           /\ m.orders[i].side = Opposite(o.side)}

\* Faulty variant: the oldest order first, whatever its price.
FaultyBefore(a, b) == a.at < b.at \/ (a.at = b.at /\ a.id < b.id)

Before(a, b) ==
  \/ IF a.side = "buy" THEN a.price > b.price ELSE a.price < b.price
  \/ a.price = b.price /\ a.at < b.at
  \/ a.price = b.price /\ a.at = b.at /\ a.id < b.id

CrossingDepth(m, o) ==
  SumFunctionOnSet([i \in DOMAIN m.orders |-> m.orders[i].left],
                   {i \in Counterparts(m, o) : Crosses(o, m.orders[i])})

----------------------------------------------------------------------------
(***************************************************************************)
(* Placing an order: reserve, match against the book at the makers' prices, *)
(* then post, cancel or fill what is left.                                  *)
(***************************************************************************)
Release(reserved, t, amount) == [reserved EXCEPT ![t] = Max({0, @ - amount})]

ShortPart(m, seller, x, qty) == Max({0, qty - Max({0, m.position[seller][x]})})

Cash(balance, buyer, seller, cost, collateral) ==
  [balance EXCEPT ![buyer] = @ - cost, ![seller] = @ + cost - collateral]

Shares(position, buyer, seller, x, qty) ==
  [position EXCEPT ![buyer][x] = @ + qty, ![seller][x] = @ - qty]

Pledged(collateral, seller, x, amount) == [collateral EXCEPT ![seller][x] = @ + amount]

AfterFill(o, qty) == [o EXCEPT !.left = @ - qty, !.status = IF o.left = qty THEN "filled" ELSE @]
FreedBy(o, qty) == ReservedFor(o, o.left) - ReservedFor(o, o.left - qty)

\* The incoming order b.o meets order i of the book b.m.
Trade(b, i) ==
  LET o == b.o
      other == b.m.orders[i]
      qty == Min({o.left, other.left})
      buyer == IF o.side = "buy" THEN o.trader ELSE other.trader
      seller == IF o.side = "buy" THEN other.trader ELSE o.trader
      collateral == ShortCollateral(other.price, ShortPart(b.m, seller, o.outcome, qty))
  IN [b EXCEPT
        !.o = AfterFill(o, qty),
        !.m = [b.m EXCEPT
                 !.orders[i] = AfterFill(other, qty),
                 !.reserved = Release(Release(@, o.trader, FreedBy(o, qty)), other.trader, FreedBy(other, qty)),
                 !.balance = Cash(@, buyer, seller, ShareCost(other.price, qty), collateral),
                 !.position = Shares(@, buyer, seller, o.outcome, qty),
                 !.collateral = Pledged(@, seller, o.outcome, collateral),
                 !.pool = @ + collateral]]

Fill(b, i) == IF b.o.left = 0 \/ ~Crosses(b.o, b.m.orders[i]) THEN b ELSE Trade(b, i)

First(orders, S) == CHOOSE i \in S : \A j \in S \ {i} : Before(orders[i], orders[j])

\* Candidates are those of before the first trade, in their order of then.
Matched(m, o) ==
  LET makers == {i \in Counterparts(m, o) : m.orders[i].trader # o.trader}
      Met(b) == LET i == First(m.orders, b.rest) IN [Fill(b, i) EXCEPT !.rest = b.rest \ {i}]
      book[n \in 0..Cardinality(makers)] ==
        IF n = 0 THEN [m |-> m, o |-> o, rest |-> makers] ELSE Met(book[n - 1])
  IN book[Cardinality(makers)]

\* Faulty variant: a dropped rest keeps its reservation.
FaultyPosted(b) == [b.m EXCEPT !.orders = Append(@, IF b.o.left = 0 \/ b.o.kind # "IOC" THEN b.o
                                                     ELSE [b.o EXCEPT !.status = "canceled"])]

\* A limit order that may rest stays open; the rest of any other is dropped.
Posted(b) ==
  LET rests == b.o.kind \in {"GTC", "DAY", "POST"}
      ended == IF b.o.left < b.o.qty THEN "partially_filled" ELSE "canceled"
  IN IF b.o.left = 0 \/ rests THEN [b.m EXCEPT !.orders = Append(@, b.o)]
     ELSE [b.m EXCEPT !.reserved = Release(@, b.o.trader, ReservedFor(b.o, b.o.left)),
                      !.orders = Append(@, [b.o EXCEPT !.status = ended])]

NewOrder(m, t, f, id) ==
  LET held == m.position[t][f.outcome]
      reserve == IF f.side = "buy" THEN ShareCost(f.price, f.qty)
                 ELSE ShortCollateral(f.price, Max({0, f.qty - Max({0, held})}))
  IN [id |-> id, trader |-> t, outcome |-> f.outcome, side |-> f.side, price |-> f.price,
      qty |-> f.qty, left |-> f.qty, kind |-> f.kind, reserve |-> reserve, at |-> clock, status |-> "open"]

MayPlace(m, o) ==
  /\ m.status = "open" /\ clock <= CloseTime
  /\ o.kind = "POST" => CrossingDepth(m, o) = 0
  /\ o.kind = "FOK" => CrossingDepth(m, o) >= o.qty
  /\ m.balance[o.trader] - m.reserved[o.trader] >= o.reserve

Placed(m, o) ==
  Posted(Matched([m EXCEPT !.reserved[o.trader] = @ + o.reserve], o))

\* What an order reserves of a trader's wallet.
Locks(o, t) == IF o.status = "open" /\ o.trader = t THEN ReservedFor(o, o.left) ELSE 0
Locked(orders, S, t) == SumFunctionOnSet([i \in DOMAIN orders |-> Locks(orders[i], t)], S)

Cancelled(m, S) ==
  [m EXCEPT !.orders = [i \in DOMAIN @ |-> IF i \in S THEN [@[i] EXCEPT !.status = "canceled"] ELSE @[i]],
            !.reserved = [t \in Traders |-> Max({0, @[t] - Locked(m.orders, S, t)})]]

OpenOrders(m) == {i \in DOMAIN m.orders : m.orders[i].status = "open"}

----------------------------------------------------------------------------
(***************************************************************************)
(* Settlement.                                                             *)
(***************************************************************************)
RawClaim(m, t, w) == Max({0, m.position[t][w]}) * Unit
Claimed(m, w) == SumFunctionOnSet([t \in Traders |-> RawClaim(m, t, w)], Traders)

\* The payout of a trader: scaled down when the pool cannot cover the claims.
Payout(m, t, w) ==
  IF Claimed(m, w) > m.pool /\ m.pool > 0
  THEN (RawClaim(m, t, w) * m.pool) \div Claimed(m, w) ELSE RawClaim(m, t, w)

Finalized(m, w) ==
  LET losing == [t \in Traders |-> SumFunctionOnSet(m.collateral[t], Outcomes \ {w})]
      paid(t) == IF t \in OnChain THEN 0 ELSE Payout(m, t, w)
      credited == [m EXCEPT !.balance = [t \in Traders |-> @[t] + paid(t) + losing[t]],
                            !.pool = Max({0, @ - SumFunctionOnSet(losing, Traders)})]
  IN [Cancelled(credited, OpenOrders(m)) EXCEPT
        !.status = "resolved", !.winner = w, !.settlements = @ + 1,
        !.plan = [t \in Traders |-> IF t \in OnChain THEN Payout(m, t, w) ELSE 0]]

\* Faulty variant: a market its operator closed is left alone.
FaultyReread(m) ==
  IF m.status = "open" /\ clock >= CloseTime /\ m.queue.label \in Outcomes
  THEN [Finalized(m, m.queue.label) EXCEPT !.queue.status = "resolved"]
  ELSE IF clock >= CloseTime /\ m.queue.label = None THEN [m EXCEPT !.queue.status = "awaiting_source_result"] ELSE m

\* What every request does once more before it answers: prediction_market_impl
\* reads the record again and moves an imported market's queue along; the
\* result is saved only when the queue changed.
Reread(m) ==
  LET due == m.status # "resolved" /\ clock >= CloseTime
      known == due /\ m.queue.label \in Outcomes
      status == CASE m.status = "resolved" \/ known -> "resolved"
                  [] m.status # "resolved" /\ ~due -> "queued"
                  [] due /\ m.queue.label = None -> "awaiting_source_result"
                  [] due /\ m.queue.label \notin Outcomes \union {None} -> "needs_operator_review"
      queue == [m.queue EXCEPT !.status = status, !.at = IF known THEN clock ELSE @]
  IN IF m.status = "deleted" \/ ~m.queue.enabled \/ queue = m.queue THEN m
     ELSE [IF known THEN Finalized(m, m.queue.label) ELSE m EXCEPT !.queue = queue]

----------------------------------------------------------------------------
Zero == [t \in Traders |-> 0]
ZeroPerOutcome == [t \in Traders |-> [x \in Outcomes |-> 0]]

Created(imported) ==
  [status |-> "open", orders |-> <<>>, balance |-> [t \in Traders |-> Deposit], reserved |-> Zero,
   position |-> ZeroPerOutcome, collateral |-> ZeroPerOutcome, pool |-> 0, settlements |-> 0,
   winner |-> None, plan |-> Zero,
   queue |-> [enabled |-> imported, label |-> None, status |-> "queued", at |-> 0]]

Init == clock = 0 /\ market = Created(Imported)

Store(m) == market' = Reread(m) /\ UNCHANGED clock
Live == market.status # "deleted"
Operable == Live /\ market.settlements < MaxSettlements

\* Ids are random.  They decide between orders of one second and one price
\* only, so an id that sorts before the others is only tried on such a tie.
Ids(m, f) ==
  LET n == Len(m.orders) + 1
      tie == \E i \in OpenOrders(m) : LET o == m.orders[i] IN
               o.outcome = f.outcome /\ o.side = f.side /\ o.price = f.price /\ o.at = clock
  IN IF tie THEN {n, -n} ELSE {n}

PlaceOrder ==
  /\ Len(market.orders) < MaxOrders
  /\ \E t \in Traders : \E f \in Offers[t] : \E id \in Ids(market, f) :
       /\ MayPlace(market, NewOrder(market, t, f, id))
       /\ Store(Placed(market, NewOrder(market, t, f, id)))

\* The first order refused after close_time closes the market.
CloseOnLateOrder ==
  /\ market.status = "open" /\ clock > CloseTime
  /\ market' = [market EXCEPT !.status = "closed"] /\ UNCHANGED clock

CancelOrder == Live /\ \E i \in OpenOrders(market) : Store(Cancelled(market, {i}))

CancelAllOrders ==
  \E t \in Traders :
    Live /\ Store(Cancelled(market, {i \in OpenOrders(market) : market.orders[i].trader = t}))

\* The proposed outcome only pre-fills a later Resolve, which takes any outcome.
RequestResolution ==
  Operable /\ Store([market EXCEPT !.status = "resolving"])

Dispute == Operable /\ Store([market EXCEPT !.status = "closed"])

Resolve ==
  \E w \in Outcomes :
    /\ Operable
    /\ Store(Finalized(market, w))

TransitionState ==
  \E s \in {"open", "paused", "closed"} : Operable /\ Store([market EXCEPT !.status = s])

Delete ==
  /\ Live /\ market.orders = <<>>
  /\ market' = [market EXCEPT !.status = "deleted"] /\ UNCHANGED clock

ReadMarket == Live /\ Store(market)

\* The sync endpoint asks the source, at any time; what it names is used from
\* the close time on.
SyncMarket ==
  /\ Live /\ market.queue.enabled
  /\ Store(IF market.status # "resolved" /\ clock >= SourceTime THEN [market EXCEPT !.queue.label = SourceLabel]
           ELSE market)

\* The scheduled poll, of the markets that wait for their source.
SyncSource ==
  /\ market.status # "resolved"
  /\ market.queue.status \in {"awaiting_source_result", "needs_operator_review"}
  /\ SyncMarket

Tick == clock < MaxTime /\ clock' = clock + 1 /\ UNCHANGED market

Next ==
  \/ PlaceOrder \/ CloseOnLateOrder \/ CancelOrder \/ CancelAllOrders
  \/ RequestResolution \/ Dispute \/ Resolve \/ TransitionState \/ Delete
  \/ ReadMarket \/ SyncMarket \/ SyncSource \/ Tick

Spec == Init /\ [][Next]_vars

\* The market page is read and the scheduled poll runs again and again; time
\* passes.  Nothing is assumed of traders and operators.
FairSpec ==
  Spec /\ WF_vars(Tick) /\ WF_vars(ReadMarket) /\ WF_vars(SyncSource)

----------------------------------------------------------------------------
Statuses == {"open", "paused", "closed", "resolving", "resolved", "deleted"}
OrderStatuses == {"open", "filled", "partially_filled", "canceled"}
QueueStatuses == {"queued", "awaiting_source_result", "needs_operator_review", "resolved"}

\* The record of the market has the shape the handlers read and write.
TypeOK ==
  /\ clock \in 0..MaxTime
  /\ market.status \in Statuses
  /\ market.winner \in Outcomes \cup {None} /\ market.pool \in Nat
  /\ market.queue.status \in QueueStatuses /\ market.queue.at \in 0..clock
  /\ DOMAIN market.orders \subseteq 1..MaxOrders
  /\ \A i \in DOMAIN market.orders :
       LET o == market.orders[i]
       IN /\ o.status \in OrderStatuses /\ o.left \in 0..o.qty /\ o.at \in 0..clock
          /\ (o.status = "filled") <=> (o.left = 0)
  /\ \A t \in Traders : /\ market.balance[t] \in Int /\ {market.reserved[t], market.plan[t]} \subseteq Nat
                        /\ \A x \in Outcomes : market.position[t][x] \in Int /\ market.collateral[t][x] \in Nat

\* A wallet reserves exactly what its open orders still need: proportional
\* releases on partial fills, cancellations and settlement leave nothing
\* locked for good and free nothing twice (_reserve, _release and their users).
ReservesBacked ==
  \A t \in Traders :
    market.reserved[t] = Locked(market.orders, DOMAIN market.orders, t)

\* Until the market is settled no money appears or vanishes: the wallets and
\* the collateral pool hold what the wallets were given, and the pool is the
\* collateral of the shorts (_match_order).
MoneyConserved ==
  market.winner = None =>
    /\ SumFunctionOnSet(market.balance, Traders) + market.pool = Deposit * Cardinality(Traders)
    /\ market.pool =
         SumFunctionOnSet([t \in Traders |-> SumFunctionOnSet(market.collateral[t], Outcomes)], Traders)

\* Every share somebody holds, somebody else is short of (_add_position).
PositionsCancelOut ==
  \A x \in Outcomes : SumFunctionOnSet([t \in Traders |-> market.position[t][x]], Traders) = 0

\* No short is naked: whoever is short of an outcome has put up collateral for
\* every share at no less than the best price anybody asks for, whatever they
\* held when they placed the orders that made them short.
LeastPledge == Min({ShortCollateral(f.price, 1) : f \in UNION {Offers[t] : t \in Traders}})
ShortsCollateralised ==
  \A t \in Traders, x \in Outcomes : market.collateral[t][x] >= -market.position[t][x] * LeastPledge

\* What settlement relies on: sound records, shares that cancel out, and shorts
\* with collateral behind them.
SharesBalance == TypeOK /\ PositionsCancelOut /\ ShortsCollateralised

\* The three books of a market, money, reserves and shares, balance after every
\* fill, partial fill, cancellation and settlement.
BooksBalance == SharesBalance /\ ReservesBacked /\ MoneyConserved

\* Two open orders of different traders never cross: whoever came second
\* traded first, through pauses, cancellations and partial fills.
BookUncrossed ==
  \A i, j \in OpenOrders(market) :
    LET a == market.orders[i]
        b == market.orders[j]
    IN a.outcome = b.outcome /\ a.side = "buy" /\ b.side = "sell" /\ a.price >= b.price => a.trader = b.trader

\* Price, then age: an order never trades while a better or older order of the
\* same price waits, unless the better one is the taker's own.
PriceTimePriority ==
  [][\A i, j \in OpenOrders(market) :
       LET a == market.orders[i]
           b == market.orders[j]
           Earlier == IF a.price = b.price THEN a.at < b.at
                      ELSE IF a.side = "buy" THEN a.price > b.price ELSE a.price < b.price
       IN /\ a.outcome = b.outcome /\ a.side = b.side /\ Earlier
          /\ market'.orders[j].left < b.left
          => market'.orders[i].left = 0 \/ a.trader = market'.orders[Len(market'.orders)].trader]_market

\* An imported market whose source names one of its outcomes ends resolved,
\* whatever operators and traders do, unless it is deleted unused.
AutoResolves ==
  market.queue.enabled => <>(market.status \in {"resolved", "deleted"})

\* "Total payout can never exceed the market's own collateral pool": no
\* settlement pays the winners more than the pool held (_finalize_market_resolution).
PayoutWithinPool ==
  [][market'.winner # None /\ (market.status # "resolved" \/ market'.winner # market.winner)
       /\ market'.status = "resolved"
     => SumFunctionOnSet([t \in Traders |-> Payout(market, t, market'.winner)], Traders) <= market.pool]_market

=============================================================================
