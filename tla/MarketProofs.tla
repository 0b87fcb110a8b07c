---------------------------- MODULE MarketProofs ----------------------------
(***************************************************************************)
(* The books of a market balance, its order book is uncrossed and trades in *)
(* price-time priority, for any traders, outcomes, offers and bounds.       *)
(*                                                                         *)
(* A request is a composition of operators on the record of the market, so  *)
(* the proof follows the record through them.  Traded says what a fill      *)
(* changes, CancelledTo, Settled and PostedTo what the other operators do.  *)
(* Matching is a recursion over the orders that the incoming one may meet;  *)
(* Meeting is its invariant: cash, collateral and reservations are accounted *)
(* for with the incoming order counted as one of the book's, and the orders *)
(* met so far are filled or do not cross.  MarketInv is what holds between  *)
(* requests: the book is sound, numbered, dated, backed and uncrossed, and  *)
(* until a winner is named the money adds up.                              *)
(***************************************************************************)
EXTENDS Market, DataProofs

(* ----------------------- prices and reservations ------------------------- *)
LEMMA NotNegative ==
  ASSUME NEW n \in Int
  PROVE  Max({0, n}) = IF n > 0 THEN n ELSE 0
<1> DEFINE m == IF n > 0 THEN n ELSE 0
<1>1. m \in {0, n} /\ \A y \in {0, n} : m >= y
  OBVIOUS
<1>2. \A x \in {0, n} : (\A y \in {0, n} : x >= y) => x = m
  OBVIOUS
<1> HIDE DEF m
<1>3. Max({0, n}) = m
  BY <1>1, <1>2 DEF Max
<1> QED
  BY <1>3 DEF m

LEMMA TheSmaller ==
  ASSUME NEW a \in Int, NEW b \in Int
  PROVE  Min({a, b}) = IF a < b THEN a ELSE b
<1> DEFINE m == IF a < b THEN a ELSE b
<1>1. m \in {a, b} /\ \A y \in {a, b} : m <= y
  OBVIOUS
<1>2. \A x \in {a, b} : (\A y \in {a, b} : x <= y) => x = m
  OBVIOUS
<1> HIDE DEF m
<1>3. Min({a, b}) = m
  BY <1>1, <1>2 DEF Min
<1> QED
  BY <1>3 DEF m

LEMMA Quotient ==
  ASSUME NEW a \in Nat, NEW b \in Nat \ {0}
  PROVE  a \div b \in Nat /\ (a \div b) * b <= a /\ a < (a \div b) * b + b
OBVIOUS

\* What is left of a proportional reservation shrinks with what is left to fill.
LEMMA ShareOf ==
  ASSUME NEW r \in Nat, NEW q \in Nat \ {0}, NEW m \in 0..q, NEW n \in 0..m
  PROVE  /\ (r * m) \div q \in Nat /\ (r * n) \div q \in Nat
         /\ (r * n) \div q <= (r * m) \div q
         /\ (r * q) \div q = r /\ (r * 0) \div q = 0
<1>1. m \in Nat /\ n \in Nat /\ n <= m
  OBVIOUS
<1>2. r * m \in Nat /\ r * n \in Nat /\ r * n <= r * m
  BY <1>1
<1> DEFINE x == (r * m) \div q
           y == (r * n) \div q
           z == (r * q) \div q
<1>3. x \in Nat /\ y \in Nat /\ y * q <= r * n /\ r * m < x * q + q
  BY <1>2, Quotient
<1>4. z \in Nat /\ z * q <= r * q /\ r * q < z * q + q
  BY Quotient
<1>5. r * 0 = 0 /\ 0 \div q = 0
  OBVIOUS
<1> HIDE DEF x, y, z
<1>6. y * q < (x + 1) * q
  <2>1. (x + 1) * q = x * q + q
    BY <1>3
  <2>2. y * q \in Nat /\ x * q \in Nat /\ x * q + q \in Nat
    BY <1>3
  <2> QED
    BY <1>2, <1>3, <2>1, <2>2
<1>7. y <= x
  BY <1>3, <1>6
<1>8. z * q <= r * q /\ r * q < (z + 1) * q
  <2>1. (z + 1) * q = z * q + q
    BY <1>4
  <2> QED
    BY <1>4, <2>1
<1>9. z <= r /\ r < z + 1
  BY <1>4, <1>8
<1> QED
  BY <1>3, <1>4, <1>5, <1>7, <1>9 DEF x, y, z

AllOffers == UNION {Offers[t] : t \in Traders}

LEMMA Prices ==
  ASSUME NEW p \in BasisPoints, NEW q \in Nat
  PROVE  /\ ShareCost(p, q) \in Nat
         /\ ShortCollateral(p, 1) \in Nat /\ ShortCollateral(p, q) \in Nat
         /\ ShortCollateral(p, q) = ShortCollateral(p, 1) * q
<1> DEFINE d == (Unit * p) \div 10000
<1>1. Unit \in Nat
  BY MarketConstants
<1>2. Unit * p \in Nat /\ Unit * p <= Unit * 10000
  BY <1>1 DEF BasisPoints
<1>3. d \in Nat /\ d <= Unit
  <2> DEFINE x == Unit * p
  <2>1. x \in Nat /\ x <= Unit * 10000
    BY <1>2
  <2> HIDE DEF x
  <2>2. x \div 10000 \in Nat /\ x \div 10000 <= Unit
    BY <1>1, <2>1
  <2> QED
    BY <2>2 DEF x
<1>4. ShareCost(p, q) = d * q /\ ShortCollateral(p, q) = (Unit - d) * q /\ ShortCollateral(p, 1) = (Unit - d) * 1
  BY DEF ShareCost, ShortCollateral
<1> HIDE DEF d
<1>5. (Unit - d) * 1 = Unit - d /\ Unit - d \in Nat
  BY <1>1, <1>3
<1>6. d * q \in Nat /\ (Unit - d) * q \in Nat
  BY <1>3, <1>5
<1> QED
  BY <1>4, <1>5, <1>6

LEMMA LeastOfAll == LeastPledge \in Nat /\ \A f \in AllOffers : LeastPledge <= ShortCollateral(f.price, 1)
<1> DEFINE S == {ShortCollateral(f.price, 1) : f \in AllOffers}
<1>1. \A f \in AllOffers : f.price \in BasisPoints
  BY MarketConstants DEF AllOffers, OfferType
<1>2. S \subseteq Nat
  <2>1. \A f \in AllOffers : ShortCollateral(f.price, 1) \in Nat
    BY <1>1, Prices
  <2> QED
    BY <2>1
<1>3. S # {}
  BY MarketConstants DEF AllOffers
<1>4. LeastPledge = Min(S)
  BY DEF LeastPledge, AllOffers
<1> HIDE DEF S
<1>5. PICK m \in S : \A n \in S : m <= n
  BY <1>2, <1>3, LeastElement
<1>6. Min(S) \in S /\ \A n \in S : Min(S) <= n
  BY <1>5 DEF Min
<1> QED
  BY <1>2, <1>4, <1>6 DEF S

(* The record of a market *)
(* -------------------------------- records ---------------------------- *)
OrderType ==
  [id : Int, trader : Traders, outcome : Outcomes, side : {"buy", "sell"}, price : BasisPoints,
   qty : Nat \ {0}, left : Nat, kind : Kinds, reserve : Nat, at : Nat, status : OrderStatuses]
QueueType == [enabled : BOOLEAN, label : {None, SourceLabel}, status : QueueStatuses, at : Nat]
MarketType ==
  [status : Statuses, orders : Seq(OrderType), balance : [Traders -> Int], reserved : [Traders -> Nat],
   position : [Traders -> [Outcomes -> Int]], collateral : [Traders -> [Outcomes -> Nat]], pool : Nat,
   settlements : Nat, winner : Outcomes \union {None}, plan : [Traders -> Nat], queue : QueueType]
BookType == [m : MarketType, o : OrderType, rest : SUBSET Nat]

\* The entries of an order that a trade leaves alone are those it came with.
OrderFine(o) ==
  /\ o.left <= o.qty /\ (o.status = "filled" <=> o.left = 0)
  /\ \E f \in AllOffers : o.price = f.price

LEMMA OrderAfterFill ==
  ASSUME NEW o \in OrderType, OrderFine(o), NEW q \in Nat, q <= o.left
  PROVE  /\ AfterFill(o, q) \in OrderType /\ OrderFine(AfterFill(o, q))
         /\ AfterFill(o, q).left = o.left - q
         /\ AfterFill(o, q).status = IF o.left = q THEN "filled" ELSE o.status
         /\ AfterFill(o, q).id = o.id /\ AfterFill(o, q).trader = o.trader
         /\ AfterFill(o, q).outcome = o.outcome /\ AfterFill(o, q).side = o.side
         /\ AfterFill(o, q).price = o.price /\ AfterFill(o, q).qty = o.qty
         /\ AfterFill(o, q).kind = o.kind /\ AfterFill(o, q).reserve = o.reserve
         /\ AfterFill(o, q).at = o.at
<1> DEFINE status == IF o.left = q THEN "filled" ELSE o.status
           e == [o EXCEPT !.left = o.left - q]
<1>1. o.left \in Nat /\ o.left - q \in Nat /\ o.qty \in Nat /\ o.status \in OrderStatuses
  BY DEF OrderType
<1>2. status \in OrderStatuses
  BY <1>1 DEF OrderStatuses
<1> HIDE DEF status
<1>3. e \in OrderType
  BY <1>1 DEF OrderType
<1> HIDE DEF e
<1>4. [e EXCEPT !.status = status] \in OrderType
  BY <1>2, <1>3 DEF OrderType
<1>5. AfterFill(o, q) = [o EXCEPT !.left = o.left - q, !.status = status]
  BY DEF AfterFill, status
<1>6. AfterFill(o, q) = [e EXCEPT !.status = status]
  BY <1>5 DEF e
<1>7. /\ AfterFill(o, q).left = o.left - q /\ AfterFill(o, q).status = status
      /\ AfterFill(o, q).id = o.id /\ AfterFill(o, q).trader = o.trader
      /\ AfterFill(o, q).outcome = o.outcome /\ AfterFill(o, q).side = o.side
      /\ AfterFill(o, q).price = o.price /\ AfterFill(o, q).qty = o.qty
      /\ AfterFill(o, q).kind = o.kind /\ AfterFill(o, q).reserve = o.reserve
      /\ AfterFill(o, q).at = o.at
  BY <1>5 DEF OrderType
<1>8. status = "filled" <=> o.left - q = 0
  BY <1>1 DEF OrderFine, status
<1>9. OrderFine(AfterFill(o, q))
  BY <1>1, <1>7, <1>8 DEF OrderFine
<1> QED
  BY <1>4, <1>6, <1>7, <1>9 DEF status

LEMMA MarketWith ==
  ASSUME NEW m \in MarketType
  PROVE  /\ \A v \in Statuses : [m EXCEPT !.status = v] \in MarketType
         /\ \A v \in Seq(OrderType) : [m EXCEPT !.orders = v] \in MarketType
         /\ \A v \in [Traders -> Int] : [m EXCEPT !.balance = v] \in MarketType
         /\ \A v \in [Traders -> Nat] : [m EXCEPT !.reserved = v] \in MarketType
         /\ \A v \in [Traders -> [Outcomes -> Int]] : [m EXCEPT !.position = v] \in MarketType
         /\ \A v \in [Traders -> [Outcomes -> Nat]] : [m EXCEPT !.collateral = v] \in MarketType
         /\ \A v \in Nat : [m EXCEPT !.pool = v] \in MarketType
         /\ \A v \in Nat : [m EXCEPT !.settlements = v] \in MarketType
         /\ \A v \in Outcomes \union {None} : [m EXCEPT !.winner = v] \in MarketType
         /\ \A v \in [Traders -> Nat] : [m EXCEPT !.plan = v] \in MarketType
         /\ \A v \in QueueType : [m EXCEPT !.queue = v] \in MarketType
BY DEF MarketType

(* What a trade moves *)
(* ------------------------- sums over the traders --------------------- *)
ShareSum(position, x) == SumFunctionOnSet([t \in Traders |-> position[t][x]], Traders)
Sold(position) == \A x \in Outcomes : ShareSum(position, x) = 0
PledgeSum(collateral) ==
  SumFunctionOnSet([t \in Traders |-> SumFunctionOnSet(collateral[t], Outcomes)], Traders)
Balanced(balance, collateral, pool) ==
  /\ SumFunctionOnSet(balance, Traders) + pool = Deposit * Cardinality(Traders)
  /\ pool = PledgeSum(collateral)
Covered(position, collateral) ==
  \A t \in Traders, x \in Outcomes : collateral[t][x] >= -position[t][x] * LeastPledge

CashMoved(after, balance, c) ==
  /\ after \in [Traders -> Int]
  /\ SumFunctionOnSet(after, Traders) = SumFunctionOnSet(balance, Traders) - c

LEMMA CashMoves ==
  ASSUME NEW balance \in [Traders -> Int], NEW buyer \in Traders, NEW seller \in Traders, buyer # seller,
         NEW cost \in Int, NEW c \in Int
  PROVE  CashMoved(Cash(balance, buyer, seller, cost, c), balance, c)
<1> DEFINE e == balance
           f == [e EXCEPT ![buyer] = @ - cost]
           g == [f EXCEPT ![seller] = @ + cost - c]
<1>1. f \in [Traders -> Int] /\ g \in [Traders -> Int]
  OBVIOUS
<1>2. f[buyer] = e[buyer] - cost /\ \A t \in Traders \ {buyer} : e[t] = f[t]
  OBVIOUS
<1>3. g[seller] = f[seller] + cost - c /\ \A t \in Traders \ {seller} : f[t] = g[t]
  BY <1>1
<1>4. Cash(balance, buyer, seller, cost, c) = g
  BY DEF Cash
<1>5. /\ IsFiniteSet(Traders)
      /\ \A t \in Traders : e[t] \in Int /\ f[t] \in Int /\ g[t] \in Int
  BY <1>1, MarketConstants
<1>6. SumFunctionOnSet(e, Traders) = SumFunctionOnSet(balance, Traders)
  OBVIOUS
<1> HIDE DEF e, f, g
<1>7. SumFunctionOnSet(f, Traders) = SumFunctionOnSet(e, Traders) + (f[buyer] - e[buyer])
  <2>1. ChangedAt(e, f, Traders, buyer)
    BY <1>2, <1>5 DEF ChangedAt
  <2> QED
    BY <1>5, <2>1, SumChanged
<1>8. SumFunctionOnSet(g, Traders) = SumFunctionOnSet(f, Traders) + (g[seller] - f[seller])
  <2>1. ChangedAt(f, g, Traders, seller)
    BY <1>3, <1>5 DEF ChangedAt
  <2> QED
    BY <1>5, <2>1, SumChanged
<1>9. SumFunctionOnSet(f, Traders) \in Int /\ SumFunctionOnSet(e, Traders) \in Int
  BY <1>5, SumInt
<1> QED
  BY <1>1, <1>2, <1>3, <1>4, <1>5, <1>6, <1>7, <1>8, <1>9 DEF CashMoved

SharesMoved(after, position, buyer, seller, x, q) ==
  /\ after \in [Traders -> [Outcomes -> Int]]
  /\ after[buyer][x] = position[buyer][x] + q /\ after[seller][x] = position[seller][x] - q
  /\ \A t \in Traders, y \in Outcomes :
       y # x \/ t \notin {buyer, seller} => after[t][y] = position[t][y]
  /\ Sold(position) => Sold(after)

LEMMA SharesMove ==
  ASSUME NEW position \in [Traders -> [Outcomes -> Int]],
         NEW buyer \in Traders, NEW seller \in Traders, buyer # seller,
         NEW x \in Outcomes, NEW q \in Int
  PROVE  SharesMoved(Shares(position, buyer, seller, x, q), position, buyer, seller, x, q)
<1> DEFINE after == Shares(position, buyer, seller, x, q)
<1> DEFINE p == [position EXCEPT ![buyer][x] = @ + q]
<1>1. /\ p \in [Traders -> [Outcomes -> Int]] /\ p[buyer][x] = position[buyer][x] + q
      /\ \A t \in Traders, y \in Outcomes : y # x \/ t # buyer => p[t][y] = position[t][y]
  OBVIOUS
<1>2. after = [p EXCEPT ![seller][x] = @ - q]
  BY DEF Shares
<1> HIDE DEF p, after
<1>3. /\ after \in [Traders -> [Outcomes -> Int]] /\ after[seller][x] = p[seller][x] - q
      /\ \A t \in Traders, y \in Outcomes : y # x \/ t # seller => after[t][y] = p[t][y]
  BY <1>1, <1>2
<1>4. /\ after \in [Traders -> [Outcomes -> Int]]
      /\ after[buyer][x] = position[buyer][x] + q /\ after[seller][x] = position[seller][x] - q
      /\ \A t \in Traders, y \in Outcomes :
           y # x \/ t \notin {buyer, seller} => after[t][y] = position[t][y]
  BY <1>1, <1>3
<1>5. ASSUME Sold(position), NEW y \in Outcomes
      PROVE  ShareSum(after, y) = 0
  <2> DEFINE f == [t \in Traders |-> position[t][y]]
             g == [t \in Traders |-> IF t = buyer THEN after[t][y] ELSE position[t][y]]
             h == [t \in Traders |-> after[t][y]]
  <2>1. SumFunctionOnSet(f, Traders) = 0 /\ ShareSum(after, y) = SumFunctionOnSet(h, Traders)
    BY <1>5 DEF Sold, ShareSum
  <2>2. /\ IsFiniteSet(Traders)
        /\ \A t \in Traders : f[t] \in Int /\ g[t] \in Int /\ h[t] \in Int
    BY <1>4, MarketConstants
  <2>3. /\ \A t \in Traders \ {buyer} : f[t] = g[t]
        /\ \A t \in Traders \ {seller} : g[t] = h[t]
        /\ (g[buyer] - f[buyer]) + (h[seller] - g[seller]) = 0
    BY <1>4
  <2> HIDE DEF f, g, h
  <2>4. /\ SumFunctionOnSet(g, Traders) = SumFunctionOnSet(f, Traders) + (g[buyer] - f[buyer])
        /\ SumFunctionOnSet(h, Traders) = SumFunctionOnSet(g, Traders) + (h[seller] - g[seller])
    <3>1. ChangedAt(f, g, Traders, buyer) /\ ChangedAt(g, h, Traders, seller)
      BY <2>2, <2>3 DEF ChangedAt
    <3> QED
      BY <2>2, <3>1, SumChanged
  <2>5. SumFunctionOnSet(f, Traders) \in Int /\ SumFunctionOnSet(g, Traders) \in Int
    BY <2>2, SumInt
  <2> QED
    BY <2>1, <2>2, <2>3, <2>4, <2>5
<1> QED
  BY <1>4, <1>5 DEF Sold, SharesMoved, after

PledgeMoved(after, collateral, seller, x, c) ==
  /\ after \in [Traders -> [Outcomes -> Nat]]
  /\ after[seller][x] = collateral[seller][x] + c
  /\ \A t \in Traders, y \in Outcomes : y # x \/ t # seller => after[t][y] = collateral[t][y]
  /\ PledgeSum(collateral) \in Nat /\ PledgeSum(after) = PledgeSum(collateral) + c

LEMMA PledgeMoves ==
  ASSUME NEW collateral \in [Traders -> [Outcomes -> Nat]], NEW seller \in Traders,
         NEW x \in Outcomes, NEW c \in Nat
  PROVE  PledgeMoved(Pledged(collateral, seller, x, c), collateral, seller, x, c)
<1> DEFINE after == Pledged(collateral, seller, x, c)
<1>1. /\ after \in [Traders -> [Outcomes -> Nat]]
      /\ after[seller][x] = collateral[seller][x] + c
      /\ \A t \in Traders, y \in Outcomes : y # x \/ t # seller => after[t][y] = collateral[t][y]
      /\ \A t \in Traders \ {seller} : after[t] = collateral[t]
  BY DEF Pledged
<1> HIDE DEF after
<1> DEFINE f == [t \in Traders |-> SumFunctionOnSet(collateral[t], Outcomes)]
           g == [t \in Traders |-> SumFunctionOnSet(after[t], Outcomes)]
<1>2. IsFiniteSet(Traders) /\ IsFiniteSet(Outcomes)
  BY MarketConstants
<1>3. \A t \in Traders : \A y \in Outcomes : collateral[t][y] \in Nat /\ after[t][y] \in Nat
  BY <1>1
<1>4. \A t \in Traders : f[t] \in Nat /\ g[t] \in Nat
  BY <1>2, <1>3, SumNat
<1>5. g[seller] = f[seller] + c
  <2>1. SumFunctionOnSet(after[seller], Outcomes)
          = SumFunctionOnSet(collateral[seller], Outcomes) + (after[seller][x] - collateral[seller][x])
    <3> DEFINE u == collateral[seller]
               v == after[seller]
    <3>1. /\ \A y \in Outcomes : u[y] \in Int /\ v[y] \in Int
          /\ \A y \in Outcomes \ {x} : u[y] = v[y]
      BY <1>1, <1>3
    <3> HIDE DEF u, v
    <3>2. ChangedAt(u, v, Outcomes, x)
      BY <3>1 DEF ChangedAt
    <3>3. SumFunctionOnSet(v, Outcomes) = SumFunctionOnSet(u, Outcomes) + (v[x] - u[x])
      BY <1>2, <3>2, SumChanged
    <3> QED
      BY <3>3 DEF u, v
  <2> QED
    BY <1>1, <1>3, <1>4, <2>1
<1>6. \A t \in Traders \ {seller} : f[t] = g[t]
  BY <1>1
<1>7. PledgeSum(collateral) = SumFunctionOnSet(f, Traders) /\ PledgeSum(after) = SumFunctionOnSet(g, Traders)
  BY DEF PledgeSum
<1> HIDE DEF f, g
<1>8. SumFunctionOnSet(g, Traders) = SumFunctionOnSet(f, Traders) + (g[seller] - f[seller])
  <2>1. ChangedAt(f, g, Traders, seller)
    BY <1>4, <1>6 DEF ChangedAt
  <2> QED
    BY <1>2, <2>1, SumChanged
<1>9. SumFunctionOnSet(f, Traders) \in Nat
  BY <1>2, <1>4, SumNat
<1> QED
  BY <1>1, <1>4, <1>5, <1>7, <1>8, <1>9 DEF PledgeMoved, after

\* A trade sells what the seller has before it goes short, and pledges the rest
\* at no less than the least pledge.
LEMMA CoverKept ==
  ASSUME NEW p \in Int, NEW c \in Nat, NEW q \in Nat, NEW L \in Nat, NEW P \in Nat, L <= P,
         c >= -p * L,
         NEW s \in Nat, s = IF q - (IF p > 0 THEN p ELSE 0) > 0 THEN q - (IF p > 0 THEN p ELSE 0) ELSE 0
  PROVE  c + P * s >= -(p - q) * L
<1> DEFINE u == P * s
           v == L * s
<1>1. u \in Nat /\ v \in Nat /\ u >= v
  OBVIOUS
<1>2. CASE p <= 0
  <2>1. s = q
    BY <1>2
  <2>2. -(p - q) * L = -p * L + L * q
    OBVIOUS
  <2>3. -p * L \in Int /\ L * q = v
    BY <2>1
  <2> HIDE DEF u, v
  <2>4. c + u >= -p * L + v
    BY <1>1, <2>3
  <2> QED
    BY <2>2, <2>3, <2>4 DEF u
<1>3. CASE p > 0
  <2>1. s >= -(p - q)
    BY <1>3
  <2>2. L * s >= L * (-(p - q))
    BY <2>1
  <2>3. L * (-(p - q)) = -(p - q) * L /\ -(p - q) * L \in Int
    OBVIOUS
  <2> HIDE DEF u, v
  <2>4. v >= -(p - q) * L
    BY <2>2, <2>3 DEF v
  <2> QED
    BY <1>1, <2>3, <2>4 DEF u
<1> QED
  BY <1>2, <1>3

LEMMA CoveredAfterTrade ==
  ASSUME NEW m \in MarketType, Covered(m.position, m.collateral),
         NEW buyer \in Traders, NEW seller \in Traders, buyer # seller,
         NEW x \in Outcomes, NEW q \in Nat, NEW f \in AllOffers,
         NEW c, c = ShortCollateral(f.price, ShortPart(m, seller, x, q))
  PROVE  /\ c \in Nat
         /\ Covered(Shares(m.position, buyer, seller, x, q), Pledged(m.collateral, seller, x, c))
<1> DEFINE s == ShortPart(m, seller, x, q)
           p == m.position[seller][x]
           g == m.collateral[seller][x]
           P == ShortCollateral(f.price, 1)
           pos == Shares(m.position, buyer, seller, x, q)
           col == Pledged(m.collateral, seller, x, c)
<1>1. /\ m.position \in [Traders -> [Outcomes -> Int]] /\ m.collateral \in [Traders -> [Outcomes -> Nat]]
      /\ p \in Int /\ g \in Nat
  BY DEF MarketType
<1>2. f.price \in BasisPoints
  BY MarketConstants DEF AllOffers, OfferType
<1>3. s \in Nat /\ s = IF q - (IF p > 0 THEN p ELSE 0) > 0 THEN q - (IF p > 0 THEN p ELSE 0) ELSE 0
  <2> HIDE DEF p
  <2>1. Max({0, p}) = IF p > 0 THEN p ELSE 0
    BY <1>1, NotNegative
  <2> DEFINE n == q - Max({0, p})
  <2>2. n \in Int /\ n = q - (IF p > 0 THEN p ELSE 0)
    BY <1>1, <2>1
  <2>3. s = Max({0, n})
    BY DEF ShortPart, p
  <2> HIDE DEF n, s
  <2> QED
    BY <1>1, <2>2, <2>3, NotNegative
<1>4. P \in Nat /\ c = P * s /\ c \in Nat
  BY <1>2, <1>3, Prices
<1>5. LeastPledge \in Nat /\ LeastPledge <= P
  BY LeastOfAll
<1>6. g >= -p * LeastPledge
  BY DEF Covered
<1> HIDE DEF s, P
<1>7. g + c >= -(p - q) * LeastPledge
  <2> HIDE DEF p, g
  <2> QED
    BY <1>1, <1>3, <1>4, <1>5, <1>6, CoverKept
<1>8. /\ pos \in [Traders -> [Outcomes -> Int]]
      /\ pos[buyer][x] = m.position[buyer][x] + q /\ pos[seller][x] = p - q
      /\ \A t \in Traders, y \in Outcomes :
           y # x \/ t \notin {buyer, seller} => pos[t][y] = m.position[t][y]
  <2>1. SharesMoved(pos, m.position, buyer, seller, x, q)
    BY <1>1, SharesMove
  <2> QED
    BY <2>1 DEF SharesMoved
<1>9. /\ col \in [Traders -> [Outcomes -> Nat]] /\ col[seller][x] = g + c
      /\ \A t \in Traders, y \in Outcomes : y # x \/ t # seller => col[t][y] = m.collateral[t][y]
  <2>1. PledgeMoved(col, m.collateral, seller, x, c)
    BY <1>1, <1>4, PledgeMoves
  <2> QED
    BY <2>1 DEF PledgeMoved
<1> HIDE DEF p, g, pos, col
<1>10. ASSUME NEW t \in Traders, NEW y \in Outcomes
       PROVE  col[t][y] >= -pos[t][y] * LeastPledge
  <2>1. CASE y = x /\ t = seller
    BY <1>7, <1>8, <1>9, <2>1
  <2>2. CASE y = x /\ t = buyer
    <3> DEFINE k == m.position[buyer][x]
               n == m.collateral[buyer][x]
    <3>1. k \in Int /\ n \in Nat /\ n >= -k * LeastPledge
      BY <1>1 DEF Covered
    <3>2. pos[t][y] = k + q /\ col[t][y] = n
      BY <1>8, <1>9, <2>2
    <3> HIDE DEF k, n
    <3>3. -(k + q) * LeastPledge = -k * LeastPledge - q * LeastPledge
      BY <1>5, <3>1
    <3>4. -k * LeastPledge \in Int /\ q * LeastPledge \in Nat
      BY <1>5, <3>1
    <3>5. n >= -(k + q) * LeastPledge
      BY <3>1, <3>3, <3>4
    <3> QED
      BY <3>2, <3>5
  <2>3. CASE y # x \/ t \notin {buyer, seller}
    BY <1>8, <1>9, <2>3 DEF Covered
  <2> QED
    BY <2>1, <2>2, <2>3
<1> QED
  BY <1>4, <1>10 DEF Covered, pos, col

(* What the orders reserve *)
(* ------------------------ reservations of a book --------------------- *)
OrdersFine(orders) == orders \in Seq(OrderType) /\ \A i \in DOMAIN orders : OrderFine(orders[i])
Incoming(o, t) == IF t = o.trader THEN ReservedFor(o, o.left) ELSE 0
Backed(orders, reserved) == \A t \in Traders : reserved[t] = Locked(orders, DOMAIN orders, t)
BackedWith(orders, reserved, o) ==
  \A t \in Traders : reserved[t] = Locked(orders, DOMAIN orders, t) + Incoming(o, t)

LEMMA OrdersTyped ==
  ASSUME NEW orders, OrdersFine(orders)
  PROVE  /\ IsFiniteSet(DOMAIN orders) /\ DOMAIN orders = 1..Len(orders) /\ Len(orders) \in Nat
         /\ \A i \in DOMAIN orders : orders[i] \in OrderType /\ OrderFine(orders[i])
<1>1. orders \in Seq(OrderType)
  BY DEF OrdersFine
<1>2. DOMAIN orders = 1..Len(orders) /\ Len(orders) \in Nat
  BY <1>1
<1>3. IsFiniteSet(1..Len(orders))
  BY <1>2, FS_Interval
<1>4. \A i \in DOMAIN orders : orders[i] \in OrderType
  BY <1>1, <1>2
<1> QED
  BY <1>2, <1>3, <1>4 DEF OrdersFine

LEMMA ReservedShare ==
  ASSUME NEW o \in OrderType, OrderFine(o), NEW q \in Nat, q <= o.left
  PROVE  /\ ReservedFor(o, o.left) \in Nat /\ ReservedFor(o, o.left - q) \in Nat
         /\ FreedBy(o, q) \in Nat
         /\ FreedBy(o, q) = ReservedFor(o, o.left) - ReservedFor(o, o.left - q)
         /\ ReservedFor(o, o.qty) = o.reserve /\ ReservedFor(o, 0) = 0
<1>1. o.reserve \in Nat /\ o.qty \in Nat \ {0} /\ o.left \in 0..o.qty /\ o.left - q \in 0..o.left
  BY DEF OrderType, OrderFine
<1>2. /\ (o.reserve * o.left) \div o.qty \in Nat /\ (o.reserve * (o.left - q)) \div o.qty \in Nat
      /\ (o.reserve * (o.left - q)) \div o.qty <= (o.reserve * o.left) \div o.qty
      /\ (o.reserve * o.qty) \div o.qty = o.reserve /\ (o.reserve * 0) \div o.qty = 0
  BY <1>1, ShareOf
<1>3. /\ ReservedFor(o, o.left) = (o.reserve * o.left) \div o.qty
      /\ ReservedFor(o, o.left - q) = (o.reserve * (o.left - q)) \div o.qty
      /\ ReservedFor(o, o.qty) = (o.reserve * o.qty) \div o.qty
      /\ ReservedFor(o, 0) = (o.reserve * 0) \div o.qty
  BY DEF ReservedFor
<1> DEFINE a == (o.reserve * o.left) \div o.qty
           e == (o.reserve * (o.left - q)) \div o.qty
<1> HIDE DEF a, e
<1>4. a \in Nat /\ e \in Nat /\ e <= a /\ ReservedFor(o, o.left) = a /\ ReservedFor(o, o.left - q) = e
  BY <1>2, <1>3 DEF a, e
<1>5. FreedBy(o, q) = a - e
  BY <1>4 DEF FreedBy
<1> QED
  BY <1>2, <1>3, <1>4, <1>5

LEMMA LocksNatural ==
  ASSUME NEW o \in OrderType, OrderFine(o)
  PROVE  \A t : Locks(o, t) \in Nat
<1>1. 0 \in Nat /\ 0 <= o.left
  BY DEF OrderType
<1>2. ReservedFor(o, o.left) \in Nat
  BY <1>1, ReservedShare
<1> QED
  BY <1>2 DEF Locks

LEMMA LockedNatural ==
  ASSUME NEW orders, OrdersFine(orders), NEW S, S \subseteq DOMAIN orders, NEW t
  PROVE  /\ Locked(orders, S, t) \in Nat /\ Locked(orders, DOMAIN orders, t) \in Nat
         /\ Locked(orders, DOMAIN orders, t) = Locked(orders, S, t) + Locked(orders, DOMAIN orders \ S, t)
         /\ Locked(orders, DOMAIN orders \ S, t) \in Nat
<1> DEFINE f == [i \in DOMAIN orders |-> Locks(orders[i], t)]
           D == DOMAIN orders
<1>1. IsFiniteSet(D) /\ \A i \in D : f[i] \in Nat
  BY OrdersTyped, LocksNatural
<1>2. \A T : Locked(orders, T, t) = SumFunctionOnSet(f, T)
  BY DEF Locked
<1>3. S \subseteq D /\ D \ S \subseteq D /\ D \subseteq D
  OBVIOUS
<1> HIDE DEF f
<1>4. /\ SumFunctionOnSet(f, S) \in Nat /\ SumFunctionOnSet(f, D \ S) \in Nat
      /\ SumFunctionOnSet(f, D) \in Nat
  BY <1>1, <1>3, SumSubset
<1>5. \A i \in D : f[i] \in Int
  BY <1>1
<1>6. SumFunctionOnSet(f, D) = SumFunctionOnSet(f, S) + SumFunctionOnSet(f, D \ S)
  BY <1>1, <1>3, <1>5, SumSplit
<1> QED
  BY <1>2, <1>4, <1>6

Freed(o, t, q) == IF t = o.trader THEN FreedBy(o, q) ELSE 0

LEMMA LockedAfterFill ==
  ASSUME NEW orders, OrdersFine(orders), NEW i \in DOMAIN orders, orders[i].status = "open",
         NEW q \in Nat, q <= orders[i].left,
         NEW after, after = [orders EXCEPT ![i] = AfterFill(orders[i], q)]
  PROVE  /\ OrdersFine(after) /\ DOMAIN after = DOMAIN orders /\ Len(after) = Len(orders)
         /\ \A t \in Traders :
              Locked(after, DOMAIN after, t) = Locked(orders, DOMAIN orders, t) - Freed(orders[i], t, q)
<1>1. orders \in Seq(OrderType) /\ orders[i] \in OrderType /\ OrderFine(orders[i]) /\ IsFiniteSet(DOMAIN orders)
  BY OrdersTyped DEF OrdersFine
<1> DEFINE a == AfterFill(orders[i], q)
<1>2. /\ a \in OrderType /\ OrderFine(a) /\ a.left = orders[i].left - q
      /\ a.status = IF orders[i].left = q THEN "filled" ELSE orders[i].status
      /\ a.trader = orders[i].trader /\ a.qty = orders[i].qty /\ a.reserve = orders[i].reserve
  BY <1>1, OrderAfterFill
<1> HIDE DEF a
<1>3. after = [orders EXCEPT ![i] = a]
  BY DEF a
<1>4. /\ after \in Seq(OrderType) /\ DOMAIN after = DOMAIN orders /\ Len(after) = Len(orders)
      /\ after[i] = a /\ \A j \in DOMAIN orders \ {i} : after[j] = orders[j]
  BY <1>1, <1>2, <1>3
<1>5. OrdersFine(after)
  BY <1>2, <1>4 DEF OrdersFine
<1>6. ASSUME NEW t \in Traders
      PROVE  Locked(after, DOMAIN after, t) = Locked(orders, DOMAIN orders, t) - Freed(orders[i], t, q)
  <2> DEFINE D == DOMAIN orders
             f == [j \in D |-> Locks(orders[j], t)]
             g == [j \in D |-> Locks(after[j], t)]
  <2>1. /\ Locked(orders, DOMAIN orders, t) = SumFunctionOnSet(f, D)
        /\ Locked(after, DOMAIN after, t) = SumFunctionOnSet(g, D)
    BY <1>4 DEF Locked
  <2>2. \A j \in D : f[j] \in Nat /\ g[j] \in Nat
    <3>1. \A j \in D : orders[j] \in OrderType /\ OrderFine(orders[j]) /\ after[j] \in OrderType /\ OrderFine(after[j])
      BY <1>4, <1>5, OrdersTyped
    <3> QED
      BY <3>1, LocksNatural
  <2>3. \A j \in D \ {i} : f[j] = g[j]
    BY <1>4
  <2>4. f[i] = Locks(orders[i], t) /\ g[i] = Locks(a, t)
    BY <1>4
  <2> HIDE DEF f, g
  <2>5. ChangedAt(f, g, D, i)
    BY <2>2, <2>3 DEF ChangedAt
  <2>6. SumFunctionOnSet(f, D) \in Int /\ SumFunctionOnSet(g, D) = SumFunctionOnSet(f, D) + (g[i] - f[i])
    BY <1>1, <2>5, SumChanged
  <2>7. /\ ReservedFor(orders[i], orders[i].left) \in Nat /\ ReservedFor(orders[i], orders[i].left - q) \in Nat
        /\ FreedBy(orders[i], q) = ReservedFor(orders[i], orders[i].left) - ReservedFor(orders[i], orders[i].left - q)
        /\ ReservedFor(orders[i], 0) = 0
    BY <1>1, ReservedShare
  <2>8. ReservedFor(a, a.left) = ReservedFor(orders[i], orders[i].left - q)
    BY <1>2 DEF ReservedFor
  <2>9. g[i] - f[i] = -Freed(orders[i], t, q)
    <3>1. CASE t # orders[i].trader
      BY <1>2, <2>4, <3>1 DEF Locks, Freed
    <3>2. CASE t = orders[i].trader
      <4>1. f[i] = ReservedFor(orders[i], orders[i].left)
        BY <2>4, <3>2 DEF Locks
      <4>2. g[i] = ReservedFor(orders[i], orders[i].left - q)
        <5>1. CASE orders[i].left = q
          <6>1. g[i] = 0 /\ orders[i].left - q = 0
            BY <1>2, <2>4, <5>1 DEF Locks
          <6> QED
            BY <2>7, <6>1
        <5>2. CASE orders[i].left # q
          BY <1>2, <2>4, <2>8, <3>2, <5>2 DEF Locks
        <5> QED
          BY <5>1, <5>2
      <4> QED
        BY <2>7, <3>2, <4>1, <4>2 DEF Freed
    <3> QED
      BY <3>1, <3>2
  <2> QED
    BY <2>1, <2>2, <2>6, <2>7, <2>9 DEF Freed
<1> QED
  BY <1>4, <1>5, <1>6

LEMMA Released ==
  ASSUME NEW reserved \in [Traders -> Nat], NEW t \in Traders, NEW n \in Nat, n <= reserved[t]
  PROVE  /\ Release(reserved, t, n) \in [Traders -> Nat]
         /\ \A u \in Traders : Release(reserved, t, n)[u] = reserved[u] - (IF u = t THEN n ELSE 0)
<1>1. reserved[t] - n \in Nat /\ reserved[t] \in Nat
  OBVIOUS
<1>2. Max({0, reserved[t] - n}) = reserved[t] - n
  BY <1>1, NotNegative
<1>3. Release(reserved, t, n) = [reserved EXCEPT ![t] = reserved[t] - n]
  BY <1>2 DEF Release
<1> QED
  BY <1>1, <1>3

LEMMA BackedAfterTrade ==
  ASSUME NEW orders, OrdersFine(orders), NEW i \in DOMAIN orders, orders[i].status = "open",
         NEW o \in OrderType, OrderFine(o), o.trader # orders[i].trader,
         NEW reserved \in [Traders -> Nat], BackedWith(orders, reserved, o),
         NEW q \in Nat, q <= orders[i].left, q <= o.left,
         NEW after, after = [orders EXCEPT ![i] = AfterFill(orders[i], q)],
         NEW rest, rest = Release(Release(reserved, o.trader, FreedBy(o, q)),
                                  orders[i].trader, FreedBy(orders[i], q))
  PROVE  rest \in [Traders -> Nat] /\ BackedWith(after, rest, AfterFill(o, q))
<1> DEFINE other == orders[i]
           u == o.trader
           v == other.trader
           a == FreedBy(o, q)
           c == FreedBy(other, q)
           first == Release(reserved, u, a)
<1>1. other \in OrderType /\ OrderFine(other) /\ IsFiniteSet(DOMAIN orders)
  BY OrdersTyped
<1>2. u \in Traders /\ v \in Traders /\ u # v
  BY <1>1 DEF OrderType
<1>3. /\ a \in Nat /\ a = ReservedFor(o, o.left) - ReservedFor(o, o.left - q)
      /\ ReservedFor(o, o.left) \in Nat /\ ReservedFor(o, o.left - q) \in Nat
  BY ReservedShare
<1>4. c \in Nat
  BY <1>1, ReservedShare
<1>5. /\ OrdersFine(after) /\ DOMAIN after = DOMAIN orders
      /\ \A t \in Traders : Locked(after, DOMAIN after, t) = Locked(orders, DOMAIN orders, t) - Freed(other, t, q)
  BY LockedAfterFill
<1>6. /\ other.trader = v /\ o.trader = u /\ FreedBy(other, q) = c /\ FreedBy(o, q) = a
       /\ first = Release(reserved, u, a) /\ rest = Release(first, v, c)
  OBVIOUS
<1> DEFINE L(t) == Locked(orders, DOMAIN orders, t)
           A(t) == Locked(after, DOMAIN after, t)
<1>7. \A t \in Traders : A(t) = L(t) - Freed(other, t, q)
  BY <1>5
<1>8. \A t \in Traders : Locked(orders, DOMAIN orders, t) \in Nat /\ Locked(after, DOMAIN after, t) \in Nat
  <2>1. \A s, t : OrdersFine(s) => Locked(s, DOMAIN s, t) \in Nat
    BY LockedNatural
  <2> QED
    BY <1>5, <2>1
<1>9. \A t \in Traders : L(t) \in Nat /\ A(t) \in Nat
  BY <1>8
<1>10. \A t \in Traders : reserved[t] = L(t) + Incoming(o, t)
  BY DEF BackedWith
<1> HIDE DEF L, A, other, u, v, a, c
<1>11. reserved[u] = L(u) + ReservedFor(o, o.left)
  BY <1>2, <1>10, <1>6 DEF Incoming
<1>12. a <= reserved[u]
  BY <1>2, <1>3, <1>9, <1>11
<1>13. first \in [Traders -> Nat] /\ \A t \in Traders : first[t] = reserved[t] - (IF t = u THEN a ELSE 0)
  BY <1>2, <1>3, <1>12, <1>6, Released
<1>14. first[v] = L(v) /\ A(v) = L(v) - c
  <2>1. Freed(other, v, q) = c /\ Incoming(o, v) = 0
    BY <1>2, <1>6 DEF Freed, Incoming
  <2>2. first[v] = reserved[v]
    BY <1>2, <1>13
  <2> QED
    BY <1>2, <1>7, <1>9, <1>10, <2>1, <2>2
<1>15. c <= first[v]
  BY <1>2, <1>4, <1>9, <1>14
<1> HIDE DEF first
<1>16. rest \in [Traders -> Nat] /\ \A t \in Traders : rest[t] = first[t] - (IF t = v THEN c ELSE 0)
  BY <1>2, <1>4, <1>13, <1>15, <1>6, Released
<1> DEFINE p == AfterFill(o, q)
<1>17. p.trader = u /\ p.left = o.left - q /\ p.reserve = o.reserve /\ p.qty = o.qty
  BY <1>6, OrderAfterFill
<1> HIDE DEF p
<1>18. ReservedFor(p, p.left) = ReservedFor(o, o.left - q)
  BY <1>17 DEF ReservedFor
<1>19. ASSUME NEW t \in Traders
       PROVE  rest[t] = A(t) + Incoming(p, t)
  <2>1. CASE t = u
    <3>1. rest[t] = reserved[u] - a /\ Freed(other, t, q) = 0 /\ Incoming(p, t) = ReservedFor(o, o.left - q)
      BY <1>2, <1>3, <1>13, <1>16, <1>17, <1>18, <1>6, <2>1 DEF Freed, Incoming
    <3>2. A(t) = L(u)
      BY <1>2, <1>7, <1>9, <2>1, <3>1
    <3> QED
      BY <1>2, <1>3, <1>9, <1>11, <3>1, <3>2
  <2>2. CASE t = v
    <3>1. rest[t] = first[v] - c /\ Incoming(p, t) = 0
      BY <1>2, <1>16, <1>17, <2>2 DEF Incoming
    <3> QED
      BY <1>2, <1>4, <1>9, <1>14, <2>2, <3>1
  <2>3. CASE t # u /\ t # v
    <3>1. rest[t] = reserved[t] /\ Freed(other, t, q) = 0 /\ Incoming(p, t) = 0 /\ Incoming(o, t) = 0
      BY <1>13, <1>16, <1>17, <1>6, <2>3 DEF Freed, Incoming
    <3> QED
      BY <1>7, <1>9, <1>10, <3>1
  <2> QED
    BY <2>1, <2>2, <2>3
<1> QED
  BY <1>16, <1>19 DEF BackedWith, p, A

(* Priority *)
LEMMA OrderNumbers ==
  ASSUME NEW a \in OrderType
  PROVE  a.price \in Int /\ a.at \in Nat /\ a.id \in Int /\ a.side \in {"buy", "sell"}
<1>1. a.price \in BasisPoints /\ a.at \in Nat /\ a.id \in Int /\ a.side \in {"buy", "sell"}
  BY DEF OrderType
<1>2. BasisPoints \subseteq Int
  BY DEF BasisPoints
<1> QED
  BY <1>1, <1>2

LEMMA BeforeOrder ==
  ASSUME NEW a \in OrderType, NEW b \in OrderType, NEW c \in OrderType, a.side = b.side, b.side = c.side
  PROVE  /\ Before(a, b) /\ Before(b, c) => Before(a, c)
         /\ ~Before(a, a) /\ ~(Before(a, b) /\ Before(b, a))
         /\ a.id # b.id => Before(a, b) \/ Before(b, a)
<1>1. /\ a.side \in {"buy", "sell"} /\ a.price \in Int /\ b.price \in Int /\ c.price \in Int
      /\ a.at \in Nat /\ b.at \in Nat /\ c.at \in Nat /\ a.id \in Int /\ b.id \in Int /\ c.id \in Int
  BY OrderNumbers
<1> QED
  BY <1>1 DEF Before

\* Whoever crosses an order crosses every order before it.
LEMMA CrossesBefore ==
  ASSUME NEW o \in OrderType, NEW a \in OrderType, NEW b \in OrderType,
         a.side = Opposite(o.side), b.side = a.side, Before(a, b), Crosses(o, b)
  PROVE  Crosses(o, a)
<1>1. o.side \in {"buy", "sell"} /\ o.price \in Int /\ a.price \in Int /\ b.price \in Int
  BY OrderNumbers
<1> QED
  BY <1>1 DEF Before, Crosses, Opposite

\* Ids are distinct: an order carries its position, or the negative of it.
Numbered(orders) == \A i \in DOMAIN orders : orders[i].id \in {i, -i}

LEMMA FirstOf ==
  ASSUME NEW orders, OrdersFine(orders), Numbered(orders),
         NEW S, S \subseteq DOMAIN orders, S # {}, \A i, j \in S : orders[i].side = orders[j].side
  PROVE  /\ First(orders, S) \in S
         /\ \A j \in S : j # First(orders, S) => Before(orders[First(orders, S)], orders[j])
<1>1. IsFiniteSet(S) /\ \A i \in S : i \in Nat \ {0} /\ orders[i] \in OrderType
  BY OrdersTyped, FS_Subset
<1>2. \A i, j \in S : i # j => orders[i].id # orders[j].id
  BY <1>1 DEF Numbered
<1> DEFINE Ahead(i) == {j \in S : Before(orders[j], orders[i])}
           ranks == {Cardinality(Ahead(i)) : i \in S}
<1>3. \A i \in S : IsFiniteSet(Ahead(i)) /\ Cardinality(Ahead(i)) \in Nat
  BY <1>1, FS_Subset, FS_CardinalityType
<1>4. PICK n \in ranks : \A m \in ranks : n <= m
  <2>1. ranks \subseteq Nat /\ ranks # {}
    BY <1>3
  <2> HIDE DEF ranks
  <2> QED
    BY <2>1, LeastElement
<1>5. PICK i \in S : n = Cardinality(Ahead(i))
  BY <1>4
<1>6. \A j \in S : j # i => Before(orders[i], orders[j])
  <2> SUFFICES ASSUME NEW j \in S, j # i, ~Before(orders[i], orders[j])
               PROVE  FALSE
    OBVIOUS
  <2>1. Before(orders[j], orders[i])
    BY <1>1, <1>2, BeforeOrder
  <2>2. Ahead(j) \subseteq Ahead(i) /\ j \in Ahead(i) /\ j \notin Ahead(j)
    <3>1. ~Before(orders[j], orders[j])
      BY <1>1, BeforeOrder
    <3>2. ASSUME NEW k \in S, Before(orders[k], orders[j])
          PROVE  Before(orders[k], orders[i])
      BY <1>1, <2>1, <3>2, BeforeOrder
    <3> QED
      BY <2>1, <3>1, <3>2
  <2>3. n <= Cardinality(Ahead(j))
    BY <1>4
  <2> HIDE DEF Ahead
  <2>4. Cardinality(Ahead(j)) <= Cardinality(Ahead(i)) /\ Cardinality(Ahead(j)) # Cardinality(Ahead(i))
    BY <1>3, <2>2, FS_Subset
  <2> QED
    BY <1>3, <1>5, <2>3, <2>4
<1>7. \A j \in S \ {i} : Before(orders[i], orders[j])
  BY <1>6
<1>8. First(orders, S) \in S /\ \A j \in S \ {First(orders, S)} : Before(orders[First(orders, S)], orders[j])
  BY <1>7 DEF First
<1> QED
  BY <1>8

(* One trade *)
(* ------------------------------- one fill ---------------------------- *)
\* The entries of the record that trading leaves alone.
Untouched(n, m) ==
  /\ n.status = m.status /\ n.settlements = m.settlements /\ n.winner = m.winner
  /\ n.plan = m.plan /\ n.queue = m.queue

SoundBook(m) ==
  m \in MarketType /\ OrdersFine(m.orders) /\ Sold(m.position) /\ Covered(m.position, m.collateral)
Weighed(m) == Balanced(m.balance, m.collateral, m.pool)
Smaller(a, c) == IF a < c THEN a ELSE c

Traded(b, i, n) ==
  LET q == Smaller(b.o.left, b.m.orders[i].left)
  IN /\ n \in BookType /\ n.rest = b.rest /\ n.o = AfterFill(b.o, q)
     /\ n.m.orders = [b.m.orders EXCEPT ![i] = AfterFill(b.m.orders[i], q)]
     /\ SoundBook(n.m) /\ Untouched(n.m, b.m)
     /\ (Weighed(b.m) => Weighed(n.m)) /\ BackedWith(n.m.orders, n.m.reserved, n.o)

LEMMA TradeSound ==
  ASSUME NEW b \in BookType, NEW i \in DOMAIN b.m.orders, SoundBook(b.m), OrderFine(b.o),
         b.m.orders[i].status = "open", b.o.trader # b.m.orders[i].trader,
         BackedWith(b.m.orders, b.m.reserved, b.o)
  PROVE  Traded(b, i, Trade(b, i))
<1> DEFINE m == b.m
           o == b.o
           other == m.orders[i]
           q == Min({o.left, other.left})
           buyer == IF o.side = "buy" THEN o.trader ELSE other.trader
           seller == IF o.side = "buy" THEN other.trader ELSE o.trader
           c == ShortCollateral(other.price, ShortPart(m, seller, o.outcome, q))
           cost == ShareCost(other.price, q)
           orders == [m.orders EXCEPT ![i] = AfterFill(other, q)]
           balance == Cash(m.balance, buyer, seller, cost, c)
           reserved == Release(Release(m.reserved, o.trader, FreedBy(o, q)), other.trader, FreedBy(other, q))
           position == Shares(m.position, buyer, seller, o.outcome, q)
           collateral == Pledged(m.collateral, seller, o.outcome, c)
           n == Trade(b, i)
<1>1. /\ m \in MarketType /\ o \in OrderType /\ OrdersFine(m.orders)
      /\ other \in OrderType /\ OrderFine(other)
  BY OrdersTyped DEF BookType, SoundBook
<1>2. /\ m.orders \in Seq(OrderType) /\ m.balance \in [Traders -> Int] /\ m.reserved \in [Traders -> Nat]
      /\ m.position \in [Traders -> [Outcomes -> Int]]
      /\ m.collateral \in [Traders -> [Outcomes -> Nat]] /\ m.pool \in Nat
  BY <1>1 DEF MarketType
<1>3. /\ o.left \in Nat /\ other.left \in Nat /\ o.trader \in Traders /\ other.trader \in Traders
      /\ o.outcome \in Outcomes /\ other.price \in BasisPoints
  BY <1>1 DEF OrderType
<1>4. q = Smaller(o.left, other.left) /\ q \in Nat /\ q <= o.left /\ q <= other.left
  BY <1>3, TheSmaller DEF Smaller
<1>5. buyer \in Traders /\ seller \in Traders /\ buyer # seller
  BY <1>3
<1>6. PICK f \in AllOffers : other.price = f.price
  BY <1>1 DEF OrderFine
<1>7. /\ n.o = AfterFill(o, q) /\ n.rest = b.rest /\ n = [m |-> n.m, o |-> n.o, rest |-> b.rest]
      /\ n.m = [m EXCEPT !.orders = orders, !.reserved = reserved, !.balance = balance,
                         !.position = position, !.collateral = collateral, !.pool = @ + c]
      /\ n.m.orders = orders /\ n.m.reserved = reserved /\ n.m.balance = balance /\ n.m.position = position
      /\ n.m.collateral = collateral /\ n.m.pool = m.pool + c /\ Untouched(n.m, m)
  <2> DEFINE k == [m EXCEPT !.orders = orders, !.reserved = reserved, !.balance = balance,
                            !.position = position, !.collateral = collateral, !.pool = @ + c]
  <2>1. n = [b EXCEPT !.o = AfterFill(o, q), !.m = k]
    BY DEF Trade
  <2>2. /\ k.orders = orders /\ k.reserved = reserved /\ k.balance = balance /\ k.position = position
        /\ k.collateral = collateral /\ k.pool = m.pool + c
        /\ k.status = m.status /\ k.settlements = m.settlements /\ k.winner = m.winner
        /\ k.plan = m.plan /\ k.queue = m.queue
    <3> HIDE DEF orders, reserved, balance, position, collateral, c, m
    <3> QED
      BY <1>1 DEF MarketType
  <2>3. Untouched(k, m)
    BY <2>2 DEF Untouched
  <2>4. k = [m EXCEPT !.orders = orders, !.reserved = reserved, !.balance = balance,
                      !.position = position, !.collateral = collateral, !.pool = @ + c]
    OBVIOUS
  <2> HIDE DEF k, n, q, m
  <2>5. n.m = k /\ n.o = AfterFill(o, q) /\ n.rest = b.rest /\ n = [m |-> n.m, o |-> n.o, rest |-> b.rest]
    BY <2>1 DEF BookType
  <2> QED
    BY <2>2, <2>3, <2>4, <2>5, ZenonT(30)
<1> HIDE DEF n, q, buyer, seller
<1>8. c \in Nat /\ Covered(position, collateral)
  <2>1. Covered(m.position, m.collateral)
    BY DEF SoundBook
  <2>2. c = ShortCollateral(f.price, ShortPart(m, seller, o.outcome, q))
    BY <1>6
  <2> HIDE DEF c, m, o
  <2> QED
    BY <1>1, <1>3, <1>4, <1>5, <2>1, <2>2, CoveredAfterTrade
<1>9. cost \in Nat
  BY <1>3, <1>4, Prices
<1>10. SharesMoved(position, m.position, buyer, seller, o.outcome, q)
  <2>1. q \in Int
    BY <1>4
  <2> HIDE DEF m, o
  <2> QED
    BY <1>2, <1>3, <1>5, <2>1, SharesMove
<1>11. position \in [Traders -> [Outcomes -> Int]] /\ Sold(position)
  BY <1>10 DEF SharesMoved, SoundBook
<1> HIDE DEF c
<1>12. PledgeMoved(collateral, m.collateral, seller, o.outcome, c)
  BY <1>2, <1>3, <1>5, <1>8, PledgeMoves
<1>13. /\ collateral \in [Traders -> [Outcomes -> Nat]]
       /\ PledgeSum(m.collateral) \in Nat /\ PledgeSum(collateral) = PledgeSum(m.collateral) + c
  BY <1>12 DEF PledgeMoved
<1> HIDE DEF cost
<1>14. /\ balance \in [Traders -> Int]
       /\ SumFunctionOnSet(balance, Traders) = SumFunctionOnSet(m.balance, Traders) - c
  <2>1. cost \in Int /\ c \in Int
    BY <1>8, <1>9
  <2>2. CashMoved(balance, m.balance, c)
    <3> HIDE DEF m
    <3> QED
      BY <1>2, <1>5, <2>1, CashMoves
  <2> QED
    BY <2>2 DEF CashMoved
<1>15. SumFunctionOnSet(m.balance, Traders) \in Int
  <2>1. IsFiniteSet(Traders) /\ \A t \in Traders : m.balance[t] \in Int
    BY <1>2, MarketConstants
  <2> QED
    BY <2>1, SumInt
<1>16. OrdersFine(orders)
  BY <1>1, <1>4, LockedAfterFill
<1>17. AfterFill(o, q) \in OrderType
  BY <1>1, <1>4, OrderAfterFill
<1>18. reserved \in [Traders -> Nat] /\ BackedWith(orders, reserved, AfterFill(o, q))
  BY <1>1, <1>2, <1>3, <1>4, BackedAfterTrade
<1> HIDE DEF orders, reserved, balance, position, collateral
<1>19. n.m \in MarketType
  <2> DEFINE m1 == [m EXCEPT !.orders = orders]
             m2 == [m1 EXCEPT !.reserved = reserved]
             m3 == [m2 EXCEPT !.balance = balance]
             m4 == [m3 EXCEPT !.position = position]
             m5 == [m4 EXCEPT !.collateral = collateral]
  <2>1. m.pool + c \in Nat /\ orders \in Seq(OrderType)
    BY <1>2, <1>8, <1>16 DEF OrdersFine
  <2>2. n.m = [m5 EXCEPT !.pool = m.pool + c]
    BY <1>7
  <2>3. m1 \in MarketType
    BY <1>1, <2>1, MarketWith
  <2> HIDE DEF m1
  <2>4. m2 \in MarketType
    BY <1>18, <2>3, MarketWith
  <2> HIDE DEF m2
  <2>5. m3 \in MarketType
    BY <1>14, <2>4, MarketWith
  <2> HIDE DEF m3
  <2>6. m4 \in MarketType
    BY <1>11, <2>5, MarketWith
  <2> HIDE DEF m4
  <2>7. m5 \in MarketType
    BY <1>13, <2>6, MarketWith
  <2> HIDE DEF m5
  <2> QED
    BY <2>1, <2>2, <2>7, MarketWith
<1>20. n \in BookType
  <2>1. b.rest \in SUBSET Nat
    BY DEF BookType
  <2> QED
    BY <1>7, <1>17, <1>19, <2>1 DEF BookType
<1>21. Weighed(m) => Weighed(n.m)
  BY <1>2, <1>7, <1>8, <1>13, <1>14, <1>15 DEF Weighed, Balanced
<1>22. SoundBook(n.m)
  BY <1>7, <1>8, <1>11, <1>16, <1>19 DEF SoundBook
<1> QED
  BY <1>4, <1>7, <1>18, <1>20, <1>21, <1>22 DEF Traded, orders, n

(* Matching an order against the book *)
(* ------------------------------- matching ---------------------------- *)
\* The entries of an order that nothing changes once it is placed.
SameOrder(a, o) ==
  /\ a.id = o.id /\ a.trader = o.trader /\ a.outcome = o.outcome /\ a.side = o.side /\ a.price = o.price
  /\ a.qty = o.qty /\ a.kind = o.kind /\ a.reserve = o.reserve /\ a.at = o.at

\* An order o arrives at market m, its reservation made; makers are the orders
\* of others it may trade with.
Arrives(m, o, makers) ==
  /\ SoundBook(m) /\ Numbered(m.orders) /\ BackedWith(m.orders, m.reserved, o)
  /\ o \in OrderType /\ OrderFine(o) /\ o.status = "open"
  /\ makers \subseteq DOMAIN m.orders
  /\ \A i \in makers : /\ m.orders[i].status = "open" /\ m.orders[i].outcome = o.outcome
                       /\ m.orders[i].side = Opposite(o.side) /\ m.orders[i].trader # o.trader

\* What trading leaves of an order, and of the book.
Shrunk(a, o) ==
  SameOrder(a, o) /\ a.left <= o.left /\ (a.status = "open" => o.status = "open")

BookLeft(m, makers, b) ==
  /\ Len(b.m.orders) = Len(m.orders) /\ DOMAIN b.m.orders = DOMAIN m.orders
  /\ \A i \in DOMAIN m.orders : Shrunk(b.m.orders[i], m.orders[i])
  /\ \A i \in DOMAIN m.orders : i \notin makers \ b.rest => b.m.orders[i] = m.orders[i]

\* Inductive over the makers: whoever was met is filled or does not cross, unless
\* nothing is left of the order, and nobody traded ahead of a better maker.
Meeting(m, o, makers, b) ==
  /\ b \in BookType /\ b.rest \subseteq makers
  /\ OrderFine(b.o) /\ SameOrder(b.o, o) /\ b.o.left <= o.left /\ b.o.status \in {"open", "filled"}
  /\ SoundBook(b.m) /\ Untouched(b.m, m) /\ (Weighed(m) => Weighed(b.m))
  /\ BackedWith(b.m.orders, b.m.reserved, b.o)
  /\ BookLeft(m, makers, b)
  /\ \A i \in makers \ b.rest : b.m.orders[i].left = 0 \/ b.o.left = 0 \/ ~Crosses(o, m.orders[i])
  /\ \A i, j \in makers : Before(m.orders[i], m.orders[j]) /\ b.m.orders[j].left < m.orders[j].left
                            => b.m.orders[i].left = 0

LEMMA MeetingStarts ==
  ASSUME NEW m, NEW o, NEW makers, Arrives(m, o, makers)
  PROVE  Meeting(m, o, makers, [m |-> m, o |-> o, rest |-> makers])
<1> DEFINE b == [m |-> m, o |-> o, rest |-> makers]
<1>1. b.m = m /\ b.o = o /\ b.rest = makers
  OBVIOUS
<1>2. /\ SoundBook(m) /\ m \in MarketType /\ o \in OrderType /\ OrderFine(o)
      /\ OrdersFine(m.orders) /\ makers \subseteq DOMAIN m.orders
  BY DEF Arrives, SoundBook
<1>3. /\ DOMAIN m.orders = 1..Len(m.orders) /\ Len(m.orders) \in Nat
      /\ \A i \in DOMAIN m.orders : m.orders[i] \in OrderType
  BY <1>2, OrdersTyped
<1>4. makers \in SUBSET Nat
  BY <1>2, <1>3
<1>5. b \in BookType
  BY <1>2, <1>4 DEF BookType
<1>6. \A i \in DOMAIN m.orders : m.orders[i].left \in Nat
  BY <1>3 DEF OrderType
<1>7. BookLeft(m, makers, b)
  BY <1>1, <1>6 DEF BookLeft, Shrunk, SameOrder
<1>8. o.left \in Nat
  BY <1>2 DEF OrderType
<1>9. \A j \in makers : ~(b.m.orders[j].left < m.orders[j].left)
  BY <1>1, <1>2, <1>6
<1> HIDE DEF b
<1>10. Meeting(m, o, makers, b)
  <2>1. \A i, j \in makers : Before(m.orders[i], m.orders[j]) /\ b.m.orders[j].left < m.orders[j].left
                              => b.m.orders[i].left = 0
    BY <1>9
  <2>2. \A i \in makers \ b.rest : b.m.orders[i].left = 0 \/ b.o.left = 0 \/ ~Crosses(o, m.orders[i])
    BY <1>1
  <2>3. /\ OrderFine(b.o) /\ SameOrder(b.o, o) /\ b.o.left <= o.left /\ b.o.status \in {"open", "filled"}
        /\ b.rest \subseteq makers /\ SoundBook(b.m) /\ Untouched(b.m, m) /\ (Weighed(m) => Weighed(b.m))
        /\ BackedWith(b.m.orders, b.m.reserved, b.o)
    BY <1>1, <1>2, <1>8 DEF Arrives, SameOrder, Untouched
  <2> QED
    BY <1>5, <1>7, <2>1, <2>2, <2>3 DEF Meeting
<1> QED
  BY <1>10 DEF b

LEMMA MeetingGoesOn ==
  ASSUME NEW m, NEW o, NEW makers, Arrives(m, o, makers),
         NEW b, Meeting(m, o, makers, b), NEW i \in b.rest,
         \A j \in b.rest : j # i => Before(m.orders[i], m.orders[j])
  PROVE  Meeting(m, o, makers, [Fill(b, i) EXCEPT !.rest = b.rest \ {i}])
<1> DEFINE n == Fill(b, i)
           e == [n EXCEPT !.rest = b.rest \ {i}]
           other == m.orders[i]
<1>1. /\ b \in BookType /\ b.rest \subseteq makers /\ OrderFine(b.o) /\ SameOrder(b.o, o)
      /\ b.o.left <= o.left /\ b.o.status \in {"open", "filled"}
      /\ SoundBook(b.m) /\ Untouched(b.m, m) /\ (Weighed(m) => Weighed(b.m))
      /\ BackedWith(b.m.orders, b.m.reserved, b.o) /\ BookLeft(m, makers, b)
  BY DEF Meeting
<1>2. /\ i \in makers /\ i \in DOMAIN m.orders /\ other.status = "open"
      /\ other.outcome = o.outcome /\ other.side = Opposite(o.side) /\ other.trader # o.trader
  BY <1>1 DEF Arrives
<1>3. /\ SoundBook(m) /\ OrdersFine(m.orders) /\ o \in OrderType
      /\ \A j \in DOMAIN m.orders : m.orders[j] \in OrderType
  BY OrdersTyped DEF Arrives, SoundBook
<1>4. /\ DOMAIN b.m.orders = DOMAIN m.orders /\ Len(b.m.orders) = Len(m.orders) /\ b.m.orders[i] = other
      /\ \A j \in DOMAIN m.orders : Shrunk(b.m.orders[j], m.orders[j])
      /\ \A j \in DOMAIN m.orders : j \notin makers \ b.rest => b.m.orders[j] = m.orders[j]
  BY <1>1, <1>2 DEF BookLeft
<1>5. /\ b.o \in OrderType /\ b.m \in MarketType /\ b.rest \subseteq Nat
      /\ \A j \in DOMAIN m.orders : b.m.orders[j] \in OrderType
  BY <1>1, <1>4, OrdersTyped DEF BookType, SoundBook
<1>6. /\ \A j \in makers \ b.rest : b.m.orders[j].left = 0 \/ b.o.left = 0 \/ ~Crosses(o, m.orders[j])
      /\ \A j, k \in makers : Before(m.orders[j], m.orders[k]) /\ b.m.orders[k].left < m.orders[k].left
                                => b.m.orders[j].left = 0
  BY DEF Meeting
<1>7. Crosses(b.o, b.m.orders[i]) <=> Crosses(o, other)
  BY <1>1, <1>4 DEF SameOrder, Crosses
<1>8. CASE b.o.left = 0 \/ ~Crosses(o, other)
  <2>1. n = b
    BY <1>7, <1>8 DEF Fill
  <2>2. e.m = b.m /\ e.o = b.o /\ e.rest = b.rest \ {i} /\ e = [m |-> b.m, o |-> b.o, rest |-> b.rest \ {i}]
    BY <1>1, <2>1 DEF BookType
  <2>3. e \in BookType
    BY <1>5, <2>2 DEF BookType
  <2>4. BookLeft(m, makers, e)
    BY <1>4, <2>2 DEF BookLeft
  <2>5. \A j \in makers \ e.rest : e.m.orders[j].left = 0 \/ e.o.left = 0 \/ ~Crosses(o, m.orders[j])
    BY <1>6, <1>8, <2>2
  <2> HIDE DEF e
  <2> QED
    BY <1>1, <1>6, <2>2, <2>3, <2>4, <2>5 DEF Meeting, e
<1>9. CASE b.o.left # 0 /\ Crosses(o, other)
  <2>1. n = Trade(b, i)
    BY <1>7, <1>9 DEF Fill
  <2>2. Traded(b, i, n)
    <3>1. b.o.trader # b.m.orders[i].trader /\ i \in DOMAIN b.m.orders /\ b.m.orders[i].status = "open"
      BY <1>1, <1>2, <1>4 DEF SameOrder
    <3> QED
      BY <1>1, <2>1, <3>1, TradeSound
  <2> DEFINE q == Smaller(b.o.left, other.left)
             p == AfterFill(b.o, q)
             a == AfterFill(other, q)
  <2>3. /\ n \in BookType /\ n.rest = b.rest /\ n.o = p /\ n.m.orders = [b.m.orders EXCEPT ![i] = a]
        /\ SoundBook(n.m) /\ Untouched(n.m, b.m) /\ (Weighed(b.m) => Weighed(n.m))
        /\ BackedWith(n.m.orders, n.m.reserved, n.o)
    BY <1>4, <2>2 DEF Traded
  <2>4. /\ b.o.left \in Nat /\ other.left \in Nat /\ q \in Nat /\ q <= b.o.left /\ q <= other.left
        /\ (b.o.left - q = 0 \/ other.left - q = 0)
    <3>1. b.o.left \in Nat /\ other.left \in Nat
      BY <1>2, <1>3, <1>5 DEF OrderType
    <3> QED
      BY <3>1 DEF Smaller
  <2>5. other \in OrderType /\ OrderFine(other)
    BY <1>2, <1>3 DEF OrdersFine
  <2> HIDE DEF q, n, other
  <2>6. /\ p \in OrderType /\ OrderFine(p) /\ SameOrder(p, b.o) /\ p.left = b.o.left - q
        /\ p.status = IF b.o.left = q THEN "filled" ELSE b.o.status
    BY <1>1, <1>5, <2>4, OrderAfterFill DEF SameOrder
  <2>7. /\ a \in OrderType /\ OrderFine(a) /\ SameOrder(a, other) /\ a.left = other.left - q
        /\ a.status = IF other.left = q THEN "filled" ELSE other.status
    BY <2>4, <2>5, OrderAfterFill DEF SameOrder
  <2> HIDE DEF p, a
  <2>8. e.m = n.m /\ e.o = n.o /\ e.rest = b.rest \ {i} /\ e = [m |-> n.m, o |-> n.o, rest |-> b.rest \ {i}]
    BY <2>3 DEF BookType
  <2> HIDE DEF e
  <2>9. e \in BookType
    BY <1>5, <2>3, <2>8 DEF BookType
  <2>10. /\ DOMAIN e.m.orders = DOMAIN m.orders /\ Len(e.m.orders) = Len(m.orders) /\ e.m.orders[i] = a
         /\ \A j \in DOMAIN m.orders : j # i => e.m.orders[j] = b.m.orders[j]
    <3>1. b.m.orders \in Seq(OrderType)
      BY <1>5 DEF MarketType
    <3> QED
      BY <1>2, <1>4, <2>3, <2>7, <2>8, <3>1
  <2>11. Shrunk(a, other)
    BY <1>2, <2>4, <2>7 DEF Shrunk, other
  <2>12. BookLeft(m, makers, e)
    <3>1. \A j \in DOMAIN m.orders : Shrunk(e.m.orders[j], m.orders[j])
      BY <1>4, <2>10, <2>11 DEF other
    <3>2. \A j \in DOMAIN m.orders : j \notin makers \ e.rest => e.m.orders[j] = m.orders[j]
      BY <1>2, <1>4, <2>8, <2>10
    <3> QED
      BY <2>10, <3>1, <3>2 DEF BookLeft
  <2>13. /\ OrderFine(e.o) /\ SameOrder(e.o, o) /\ e.o.left <= o.left /\ e.o.status \in {"open", "filled"}
         /\ e.o.left = b.o.left - q
    <3>1. o.left \in Nat
      BY <1>3 DEF OrderType
    <3> QED
      BY <1>1, <2>3, <2>4, <2>6, <2>8, <3>1 DEF SameOrder
  <2>14. \A j \in makers \ e.rest : e.m.orders[j].left = 0 \/ e.o.left = 0 \/ ~Crosses(o, m.orders[j])
    <3> SUFFICES ASSUME NEW j \in makers \ e.rest
                 PROVE  e.m.orders[j].left = 0 \/ e.o.left = 0 \/ ~Crosses(o, m.orders[j])
      OBVIOUS
    <3>1. CASE j = i
      BY <2>4, <2>7, <2>10, <2>13, <3>1
    <3>2. CASE j # i
      <4>1. j \in makers \ b.rest /\ j \in DOMAIN m.orders
        BY <2>8, <3>2 DEF Arrives
      <4> QED
        BY <1>6, <1>9, <2>10, <3>2, <4>1
    <3> QED
      BY <3>1, <3>2
  <2>15. ASSUME NEW j \in makers, NEW k \in makers, Before(m.orders[j], m.orders[k]),
                e.m.orders[k].left < m.orders[k].left
         PROVE  e.m.orders[j].left = 0
    <3>1. j \in DOMAIN m.orders /\ k \in DOMAIN m.orders /\ m.orders[j] \in OrderType /\ m.orders[k] \in OrderType
      BY <1>3 DEF Arrives
    <3>2. /\ m.orders[j].side = Opposite(o.side) /\ m.orders[k].side = Opposite(o.side)
      BY DEF Arrives
    <3>3. CASE k # i
      <4>1. b.m.orders[j].left = 0
        BY <1>6, <2>10, <2>15, <3>1, <3>3
      <4>2. CASE j = i
        <5>1. other.left = 0
          BY <1>4, <4>1, <4>2
        <5> QED
          BY <2>4, <2>7, <2>10, <4>2, <5>1
      <4>3. CASE j # i
        BY <2>10, <3>1, <4>1, <4>3
      <4> QED
        BY <4>2, <4>3
    <3>4. CASE k = i
      <4>1. ~Before(m.orders[k], m.orders[j])
        BY <2>15, <3>1, <3>2, BeforeOrder
      <4>2. j # i
        BY <2>15, <3>4, <4>1
      <4>3. j \notin b.rest
        BY <3>4, <4>1, <4>2
      <4>4. Crosses(o, m.orders[j])
        BY <1>3, <1>9, <2>15, <3>1, <3>2, <3>4, CrossesBefore DEF other
      <4>5. b.m.orders[j].left = 0
        BY <1>6, <1>9, <4>3, <4>4
      <4> QED
        BY <2>10, <3>1, <4>2, <4>5
    <3> QED
      BY <3>3, <3>4
  <2>16. /\ SoundBook(e.m) /\ Untouched(e.m, m) /\ (Weighed(m) => Weighed(e.m))
         /\ BackedWith(e.m.orders, e.m.reserved, e.o) /\ e.rest \subseteq makers
    BY <1>1, <2>3, <2>8 DEF Untouched
  <2>17. Meeting(m, o, makers, e)
    BY <2>9, <2>12, <2>13, <2>14, <2>15, <2>16 DEF Meeting
  <2> QED
    BY <2>17 DEF e, n
<1> QED
  BY <1>8, <1>9

Met(m, b) == [Fill(b, First(m.orders, b.rest)) EXCEPT !.rest = b.rest \ {First(m.orders, b.rest)}]

LEMMA MetNext ==
  ASSUME NEW m, NEW o, NEW makers, Arrives(m, o, makers),
         NEW b, Meeting(m, o, makers, b), b.rest # {}
  PROVE  /\ Meeting(m, o, makers, Met(m, b)) /\ IsFiniteSet(b.rest)
         /\ Cardinality(Met(m, b).rest) = Cardinality(b.rest) - 1
<1> DEFINE i == First(m.orders, b.rest)
<1>1. /\ b.rest \subseteq makers /\ makers \subseteq DOMAIN m.orders /\ OrdersFine(m.orders) /\ Numbered(m.orders)
      /\ b \in BookType /\ b.m.orders \in Seq(OrderType) /\ IsFiniteSet(DOMAIN m.orders)
  BY OrdersTyped DEF Meeting, Arrives, SoundBook, OrdersFine
<1>2. \A j, k \in b.rest : m.orders[j].side = m.orders[k].side
  BY <1>1 DEF Arrives
<1>3. b.rest \subseteq DOMAIN m.orders
  BY <1>1
<1>4. i \in b.rest /\ \A j \in b.rest : j # i => Before(m.orders[i], m.orders[j])
  BY <1>1, <1>2, <1>3, FirstOf
<1>5. Met(m, b) = [Fill(b, i) EXCEPT !.rest = b.rest \ {i}]
  BY DEF Met
<1> HIDE DEF i
<1>6. Meeting(m, o, makers, Met(m, b))
  BY <1>4, <1>5, MeetingGoesOn
<1>7. IsFiniteSet(b.rest)
  BY <1>1, <1>3, FS_Subset
<1>8. Met(m, b).rest = b.rest \ {i}
  <2> DEFINE n == Fill(b, i)
             e == Met(m, b)
  <2>1. e \in BookType /\ e = [n EXCEPT !.rest = b.rest \ {i}]
    BY <1>5, <1>6 DEF Meeting
  <2>2. n = b \/ n = Trade(b, i)
    BY DEF Fill
  <2>3. "rest" \in DOMAIN n
    <3>1. DOMAIN b = {"m", "o", "rest"}
      BY <1>1 DEF BookType
    <3>2. DOMAIN Trade(b, i) = DOMAIN b
      BY DEF Trade
    <3> QED
      BY <2>2, <3>1, <3>2
  <2> HIDE DEF n
  <2>4. [n EXCEPT !.rest = b.rest \ {i}].rest = b.rest \ {i}
    BY <2>3
  <2> HIDE DEF e
  <2>5. e.rest = b.rest \ {i}
    BY <2>1, <2>4
  <2> QED
    BY <2>5 DEF e
<1>9. Cardinality(b.rest \ {i}) = Cardinality(b.rest) - 1
  BY <1>4, <1>7, FS_RemoveElement
<1> QED
  BY <1>6, <1>7, <1>8, <1>9

LEMMA MatchedSound ==
  ASSUME NEW m, NEW o, NEW makers, makers = {i \in Counterparts(m, o) : m.orders[i].trader # o.trader},
         Arrives(m, o, makers)
  PROVE  Meeting(m, o, makers, Matched(m, o)) /\ Matched(m, o).rest = {}
<1> DEFINE N == Cardinality(makers)
           a == [m |-> m, o |-> o, rest |-> makers]
           V == {b \in BookType : Meeting(m, o, makers, b)}
           Fits(F) == F = [n \in 0..N |-> IF n = 0 THEN a ELSE Met(m, F[n - 1])]
           Move(b) == IF b.rest = {} THEN b ELSE Met(m, b)
           G == [x \in (1..N) \X V |-> Move(x[2])]
<1>1. IsFiniteSet(makers) /\ N \in Nat
  <2>1. makers \subseteq DOMAIN m.orders /\ OrdersFine(m.orders)
    BY DEF Arrives, SoundBook
  <2>2. IsFiniteSet(makers)
    BY <2>1, OrdersTyped, FS_Subset
  <2> QED
    BY <2>2, FS_CardinalityType
<1>2. Matched(m, o) = (CHOOSE F : Fits(F))[N]
  BY DEF Matched, Met
<1>3. a \in V /\ Meeting(m, o, makers, a) /\ a.rest = makers
  <2>1. Meeting(m, o, makers, a)
    BY MeetingStarts
  <2> QED
    BY <2>1 DEF Meeting
<1>4. \A b \in V : Move(b) \in V
  <2> SUFFICES ASSUME NEW b \in V PROVE Move(b) \in V
    OBVIOUS
  <2>1. CASE b.rest = {}
    BY <2>1
  <2>2. CASE b.rest # {}
    <3>1. Meeting(m, o, makers, Met(m, b))
      BY <2>2, MetNext
    <3>2. Met(m, b) \in BookType
      BY <3>1 DEF Meeting
    <3> QED
      BY <2>2, <3>1, <3>2
  <2> QED
    BY <2>1, <2>2
<1>5. G \in [(1..N) \X V -> V] /\ \A n \in 1..N : \A b \in V : G[<<n, b>>] = Move(b)
  <2> HIDE DEF V, Move
  <2> QED
    BY <1>4
<1>6. \A b \in V : b.rest # {} => /\ Move(b) = Met(m, b) /\ Met(m, b) \in V
                                   /\ IsFiniteSet(b.rest) /\ Cardinality(Met(m, b).rest) = Cardinality(b.rest) - 1
  <2> SUFFICES ASSUME NEW b \in V, b.rest # {}
               PROVE  /\ Move(b) = Met(m, b) /\ Met(m, b) \in V
                      /\ IsFiniteSet(b.rest) /\ Cardinality(Met(m, b).rest) = Cardinality(b.rest) - 1
    OBVIOUS
  <2>1. Meeting(m, o, makers, b)
    OBVIOUS
  <2>2. Move(b) = Met(m, b) /\ Move(b) \in V
    BY <1>4
  <2> QED
    BY <2>1, <2>2, MetNext
<1>7. \A b \in V : Meeting(m, o, makers, b) /\ IsFiniteSet(b.rest)
  <2>1. ASSUME NEW b \in V PROVE IsFiniteSet(b.rest)
    BY <1>1, FS_Subset DEF Meeting
  <2> QED
    BY <2>1
<1> HIDE DEF N, V, G, Move, a
<1>8. PICK F : Steps(F, a, G, N, V)
  BY <1>1, <1>3, <1>5, StepTable
<1>9. F \in [0..N -> V] /\ F[0] = a /\ \A n \in 1..N : F[n] = Move(F[n - 1])
  <2>1. F \in [0..N -> V] /\ F[0] = a /\ \A n \in 1..N : F[n] = G[<<n, F[n - 1]>>]
    BY <1>8 DEF Steps
  <2>2. \A n \in 1..N : n - 1 \in 0..N
    BY <1>1
  <2> QED
    BY <1>5, <2>1, <2>2
<1> DEFINE Left(H) == {n \in 0..N : H[n] \in V /\ Cardinality(H[n].rest) = N - n}
<1>10. \A n \in 0..N : n \in Left(F)
  <2>1. 0 \in Left(F)
    <3>1. 0 \in 0..N /\ Cardinality(a.rest) = N - 0
      BY <1>1, <1>3 DEF N
    <3> QED
      BY <1>3, <1>9, <3>1
  <2>2. ASSUME NEW n \in 1..N, n - 1 \in Left(F)
        PROVE  n \in Left(F)
    <3>1. F[n - 1] \in V /\ Cardinality(F[n - 1].rest) = N - (n - 1)
      BY <2>2
    <3>2. Cardinality(F[n - 1].rest) # 0
      BY <1>1, <3>1
    <3>3. F[n - 1].rest # {}
      BY <3>2, FS_EmptySet
    <3>4. F[n] \in V /\ Cardinality(F[n].rest) = N - n
      BY <1>1, <1>6, <1>9, <3>1, <3>3
    <3> QED
      BY <1>1, <3>4
  <2> HIDE DEF Left
  <2> QED
    BY <1>1, <2>1, <2>2, Upward
<1>11. Fits(F)
  <2>1. ASSUME NEW n \in 0..N
        PROVE  F[n] = IF n = 0 THEN a ELSE Met(m, F[n - 1])
    <3>1. CASE n = 0
      BY <1>9, <3>1
    <3>2. CASE n # 0
      <4>1. n \in 1..N /\ n - 1 \in 0..N
        BY <1>1, <3>2
      <4>2. F[n - 1] \in V /\ Cardinality(F[n - 1].rest) = N - (n - 1)
        BY <1>10, <4>1
      <4>3. F[n - 1].rest # {}
        <5>1. Cardinality(F[n - 1].rest) # 0
          BY <1>1, <4>1, <4>2
        <5> QED
          BY <5>1, FS_EmptySet
      <4> QED
        BY <1>6, <1>9, <3>2, <4>1, <4>2, <4>3
    <3> QED
      BY <3>1, <3>2
  <2>2. F = [n \in 0..N |-> F[n]]
    BY <1>9
  <2> QED
    BY <2>1, <2>2
<1> DEFINE C == CHOOSE H : Fits(H)
<1>12. Fits(C)
  <2> HIDE DEF Fits
  <2> QED
    BY <1>11
<1> HIDE DEF C
<1>13. \A n \in 0..N : C[n] = IF n = 0 THEN a ELSE Met(m, C[n - 1])
  BY <1>12
<1>14. \A n \in 0..N : n \in Left(C)
  <2>1. 0 \in Left(C)
    <3>1. 0 \in 0..N /\ Cardinality(a.rest) = N - 0
      BY <1>1, <1>3 DEF N
    <3>2. C[0] = a
      BY <1>13, <3>1
    <3> QED
      BY <1>3, <3>1, <3>2
  <2>2. ASSUME NEW n \in 1..N, n - 1 \in Left(C)
        PROVE  n \in Left(C)
    <3>1. C[n - 1] \in V /\ Cardinality(C[n - 1].rest) = N - (n - 1)
      BY <2>2
    <3>2. Cardinality(C[n - 1].rest) # 0
      BY <1>1, <3>1
    <3>3. C[n - 1].rest # {}
      BY <3>2, FS_EmptySet
    <3>4. C[n] = Met(m, C[n - 1])
      BY <1>1, <1>13
    <3>5. C[n] \in V /\ Cardinality(C[n].rest) = N - n
      BY <1>1, <1>6, <3>1, <3>3, <3>4
    <3> QED
      BY <1>1, <3>5
  <2> HIDE DEF Left
  <2> QED
    BY <1>1, <2>1, <2>2, Upward
<1>15. C[N] \in V /\ Cardinality(C[N].rest) = 0
  <2>1. N \in 0..N
    BY <1>1
  <2>2. N \in Left(C)
    BY <1>14, <2>1
  <2> QED
    BY <1>1, <2>2
<1>16. C[N].rest = {}
  BY <1>7, <1>15, FS_EmptySet
<1>17. Matched(m, o) = C[N]
  BY <1>2 DEF C
<1> QED
  BY <1>7, <1>15, <1>16, <1>17

(* A market between requests *)
(* -------------------- the invariant, and cancellation ---------------- *)
Uncrossed(orders) ==
  \A i, j \in DOMAIN orders :
    LET a == orders[i]
        b == orders[j]
    IN /\ a.status = "open" /\ b.status = "open" /\ a.outcome = b.outcome
       /\ a.side = "buy" /\ b.side = "sell" /\ a.price >= b.price
       => a.trader = b.trader

Dated(m, c) == m.queue.at <= c /\ \A i \in DOMAIN m.orders : m.orders[i].at <= c

\* What every request leaves true of the record m at time c, the money aside.
Orderly(m, c) ==
  /\ SoundBook(m) /\ Len(m.orders) <= MaxOrders /\ Numbered(m.orders)
  /\ Dated(m, c) /\ Backed(m.orders, m.reserved) /\ Uncrossed(m.orders)

\* The inductive invariant: sound orders with distinct ids, reservations that
\* match them, an uncrossed book, shares that cancel out, shorts that are
\* covered and, until there is a winner, money that adds up.
MarketFine(m, c) == Orderly(m, c) /\ (m.winner = None => Weighed(m))

\* Nothing was traded.
OrdersAlike(n, m) ==
  /\ Len(n.orders) = Len(m.orders) /\ DOMAIN n.orders = DOMAIN m.orders
  /\ \A i \in DOMAIN m.orders : SameOrder(n.orders[i], m.orders[i]) /\ n.orders[i].left = m.orders[i].left

CancelledTo(n, m, S) ==
  /\ n.orders = [i \in DOMAIN m.orders |-> IF i \in S THEN [m.orders[i] EXCEPT !.status = "canceled"] ELSE m.orders[i]]
  /\ n.reserved = [t \in Traders |-> Max({0, m.reserved[t] - Locked(m.orders, S, t)})]
  /\ n.balance = m.balance /\ n.position = m.position /\ n.collateral = m.collateral /\ n.pool = m.pool
  /\ Untouched(n, m)
  /\ n = [[m EXCEPT !.orders = n.orders] EXCEPT !.reserved = n.reserved]

LEMMA CancelledFields ==
  ASSUME NEW m \in MarketType, NEW S
  PROVE  CancelledTo(Cancelled(m, S), m, S)
<1> DEFINE orders == [i \in DOMAIN m.orders |-> IF i \in S THEN [m.orders[i] EXCEPT !.status = "canceled"] ELSE m.orders[i]]
           reserved == [t \in Traders |-> Max({0, m.reserved[t] - Locked(m.orders, S, t)})]
           n == Cancelled(m, S)
<1>1. n = [m EXCEPT !.orders = orders, !.reserved = reserved]
  BY DEF Cancelled
<1> HIDE DEF orders, reserved, n
<1>2. /\ n.orders = orders /\ n.reserved = reserved /\ n.balance = m.balance /\ n.position = m.position
      /\ n.collateral = m.collateral /\ n.pool = m.pool
      /\ n.status = m.status /\ n.settlements = m.settlements /\ n.winner = m.winner
      /\ n.plan = m.plan /\ n.queue = m.queue
  BY <1>1 DEF MarketType
<1>3. n = [[m EXCEPT !.orders = orders] EXCEPT !.reserved = reserved]
  BY <1>1
<1>4. n = [[m EXCEPT !.orders = n.orders] EXCEPT !.reserved = n.reserved]
  BY <1>2, <1>3
<1> QED
  BY <1>2, <1>4 DEF Untouched, n, orders, reserved, CancelledTo

LEMMA CancelledKeeps ==
  ASSUME NEW m, NEW c \in Nat, Orderly(m, c), NEW S, S \subseteq OpenOrders(m)
  PROVE  Orderly(Cancelled(m, S), c) /\ OrdersAlike(Cancelled(m, S), m)
<1> DEFINE n == Cancelled(m, S)
<1>1. /\ m \in MarketType /\ OrdersFine(m.orders) /\ m.orders \in Seq(OrderType) /\ m.reserved \in [Traders -> Nat]
      /\ IsFiniteSet(DOMAIN m.orders) /\ DOMAIN m.orders = 1..Len(m.orders) /\ Len(m.orders) \in Nat
      /\ \A i \in DOMAIN m.orders : m.orders[i] \in OrderType /\ OrderFine(m.orders[i])
  BY OrdersTyped DEF Orderly, SoundBook, OrdersFine, MarketType
<1>2. S \subseteq DOMAIN m.orders /\ \A i \in S : m.orders[i].status = "open"
  BY DEF OpenOrders
<1>3. /\ n.orders = [i \in DOMAIN m.orders |-> IF i \in S THEN [m.orders[i] EXCEPT !.status = "canceled"] ELSE m.orders[i]]
      /\ n.reserved = [t \in Traders |-> Max({0, m.reserved[t] - Locked(m.orders, S, t)})]
      /\ n.position = m.position /\ n.collateral = m.collateral /\ Untouched(n, m)
      /\ n = [[m EXCEPT !.orders = n.orders] EXCEPT !.reserved = n.reserved]
  <2>1. CancelledTo(n, m, S)
    BY <1>1, CancelledFields
  <2> QED
    BY <2>1 DEF CancelledTo
<1> HIDE DEF n
<1>4. ASSUME NEW i \in DOMAIN m.orders
      PROVE  /\ n.orders[i] \in OrderType /\ OrderFine(n.orders[i])
             /\ SameOrder(n.orders[i], m.orders[i]) /\ n.orders[i].left = m.orders[i].left
             /\ n.orders[i].status = IF i \in S THEN "canceled" ELSE m.orders[i].status
  <2> DEFINE o == m.orders[i]
             e == [o EXCEPT !.status = "canceled"]
  <2>1. o \in OrderType /\ OrderFine(o)
    BY <1>1
  <2>2. CASE i \notin S
    BY <1>3, <2>1, <2>2 DEF SameOrder
  <2>3. CASE i \in S
    <3>1. n.orders[i] = e /\ o.status = "open"
      BY <1>2, <1>3, <2>3
    <3> HIDE DEF o
    <3>2. "canceled" \in OrderStatuses
      BY DEF OrderStatuses
    <3>3. e \in OrderType /\ e.status = "canceled" /\ SameOrder(e, o) /\ e.left = o.left
      BY <2>1, <3>2 DEF OrderType, SameOrder
    <3> HIDE DEF e
    <3>4. OrderFine(e)
      BY <2>1, <3>1, <3>3 DEF OrderFine, SameOrder
    <3> QED
      BY <2>3, <3>1, <3>3, <3>4 DEF o
  <2> QED
    BY <2>2, <2>3
<1>5. DOMAIN n.orders = DOMAIN m.orders /\ n.orders \in Seq(OrderType) /\ Len(n.orders) = Len(m.orders)
  <2>1. n.orders \in [1..Len(m.orders) -> OrderType]
    <3>1. n.orders = [i \in 1..Len(m.orders) |-> n.orders[i]]
      BY <1>1, <1>3
    <3> QED
      BY <1>1, <1>4, <3>1
  <2> QED
    BY <1>1, <2>1
<1>6. OrdersFine(n.orders) /\ OrdersAlike(n, m)
  BY <1>4, <1>5 DEF OrdersFine, OrdersAlike
<1>7. ASSUME NEW t \in Traders
      PROVE  n.reserved[t] \in Nat /\ n.reserved[t] = Locked(n.orders, DOMAIN n.orders, t)
  <2> DEFINE D == DOMAIN m.orders
             A == Locked(m.orders, S, t)
             B == Locked(m.orders, D \ S, t)
             E == Locked(n.orders, S, t)
             F == Locked(n.orders, D \ S, t)
  <2>1. /\ A \in Nat /\ B \in Nat /\ Locked(m.orders, D, t) = A + B
        /\ E \in Nat /\ F \in Nat /\ Locked(n.orders, D, t) = E + F
    <3>1. \A s, T : OrdersFine(s) /\ T \subseteq DOMAIN s =>
             /\ Locked(s, T, t) \in Nat /\ Locked(s, DOMAIN s \ T, t) \in Nat
             /\ Locked(s, DOMAIN s, t) = Locked(s, T, t) + Locked(s, DOMAIN s \ T, t)
      BY LockedNatural
    <3> QED
      BY <1>1, <1>2, <1>5, <1>6, <3>1
  <2>2. E = 0
    <3> DEFINE f == [i \in D |-> Locks(n.orders[i], t)]
    <3>1. \A i \in S : f[i] = 0
      BY <1>2, <1>4 DEF Locks
    <3>2. E = SumFunctionOnSet(f, S)
      BY <1>5 DEF Locked
    <3>3. IsFiniteSet(S)
      BY <1>1, <1>2, FS_Subset
    <3> HIDE DEF f, E
    <3> QED
      BY <3>1, <3>2, <3>3, SumZero
  <2>3. F = B
    <3> DEFINE f == [i \in D |-> Locks(n.orders[i], t)]
               g == [i \in D |-> Locks(m.orders[i], t)]
               T == D \ S
    <3>1. F = SumFunctionOnSet(f, T) /\ B = SumFunctionOnSet(g, T) /\ IsFiniteSet(T)
      BY <1>1, <1>5, FS_Difference DEF Locked
    <3>2. \A i \in T : f[i] \in Int /\ f[i] = g[i]
      <4>1. \A i \in T : n.orders[i] = m.orders[i]
        BY <1>3
      <4>2. \A i \in T : Locks(m.orders[i], t) \in Int
        BY <1>1, LocksNatural
      <4> QED
        BY <4>1, <4>2
    <3> HIDE DEF f, g, T, F, B
    <3> QED
      BY <3>1, <3>2, SumEqual
  <2>4. m.reserved[t] = Locked(m.orders, D, t)
    BY DEF Orderly, Backed
  <2>5. n.reserved[t] = Max({0, m.reserved[t] - A})
    BY <1>3
  <2> HIDE DEF A, B, E, F
  <2>6. m.reserved[t] - A = B
    BY <2>1, <2>4
  <2>7. Max({0, B}) = B
    BY <2>1, NotNegative
  <2>8. n.reserved[t] = B
    BY <2>5, <2>6, <2>7
  <2>9. Locked(n.orders, DOMAIN n.orders, t) = B
    BY <1>5, <2>1, <2>2, <2>3
  <2> QED
    BY <2>1, <2>8, <2>9
<1>8. n.reserved \in [Traders -> Nat] /\ Backed(n.orders, n.reserved)
  <2>1. n.reserved = [t \in Traders |-> n.reserved[t]]
    BY <1>3
  <2> QED
    BY <1>7, <2>1 DEF Backed
<1>9. n \in MarketType
  <2> DEFINE k == [m EXCEPT !.orders = n.orders]
  <2>1. k \in MarketType
    BY <1>1, <1>5, MarketWith
  <2>2. n = [k EXCEPT !.reserved = n.reserved]
    BY <1>3
  <2> HIDE DEF k
  <2> QED
    BY <1>8, <2>1, <2>2, MarketWith
<1>10. SoundBook(n)
  BY <1>3, <1>6, <1>9 DEF Orderly, SoundBook
<1>11. Numbered(n.orders) /\ Dated(n, c)
  BY <1>3, <1>4, <1>5 DEF Orderly, Numbered, Dated, SameOrder, Untouched
<1>12. Uncrossed(n.orders)
  <2> SUFFICES ASSUME NEW i \in DOMAIN n.orders, NEW j \in DOMAIN n.orders,
                      n.orders[i].status = "open", n.orders[j].status = "open",
                      n.orders[i].outcome = n.orders[j].outcome,
                      n.orders[i].side = "buy", n.orders[j].side = "sell",
                      n.orders[i].price >= n.orders[j].price
               PROVE  n.orders[i].trader = n.orders[j].trader
    BY DEF Uncrossed
  <2>1. n.orders[i] = m.orders[i] /\ n.orders[j] = m.orders[j] /\ i \in DOMAIN m.orders /\ j \in DOMAIN m.orders
    BY <1>3, <1>4, <1>5
  <2> QED
    BY <2>1 DEF Orderly, Uncrossed
<1> QED
  BY <1>5, <1>6, <1>8, <1>10, <1>11, <1>12 DEF Orderly, n

\* Where the orders, reservations, shares and pledges stay, so does order.
LEMMA OrderlyElse ==
  ASSUME NEW m, NEW c, Orderly(m, c), NEW n \in MarketType,
         n.orders = m.orders, n.reserved = m.reserved, n.position = m.position, n.collateral = m.collateral,
         n.queue.at <= c
  PROVE  Orderly(n, c)
BY DEF Orderly, SoundBook, Dated

(* Settlement *)
LEMMA PaidNatural ==
  ASSUME NEW m \in MarketType, NEW w \in Outcomes, NEW t \in Traders
  PROVE  Payout(m, t, w) \in Nat
<1>1. Unit \in Nat /\ IsFiniteSet(Traders) /\ m.pool \in Nat
  BY MarketConstants DEF MarketType
<1>2. \A u \in Traders : RawClaim(m, u, w) \in Nat
  <2> SUFFICES ASSUME NEW u \in Traders PROVE RawClaim(m, u, w) \in Nat
    OBVIOUS
  <2> DEFINE k == m.position[u][w]
             a == Max({0, k})
  <2>1. k \in Int
    BY DEF MarketType
  <2> HIDE DEF k
  <2>2. a \in Nat
    BY <2>1, NotNegative
  <2> HIDE DEF a
  <2>3. a * Unit \in Nat
    BY <1>1, <2>2
  <2> QED
    BY <2>3 DEF RawClaim, a, k
<1>3. Claimed(m, w) \in Nat
  <2> DEFINE f == [u \in Traders |-> RawClaim(m, u, w)]
  <2>1. Claimed(m, w) = SumFunctionOnSet(f, Traders) /\ \A u \in Traders : f[u] \in Nat
    BY <1>2 DEF Claimed
  <2> HIDE DEF f
  <2> QED
    BY <1>1, <2>1, SumNat
<1> DEFINE r == RawClaim(m, t, w)
           all == Claimed(m, w)
<1>4. Payout(m, t, w) = IF all > m.pool /\ m.pool > 0 THEN (r * m.pool) \div all ELSE r
  BY DEF Payout
<1>5. r \in Nat /\ all \in Nat /\ r * m.pool \in Nat
  BY <1>1, <1>2, <1>3
<1> HIDE DEF r, all
<1>6. CASE all > m.pool /\ m.pool > 0
  <2>1. all \in Nat \ {0}
    BY <1>1, <1>5, <1>6
  <2> DEFINE x == r * m.pool
  <2>2. x \in Nat
    BY <1>5
  <2> HIDE DEF x
  <2>3. x \div all \in Nat
    BY <2>1, <2>2, Quotient
  <2> QED
    BY <1>4, <1>6, <2>3 DEF x
<1>7. CASE ~(all > m.pool /\ m.pool > 0)
  BY <1>4, <1>5, <1>7
<1> QED
  BY <1>6, <1>7

(* ------------------------------ settlement --------------------------- *)
Settled(n, m, w) ==
  /\ n.status = "resolved" /\ n.winner = w /\ n.queue = m.queue
  /\ OrdersAlike(n, m)

LEMMA FinalizedKeeps ==
  ASSUME NEW m, NEW c \in Nat, Orderly(m, c), NEW w \in Outcomes
  PROVE  Orderly(Finalized(m, w), c) /\ Settled(Finalized(m, w), m, w)
<1> DEFINE losing == [t \in Traders |-> SumFunctionOnSet(m.collateral[t], Outcomes \ {w})]
           paid == [t \in Traders |-> IF t \in OnChain THEN 0 ELSE Payout(m, t, w)]
           plan == [t \in Traders |-> IF t \in OnChain THEN Payout(m, t, w) ELSE 0]
           balance == [t \in Traders |-> m.balance[t] + paid[t] + losing[t]]
           pool == Max({0, m.pool - SumFunctionOnSet(losing, Traders)})
           m1 == [m EXCEPT !.balance = balance]
           m2 == [m1 EXCEPT !.pool = pool]
           m3 == Cancelled(m2, OpenOrders(m))
           m4 == [m3 EXCEPT !.status = "resolved"]
           m5 == [m4 EXCEPT !.winner = w]
           m6 == [m5 EXCEPT !.settlements = m.settlements + 1]
           m7 == [m6 EXCEPT !.plan = plan]
<1>1. /\ m \in MarketType /\ m.balance \in [Traders -> Int] /\ m.pool \in Nat /\ m.settlements \in Nat
      /\ m.collateral \in [Traders -> [Outcomes -> Nat]] /\ m.queue.at <= c
      /\ IsFiniteSet(Traders) /\ IsFiniteSet(Outcomes)
  BY MarketConstants DEF Orderly, SoundBook, MarketType, Dated
<1>2. \A t \in Traders : losing[t] \in Nat
  <2> SUFFICES ASSUME NEW t \in Traders PROVE losing[t] \in Nat
    OBVIOUS
  <2> DEFINE f == m.collateral[t]
             S == Outcomes \ {w}
  <2>1. IsFiniteSet(S) /\ \A x \in S : f[x] \in Nat
    BY <1>1, FS_Difference, FS_Subset
  <2>2. losing[t] = SumFunctionOnSet(f, S)
    OBVIOUS
  <2> HIDE DEF losing, f, S
  <2> QED
    BY <2>1, <2>2, SumNat
<1>3. \A t \in Traders : paid[t] \in Nat /\ plan[t] \in Nat
  BY <1>1, PaidNatural
<1>4. /\ Finalized(m, w) = [m3 EXCEPT !.status = "resolved", !.winner = w, !.settlements = @ + 1, !.plan = plan]
      /\ m2 = [m EXCEPT !.balance = balance, !.pool = pool]
  <2> DEFINE k == [m EXCEPT !.balance = balance, !.pool = pool]
  <2>1. m2 = k
    OBVIOUS
  <2>2. Finalized(m, w) = [Cancelled(k, OpenOrders(m)) EXCEPT
                             !.status = "resolved", !.winner = w, !.settlements = @ + 1, !.plan = plan]
    BY DEF Finalized
  <2> HIDE DEF k, m2
  <2> QED
    BY <2>1, <2>2 DEF k
<1> HIDE DEF losing
<1>5. SumFunctionOnSet(losing, Traders) \in Nat
  BY <1>1, <1>2, SumNat
<1>6. pool \in Nat
  <2> DEFINE k == m.pool - SumFunctionOnSet(losing, Traders)
  <2>1. k \in Int
    BY <1>1, <1>5
  <2> HIDE DEF k
  <2>2. Max({0, k}) \in Nat
    BY <2>1, NotNegative
  <2> QED
    BY <2>2 DEF k
<1> HIDE DEF paid, pool
<1>7. balance \in [Traders -> Int]
  BY <1>1, <1>2, <1>3
<1>8. plan \in [Traders -> Nat]
  BY <1>3
<1> HIDE DEF plan, balance
<1>9. m1 \in MarketType /\ m2 \in MarketType
  BY <1>1, <1>6, <1>7, MarketWith
<1>10. /\ m2.orders = m.orders /\ m2.reserved = m.reserved /\ m2.position = m.position
       /\ m2.collateral = m.collateral /\ m2.queue = m.queue /\ m2.settlements = m.settlements
  BY <1>1 DEF MarketType
<1> HIDE DEF m2
<1>11. Orderly(m2, c) /\ OpenOrders(m) \subseteq OpenOrders(m2)
  BY <1>1, <1>9, <1>10, OrderlyElse DEF OpenOrders
<1>12. Orderly(m3, c) /\ OrdersAlike(m3, m2)
  BY <1>11, CancelledKeeps
<1>13. Untouched(m3, m2)
  <2>1. CancelledTo(m3, m2, OpenOrders(m))
    BY <1>9, CancelledFields
  <2> QED
    BY <2>1 DEF CancelledTo
<1> HIDE DEF m3
<1>14. m3 \in MarketType /\ m3.queue = m.queue /\ m3.settlements = m.settlements /\ OrdersAlike(m3, m)
  BY <1>10, <1>12, <1>13 DEF Orderly, SoundBook, Untouched, OrdersAlike
<1>15. Finalized(m, w) = m7
  <2>1. Finalized(m, w) = [m3 EXCEPT !.status = "resolved", !.winner = w,
                                     !.settlements = m.settlements + 1, !.plan = plan]
    BY <1>4, <1>14
  <2> QED
    BY <2>1
<1>16. m4 \in MarketType
  <2>1. "resolved" \in Statuses
    BY DEF Statuses
  <2> QED
    BY <1>14, <2>1, MarketWith
<1>17. m7 \in MarketType
  <2> HIDE DEF m4
  <2>1. m5 \in MarketType
    BY <1>16, MarketWith
  <2> HIDE DEF m5
  <2>2. m.settlements + 1 \in Nat
    BY <1>1
  <2>3. m6 \in MarketType
    BY <2>1, <2>2, MarketWith
  <2> HIDE DEF m6
  <2> QED
    BY <1>8, <2>3, MarketWith
<1>18. /\ m7.orders = m3.orders /\ m7.reserved = m3.reserved /\ m7.position = m3.position
       /\ m7.collateral = m3.collateral /\ m7.queue = m3.queue /\ m7.status = "resolved" /\ m7.winner = w
  BY <1>14 DEF MarketType
<1> HIDE DEF m7
<1>19. Orderly(m7, c)
  BY <1>1, <1>12, <1>14, <1>17, <1>18, OrderlyElse
<1>20. Settled(m7, m, w)
  BY <1>14, <1>18 DEF Settled, OrdersAlike
<1> QED
  BY <1>15, <1>19, <1>20

LEMMA AlikeSelf ==
  ASSUME NEW m
  PROVE  OrdersAlike(m, m)
BY DEF OrdersAlike, SameOrder

LEMMA RereadKeeps ==
  ASSUME NEW m, clock \in Nat, MarketFine(m, clock)
  PROVE  MarketFine(Reread(m), clock) /\ OrdersAlike(Reread(m), m)
<1> DEFINE due == m.status # "resolved" /\ clock >= CloseTime
           known == due /\ m.queue.label \in Outcomes
           status == CASE m.status = "resolved" \/ known -> "resolved"
                       [] m.status # "resolved" /\ ~due -> "queued"
                       [] due /\ m.queue.label = None -> "awaiting_source_result"
                       [] due /\ m.queue.label \notin Outcomes \union {None} -> "needs_operator_review"
           at == IF known THEN clock ELSE m.queue.at
           queue == [m.queue EXCEPT !.status = status, !.at = at]
           k == IF known THEN Finalized(m, m.queue.label) ELSE m
           n == [k EXCEPT !.queue = queue]
<1>1. m \in MarketType /\ m.queue \in QueueType /\ m.queue.at <= clock /\ Orderly(m, clock)
  BY DEF MarketFine, Orderly, SoundBook, Dated, MarketType
<1>2. status \in QueueStatuses
  <2>1. CASE m.status = "resolved" \/ known
    BY <2>1 DEF QueueStatuses
  <2>2. CASE m.status # "resolved" /\ ~due
    BY <2>2 DEF QueueStatuses
  <2>3. CASE due /\ m.queue.label = None
    <3>1. m.queue.label \notin Outcomes
      BY <2>3, MarketConstants
    <3> QED
      BY <2>3, <3>1 DEF QueueStatuses
  <2>4. CASE due /\ m.queue.label \notin Outcomes \union {None}
    BY <2>4 DEF QueueStatuses
  <2> QED
    BY <2>1, <2>2, <2>3, <2>4
<1>3. at \in Nat /\ at <= clock
  BY <1>1 DEF QueueType
<1>4. Reread(m) = IF m.status = "deleted" \/ ~m.queue.enabled \/ queue = m.queue THEN m ELSE n
  <2> DEFINE queue1 == [m.queue EXCEPT !.status = status, !.at = IF known THEN clock ELSE @]
  <2>1. queue1 = queue
    OBVIOUS
  <2> HIDE DEF status, known
  <2>2. Reread(m) = IF m.status = "deleted" \/ ~m.queue.enabled \/ queue1 = m.queue THEN m
                    ELSE [IF known THEN Finalized(m, m.queue.label) ELSE m EXCEPT !.queue = queue1]
    BY DEF Reread, status, known
  <2> QED
    BY <2>1, <2>2
<1>5. Orderly(k, clock) /\ OrdersAlike(k, m) /\ k.queue = m.queue /\ (k.winner = None => k = m)
  <2>1. CASE known
    <3> DEFINE w == m.queue.label
    <3>1. w \in Outcomes /\ w # None
      BY <2>1, MarketConstants
    <3>2. k = Finalized(m, w)
      BY <2>1
    <3> HIDE DEF w
    <3>3. Orderly(Finalized(m, w), clock) /\ Settled(Finalized(m, w), m, w)
      BY <1>1, <3>1, FinalizedKeeps
    <3> HIDE DEF k
    <3> QED
      BY <3>1, <3>2, <3>3 DEF Settled
  <2>2. CASE ~known
    BY <1>1, <2>2, AlikeSelf
  <2> QED
    BY <2>1, <2>2
<1> HIDE DEF status, at, k
<1>6. queue \in QueueType /\ queue.at = at
  <2> DEFINE e == [m.queue EXCEPT !.status = status]
  <2>1. e \in QueueType
    BY <1>1, <1>2 DEF QueueType
  <2>2. queue = [e EXCEPT !.at = at]
    OBVIOUS
  <2> HIDE DEF e, queue
  <2> QED
    BY <1>3, <2>1, <2>2 DEF QueueType
<1> HIDE DEF queue
<1>7. k \in MarketType
  BY <1>5 DEF Orderly, SoundBook
<1>8. n \in MarketType
  BY <1>6, <1>7, MarketWith
<1>9. /\ n.orders = k.orders /\ n.reserved = k.reserved /\ n.position = k.position
      /\ n.collateral = k.collateral /\ n.queue = queue /\ n.winner = k.winner
      /\ n.balance = k.balance /\ n.pool = k.pool
  BY <1>7 DEF MarketType
<1> HIDE DEF n
<1>10. n.queue.at <= clock
  BY <1>3, <1>6, <1>9
<1>11. Orderly(n, clock)
  BY <1>5, <1>8, <1>9, <1>10, OrderlyElse
<1>12. n.winner = None => Weighed(n)
  <2> SUFFICES ASSUME n.winner = None PROVE Weighed(n)
    OBVIOUS
  <2>1. k = m /\ Weighed(m)
    BY <1>5, <1>9 DEF MarketFine
  <2> QED
    BY <1>9, <2>1 DEF Weighed
<1>13. OrdersAlike(n, m)
  BY <1>5, <1>9 DEF OrdersAlike
<1> QED
  BY <1>4, <1>11, <1>12, <1>13, AlikeSelf DEF MarketFine

(* Placing an order *)
LEMMA NewOrderTyped ==
  ASSUME NEW m \in MarketType, NEW t \in Traders, NEW f \in Offers[t], NEW id \in Int, clock \in Nat,
         NEW o, o = NewOrder(m, t, f, id)
  PROVE  /\ o \in OrderType /\ OrderFine(o) /\ o.left = o.qty /\ o.status = "open"
         /\ o.at = clock /\ o.id = id /\ o.trader = t
<1>1. f \in OfferType /\ f \in AllOffers
  BY MarketConstants DEF AllOffers
<1>2. /\ f.side \in {"buy", "sell"} /\ f.outcome \in Outcomes /\ f.price \in BasisPoints
      /\ f.qty \in Nat \ {0} /\ f.kind \in Kinds
  BY <1>1 DEF OfferType
<1> DEFINE held == m.position[t][f.outcome]
           had == Max({0, held})
           short == Max({0, f.qty - had})
           reserve == IF f.side = "buy" THEN ShareCost(f.price, f.qty) ELSE ShortCollateral(f.price, short)
<1>3. held \in Int
  BY <1>2 DEF MarketType
<1>4. had \in Nat
  <2> HIDE DEF held
  <2> QED
    BY <1>3, NotNegative
<1>5. short \in Nat
  <2> DEFINE k == f.qty - had
  <2>1. k \in Int
    BY <1>2, <1>4
  <2> HIDE DEF k
  <2>2. Max({0, k}) \in Nat
    BY <2>1, NotNegative
  <2> QED
    BY <2>2 DEF k
<1>6. o = [id |-> id, trader |-> t, outcome |-> f.outcome, side |-> f.side, price |-> f.price,
           qty |-> f.qty, left |-> f.qty, kind |-> f.kind, reserve |-> reserve, at |-> clock, status |-> "open"]
  BY DEF NewOrder
<1> HIDE DEF held, had, short
<1>7. reserve \in Nat
  BY <1>2, <1>5, Prices
<1> HIDE DEF reserve
<1>8. "open" \in OrderStatuses
  BY DEF OrderStatuses
<1>9. o \in OrderType
  BY <1>2, <1>6, <1>7, <1>8 DEF OrderType
<1>10. /\ o.left = f.qty /\ o.qty = f.qty /\ o.status = "open" /\ o.price = f.price
       /\ o.at = clock /\ o.id = id /\ o.trader = t
  BY <1>6
<1> QED
  BY <1>1, <1>2, <1>9, <1>10 DEF OrderFine

(* ------------------------------ a new order -------------------------- *)
Appended(after, orders, p) ==
  /\ OrdersFine(after) /\ Len(after) = Len(orders) + 1
  /\ DOMAIN after = DOMAIN orders \union {Len(orders) + 1} /\ Len(orders) + 1 \notin DOMAIN orders
  /\ after[Len(orders) + 1] = p /\ \A i \in DOMAIN orders : after[i] = orders[i]
  /\ \A t \in Traders :
       Locked(after, DOMAIN after, t) = Locked(orders, DOMAIN orders, t) + Locks(p, t)

LEMMA LockedAppend ==
  ASSUME NEW orders, OrdersFine(orders), NEW p \in OrderType, OrderFine(p)
  PROVE  Appended(Append(orders, p), orders, p)
<1> DEFINE after == Append(orders, p)
<1> DEFINE k == Len(orders) + 1
           D == DOMAIN orders
<1>1. orders \in Seq(OrderType) /\ D = 1..Len(orders) /\ Len(orders) \in Nat /\ IsFiniteSet(D)
  BY OrdersTyped DEF OrdersFine
<1>2. /\ after \in Seq(OrderType) /\ Len(after) = k /\ DOMAIN after = D \union {k} /\ k \notin D
      /\ after[k] = p /\ \A i \in D : after[i] = orders[i]
  BY <1>1
<1> HIDE DEF k, after
<1>3. OrdersFine(after)
  BY <1>2 DEF OrdersFine
<1>4. ASSUME NEW t \in Traders
      PROVE  Locked(after, DOMAIN after, t) = Locked(orders, D, t) + Locks(p, t)
  <2> DEFINE f == [i \in DOMAIN after |-> Locks(after[i], t)]
             g == [i \in D |-> Locks(orders[i], t)]
  <2>1. /\ Locked(after, DOMAIN after, t) = SumFunctionOnSet(f, D \union {k})
        /\ Locked(orders, D, t) = SumFunctionOnSet(g, D)
    BY <1>2 DEF Locked
  <2>2. f[k] = Locks(p, t) /\ \A i \in D : f[i] = g[i]
    BY <1>2
  <2>3. f[k] \in Int /\ \A i \in D : f[i] \in Int
    <3>1. \A i \in DOMAIN after : Locks(after[i], t) \in Int
      BY <1>3, OrdersTyped, LocksNatural
    <3> QED
      BY <1>2, <3>1
  <2> HIDE DEF f, g
  <2>4. SumFunctionOnSet(f, D \union {k}) = f[k] + SumFunctionOnSet(f, D)
    BY <1>1, <1>2, <2>3, SumAdd
  <2>5. SumFunctionOnSet(f, D) = SumFunctionOnSet(g, D)
    <3>1. \A i \in D : f[i] \in Int /\ f[i] = g[i]
      BY <2>2, <2>3
    <3> QED
      BY <1>1, <3>1, SumEqual
  <2>6. SumFunctionOnSet(f, D) \in Int
    BY <1>1, <2>3, SumInt
  <2> QED
    BY <2>1, <2>2, <2>3, <2>4, <2>5, <2>6
<1> QED
  BY <1>1, <1>2, <1>3, <1>4 DEF k, after, Appended

\* The order that arrived ends the list: open if something of it rests, and then
\* with what it reserved of that.
PostedTo(n, b, p) ==
  /\ n \in MarketType /\ n.orders = Append(b.m.orders, p) /\ Backed(n.orders, n.reserved)
  /\ p \in OrderType /\ OrderFine(p) /\ SameOrder(p, b.o) /\ p.left = b.o.left
  /\ (p.status = "open" => b.o.left # 0)
  /\ n.balance = b.m.balance /\ n.position = b.m.position /\ n.collateral = b.m.collateral
  /\ n.pool = b.m.pool /\ Untouched(n, b.m)

LEMMA PostedFields ==
  ASSUME NEW b \in BookType, SoundBook(b.m), OrderFine(b.o), b.o.status \in {"open", "filled"},
         BackedWith(b.m.orders, b.m.reserved, b.o)
  PROVE  \E p : PostedTo(Posted(b), b, p)
<1> DEFINE m == b.m
           o == b.o
           ended == IF o.left < o.qty THEN "partially_filled" ELSE "canceled"
           rests == o.kind \in {"GTC", "DAY", "POST"}
           n == Posted(b)
<1>1. /\ m \in MarketType /\ o \in OrderType /\ OrdersFine(m.orders) /\ m.orders \in Seq(OrderType)
      /\ m.reserved \in [Traders -> Nat] /\ o.trader \in Traders /\ o.left \in Nat
  BY DEF BookType, SoundBook, OrdersFine, MarketType, OrderType
<1>2. \A t \in Traders : Locked(m.orders, DOMAIN m.orders, t) \in Nat
  BY <1>1, LockedNatural
<1>3. ReservedFor(o, o.left) \in Nat /\ ReservedFor(o, 0) = 0
  <2>1. 0 \in Nat /\ 0 <= o.left
    BY <1>1
  <2> QED
    BY <1>1, <2>1, ReservedShare
<1>4. n = IF o.left = 0 \/ rests THEN [m EXCEPT !.orders = Append(@, o)]
          ELSE [m EXCEPT !.reserved = Release(@, o.trader, ReservedFor(o, o.left)),
                         !.orders = Append(@, [o EXCEPT !.status = ended])]
  BY DEF Posted
<1>5. CASE o.left = 0 \/ rests
  <2> DEFINE orders == Append(m.orders, o)
  <2>1. n = [m EXCEPT !.orders = orders]
    BY <1>4, <1>5
  <2>2. /\ OrdersFine(orders)
        /\ \A t \in Traders : Locked(orders, DOMAIN orders, t) = Locked(m.orders, DOMAIN m.orders, t) + Locks(o, t)
    <3>1. Appended(orders, m.orders, o)
      BY <1>1, LockedAppend
    <3> QED
      BY <3>1 DEF Appended
  <2>3. orders \in Seq(OrderType)
    BY <2>2 DEF OrdersFine
  <2> HIDE DEF orders, n, m
  <2>4. n \in MarketType
    BY <1>1, <2>1, <2>3, MarketWith
  <2>5. /\ n.orders = orders /\ n.reserved = m.reserved /\ n.balance = m.balance /\ n.position = m.position
        /\ n.collateral = m.collateral /\ n.pool = m.pool /\ n.status = m.status
        /\ n.settlements = m.settlements /\ n.winner = m.winner /\ n.plan = m.plan /\ n.queue = m.queue
    BY <1>1, <2>1 DEF MarketType
  <2>6. \A t \in Traders : Locks(o, t) = Incoming(o, t)
    BY <1>3 DEF Locks, Incoming, OrderFine
  <2>7. Backed(orders, m.reserved)
    BY <2>2, <2>6 DEF Backed, BackedWith, m
  <2>8. PostedTo(n, b, o)
    BY <1>1, <2>4, <2>5, <2>7 DEF PostedTo, SameOrder, Untouched, OrderFine, orders, m
  <2> QED
    BY <2>8 DEF n
<1>6. CASE ~(o.left = 0 \/ rests)
  <2> DEFINE p == [o EXCEPT !.status = ended]
             orders == Append(m.orders, p)
             reserved == Release(m.reserved, o.trader, ReservedFor(o, o.left))
             k == [m EXCEPT !.orders = orders]
  <2>1. n = [k EXCEPT !.reserved = reserved]
    BY <1>4, <1>6
  <2>2. /\ p \in OrderType /\ OrderFine(p) /\ SameOrder(p, o) /\ p.left = o.left
        /\ p.status \in {"partially_filled", "canceled"}
    <3>1. ended \in OrderStatuses /\ ended \in {"partially_filled", "canceled"}
      BY DEF OrderStatuses
    <3> HIDE DEF ended
    <3>2. p \in OrderType /\ p.status = ended /\ SameOrder(p, o) /\ p.left = o.left
      BY <1>1, <3>1 DEF OrderType, SameOrder
    <3> HIDE DEF p
    <3>3. OrderFine(p)
      BY <1>1, <1>6, <3>1, <3>2 DEF OrderFine, SameOrder
    <3> QED
      BY <3>1, <3>2, <3>3
  <2> HIDE DEF p
  <2>3. /\ OrdersFine(orders)
        /\ \A t \in Traders : Locked(orders, DOMAIN orders, t) = Locked(m.orders, DOMAIN m.orders, t) + Locks(p, t)
    <3>1. Appended(orders, m.orders, p)
      BY <1>1, <2>2, LockedAppend
    <3> QED
      BY <3>1 DEF Appended
  <2>4. orders \in Seq(OrderType)
    BY <2>3 DEF OrdersFine
  <2>5. \A t \in Traders : m.reserved[t] = Locked(m.orders, DOMAIN m.orders, t) + Incoming(o, t)
    BY DEF BackedWith
  <2>6. ReservedFor(o, o.left) <= m.reserved[o.trader]
    <3>1. Incoming(o, o.trader) = ReservedFor(o, o.left)
      BY DEF Incoming
    <3>2. m.reserved[o.trader] = Locked(m.orders, DOMAIN m.orders, o.trader) + ReservedFor(o, o.left)
      BY <1>1, <2>5, <3>1
    <3>3. Locked(m.orders, DOMAIN m.orders, o.trader) \in Nat
      BY <1>1, <1>2
    <3> QED
      BY <1>3, <3>2, <3>3
  <2>7. /\ reserved \in [Traders -> Nat]
        /\ \A t \in Traders : reserved[t] = m.reserved[t] - (IF t = o.trader THEN ReservedFor(o, o.left) ELSE 0)
    BY <1>1, <1>3, <2>6, Released
  <2> HIDE DEF orders, reserved, n, m
  <2>8. k \in MarketType
    BY <1>1, <2>4, MarketWith
  <2> HIDE DEF k
  <2>9. n \in MarketType
    BY <2>1, <2>7, <2>8, MarketWith
  <2>10. /\ n.orders = orders /\ n.reserved = reserved /\ n.balance = m.balance /\ n.position = m.position
         /\ n.collateral = m.collateral /\ n.pool = m.pool /\ n.status = m.status
         /\ n.settlements = m.settlements /\ n.winner = m.winner /\ n.plan = m.plan /\ n.queue = m.queue
    BY <1>1, <2>1 DEF MarketType, k
  <2>11. \A t \in Traders : Locks(p, t) = 0
    BY <2>2 DEF Locks
  <2>12. Backed(orders, reserved)
    <3> SUFFICES ASSUME NEW t \in Traders
                 PROVE  reserved[t] = Locked(orders, DOMAIN orders, t)
      BY DEF Backed
    <3>1. Locked(orders, DOMAIN orders, t) = Locked(m.orders, DOMAIN m.orders, t)
      BY <1>2, <2>3, <2>11
    <3>2. CASE t = o.trader
      BY <1>2, <1>3, <2>5, <2>7, <3>1, <3>2 DEF Incoming
    <3>3. CASE t # o.trader
      BY <1>2, <2>5, <2>7, <3>1, <3>3 DEF Incoming
    <3> QED
      BY <3>2, <3>3
  <2>13. PostedTo(n, b, p)
    BY <2>2, <2>9, <2>10, <2>12 DEF PostedTo, Untouched, orders, m
  <2> QED
    BY <2>13 DEF n
<1> QED
  BY <1>5, <1>6

(* ------------------------------- priority ---------------------------- *)
Waits(a, b) ==
  /\ a.outcome = b.outcome /\ a.side = b.side
  /\ IF a.price = b.price THEN a.at < b.at ELSE IF a.side = "buy" THEN a.price > b.price ELSE a.price < b.price

\* Nobody traded while a better or older order of somebody else than the taker waits.
InTurn(n, m) ==
  \A i, j \in OpenOrders(m) :
    Waits(m.orders[i], m.orders[j]) /\ n.orders[j].left < m.orders[j].left
      => n.orders[i].left = 0 \/ m.orders[i].trader = n.orders[Len(n.orders)].trader

LEMMA ArrivesAtMarket ==
  ASSUME NEW m, NEW o, NEW c, Orderly(m, c),
         o \in OrderType, OrderFine(o), o.left = o.qty, o.status = "open",
         NEW k, k = [m EXCEPT !.reserved[o.trader] = @ + o.reserve],
         NEW makers, makers = {i \in Counterparts(k, o) : k.orders[i].trader # o.trader}
  PROVE  /\ Arrives(k, o, makers) /\ k.orders = m.orders /\ k.balance = m.balance
         /\ k.collateral = m.collateral /\ k.pool = m.pool /\ Untouched(k, m)
<1>1. /\ m \in MarketType /\ m.reserved \in [Traders -> Nat] /\ o.trader \in Traders /\ o.reserve \in Nat
      /\ SoundBook(m) /\ OrdersFine(m.orders)
  BY DEF Orderly, SoundBook, MarketType, OrderType
<1> DEFINE reserved == [m.reserved EXCEPT ![o.trader] = @ + o.reserve]
<1>2. reserved \in [Traders -> Nat] /\ \A t \in Traders : reserved[t] = m.reserved[t] + (IF t = o.trader THEN o.reserve ELSE 0)
  BY <1>1
<1>3. k = [m EXCEPT !.reserved = reserved]
  OBVIOUS
<1> HIDE DEF reserved
<1>4. k \in MarketType
  BY <1>1, <1>2, <1>3, MarketWith, ZenonT(30)
<1>5. /\ k.orders = m.orders /\ k.reserved = reserved /\ k.balance = m.balance /\ k.position = m.position
      /\ k.collateral = m.collateral /\ k.pool = m.pool /\ k.status = m.status
      /\ k.settlements = m.settlements /\ k.winner = m.winner /\ k.plan = m.plan /\ k.queue = m.queue
  BY <1>1, <1>3 DEF MarketType
<1>6. SoundBook(k) /\ Untouched(k, m)
  BY <1>1, <1>4, <1>5 DEF SoundBook, Untouched
<1>7. BackedWith(k.orders, k.reserved, o)
  <2>1. ReservedFor(o, o.left) = o.reserve
    <3>1. 0 \in Nat /\ 0 <= o.left
      BY DEF OrderType
    <3> QED
      BY <3>1, ReservedShare
  <2>2. \A t \in Traders : Incoming(o, t) = IF t = o.trader THEN o.reserve ELSE 0
    BY <2>1 DEF Incoming
  <2>3. \A t \in Traders : m.reserved[t] = Locked(m.orders, DOMAIN m.orders, t)
    BY DEF Orderly, Backed
  <2> QED
    BY <1>2, <1>5, <2>2, <2>3 DEF BackedWith
<1>8. makers \subseteq DOMAIN k.orders
  BY DEF Counterparts
<1>9. \A i \in makers : /\ k.orders[i].status = "open" /\ k.orders[i].outcome = o.outcome
                        /\ k.orders[i].side = Opposite(o.side) /\ k.orders[i].trader # o.trader
  BY DEF Counterparts
<1>10. Numbered(k.orders)
  BY <1>5 DEF Orderly
<1> QED
  BY <1>5, <1>6, <1>7, <1>8, <1>9, <1>10 DEF Arrives

LEMMA PlacedKeeps ==
  ASSUME NEW m, NEW c \in Nat, MarketFine(m, c), Len(m.orders) < MaxOrders,
         NEW o \in OrderType, OrderFine(o), o.left = o.qty, o.status = "open", o.at <= c,
         o.id \in {Len(m.orders) + 1, -(Len(m.orders) + 1)}
  PROVE  /\ MarketFine(Placed(m, o), c) /\ InTurn(Placed(m, o), m)
         /\ DOMAIN m.orders \subseteq DOMAIN Placed(m, o).orders
         /\ Len(Placed(m, o).orders) \in DOMAIN Placed(m, o).orders
<1> DEFINE k == [m EXCEPT !.reserved[o.trader] = @ + o.reserve]
           makers == {i \in Counterparts(k, o) : k.orders[i].trader # o.trader}
           b == Matched(k, o)
           n == Placed(m, o)
           last == Len(m.orders) + 1
<1>1. /\ Orderly(m, c) /\ m \in MarketType /\ OrdersFine(m.orders) /\ MaxOrders \in Nat
      /\ DOMAIN m.orders = 1..Len(m.orders) /\ Len(m.orders) \in Nat
      /\ \A i \in DOMAIN m.orders : m.orders[i] \in OrderType /\ OrderFine(m.orders[i])
  BY OrdersTyped, MarketConstants DEF MarketFine, Orderly, SoundBook
<1>2. /\ Arrives(k, o, makers) /\ k.orders = m.orders /\ k.balance = m.balance
      /\ k.collateral = m.collateral /\ k.pool = m.pool /\ Untouched(k, m)
  BY <1>1, ArrivesAtMarket
<1>3. n = Posted(b)
  BY DEF Placed
<1>4. Meeting(k, o, makers, b) /\ b.rest = {}
  <2> HIDE DEF k, b
  <2>1. Meeting(k, o, makers, Matched(k, o)) /\ Matched(k, o).rest = {}
    BY <1>2, MatchedSound
  <2> QED
    BY <2>1 DEF b
<1>5. \A i \in DOMAIN m.orders : i \in makers <=> /\ m.orders[i].status = "open"
        /\ m.orders[i].outcome = o.outcome /\ m.orders[i].side = Opposite(o.side) /\ m.orders[i].trader # o.trader
  BY <1>2 DEF Counterparts
<1>6. makers \subseteq DOMAIN m.orders
  BY <1>2 DEF Arrives
<1> HIDE DEF k, makers, b, n
<1>7. /\ b \in BookType /\ OrderFine(b.o) /\ SameOrder(b.o, o) /\ b.o.status \in {"open", "filled"}
      /\ SoundBook(b.m) /\ Untouched(b.m, k) /\ (Weighed(k) => Weighed(b.m))
      /\ BackedWith(b.m.orders, b.m.reserved, b.o) /\ b.o \in OrderType /\ b.m \in MarketType
      /\ \A i \in makers : b.m.orders[i].left = 0 \/ b.o.left = 0 \/ ~Crosses(o, m.orders[i])
      /\ \A i, j \in makers : Before(m.orders[i], m.orders[j]) /\ b.m.orders[j].left < m.orders[j].left
                                => b.m.orders[i].left = 0
  BY <1>2, <1>4 DEF Meeting, BookType
<1>8. /\ Len(b.m.orders) = Len(m.orders) /\ DOMAIN b.m.orders = DOMAIN m.orders
      /\ \A i \in DOMAIN m.orders : Shrunk(b.m.orders[i], m.orders[i])
      /\ \A i \in DOMAIN m.orders : i \notin makers => b.m.orders[i] = m.orders[i]
  BY <1>2, <1>4 DEF Meeting, BookLeft
<1>9. PICK p : PostedTo(n, b, p)
  BY <1>3, <1>7, PostedFields
<1>10. /\ n \in MarketType /\ n.orders = Append(b.m.orders, p) /\ Backed(n.orders, n.reserved)
       /\ p \in OrderType /\ OrderFine(p) /\ SameOrder(p, b.o) /\ p.left = b.o.left
       /\ (p.status = "open" => b.o.left # 0)
       /\ n.balance = b.m.balance /\ n.position = b.m.position /\ n.collateral = b.m.collateral
       /\ n.pool = b.m.pool /\ Untouched(n, b.m)
  BY <1>9 DEF PostedTo
<1>11. OrdersFine(b.m.orders) /\ \A i \in DOMAIN m.orders : b.m.orders[i] \in OrderType /\ OrderFine(b.m.orders[i])
  BY <1>7, <1>8, OrdersTyped DEF SoundBook
<1>12. /\ OrdersFine(n.orders) /\ Len(n.orders) = last /\ DOMAIN n.orders = DOMAIN m.orders \union {last}
       /\ last \notin DOMAIN m.orders /\ n.orders[last] = p
       /\ \A i \in DOMAIN m.orders : n.orders[i] = b.m.orders[i]
  <2>1. Appended(n.orders, b.m.orders, p)
    BY <1>10, <1>11, LockedAppend
  <2> QED
    BY <1>8, <2>1 DEF Appended
<1> HIDE DEF last
<1>13. SameOrder(p, o)
  BY <1>7, <1>10 DEF SameOrder
<1>14. SoundBook(n)
  BY <1>7, <1>10, <1>12 DEF SoundBook
<1>15. Numbered(n.orders)
  BY <1>1, <1>8, <1>12, <1>13, ZenonT(30) DEF Orderly, Numbered, Shrunk, SameOrder, last
<1>16. Dated(n, c)
  <2>1. n.queue = m.queue
    BY <1>2, <1>7, <1>10 DEF Untouched
  <2> QED
    BY <1>1, <1>8, <1>12, <1>13, <2>1 DEF Orderly, Dated, Shrunk, SameOrder
<1>17. Uncrossed(n.orders)
  <2>1. \A i \in makers : b.m.orders[i].status = "open" /\ b.o.left # 0 => ~Crosses(o, m.orders[i])
    BY <1>6, <1>7, <1>11 DEF OrderFine
  <2>2. ASSUME NEW i \in DOMAIN m.orders, b.m.orders[i].status = "open", p.status = "open",
               m.orders[i].outcome = o.outcome, m.orders[i].side = Opposite(o.side),
               Crosses(o, m.orders[i])
        PROVE  m.orders[i].trader = o.trader
    <3>1. m.orders[i].status = "open"
      BY <1>8, <2>2 DEF Shrunk
    <3>2. i \notin makers
      BY <1>10, <2>1, <2>2
    <3> QED
      BY <1>5, <2>2, <3>1, <3>2
  <2> SUFFICES ASSUME NEW i \in DOMAIN n.orders, NEW j \in DOMAIN n.orders,
                      n.orders[i].status = "open", n.orders[j].status = "open",
                      n.orders[i].outcome = n.orders[j].outcome,
                      n.orders[i].side = "buy", n.orders[j].side = "sell",
                      n.orders[i].price >= n.orders[j].price
               PROVE  n.orders[i].trader = n.orders[j].trader
    BY DEF Uncrossed
  <2>3. CASE i # last /\ j # last
    <3>1. i \in DOMAIN m.orders /\ j \in DOMAIN m.orders
      BY <1>12, <2>3
    <3>2. n.orders[i] = b.m.orders[i] /\ n.orders[j] = b.m.orders[j]
      BY <1>12, <3>1
    <3>3. Shrunk(n.orders[i], m.orders[i]) /\ Shrunk(n.orders[j], m.orders[j])
      BY <1>8, <3>1, <3>2
    <3>4. /\ m.orders[i].status = "open" /\ m.orders[j].status = "open"
          /\ m.orders[i].outcome = m.orders[j].outcome /\ m.orders[i].side = "buy" /\ m.orders[j].side = "sell"
          /\ m.orders[i].price >= m.orders[j].price
          /\ n.orders[i].trader = m.orders[i].trader /\ n.orders[j].trader = m.orders[j].trader
      BY <3>3 DEF Shrunk, SameOrder
    <3> QED
      BY <1>1, <3>1, <3>4 DEF Orderly, Uncrossed
  <2>4. CASE i = last /\ j # last
    <3>1. j \in DOMAIN m.orders /\ n.orders[j] = b.m.orders[j] /\ n.orders[i] = p
      BY <1>12, <2>4
    <3>2. SameOrder(n.orders[j], m.orders[j])
      BY <1>8, <3>1 DEF Shrunk
    <3>3. /\ m.orders[j].outcome = o.outcome /\ o.side = "buy" /\ m.orders[j].side = "sell"
          /\ o.price >= m.orders[j].price
          /\ n.orders[i].trader = o.trader /\ n.orders[j].trader = m.orders[j].trader
      BY <1>13, <3>1, <3>2 DEF SameOrder
    <3>4. m.orders[j].side = Opposite(o.side) /\ Crosses(o, m.orders[j])
      BY <3>3 DEF Opposite, Crosses
    <3> QED
      BY <2>2, <3>1, <3>3, <3>4
  <2>5. CASE i # last /\ j = last
    <3>1. i \in DOMAIN m.orders /\ n.orders[i] = b.m.orders[i] /\ n.orders[j] = p
      BY <1>12, <2>5
    <3>2. SameOrder(n.orders[i], m.orders[i])
      BY <1>8, <3>1 DEF Shrunk
    <3>3. /\ m.orders[i].outcome = o.outcome /\ o.side = "sell" /\ m.orders[i].side = "buy"
          /\ m.orders[i].price >= o.price
          /\ n.orders[j].trader = o.trader /\ n.orders[i].trader = m.orders[i].trader
      BY <1>13, <3>1, <3>2 DEF SameOrder
    <3>4. m.orders[i].side = Opposite(o.side) /\ Crosses(o, m.orders[i])
      BY <3>3 DEF Opposite, Crosses
    <3> QED
      BY <2>2, <3>1, <3>3, <3>4
  <2>6. CASE i = last /\ j = last
    BY <2>6
  <2> QED
    BY <2>3, <2>4, <2>5, <2>6
<1>18. Orderly(n, c)
  <2>1. Len(n.orders) <= MaxOrders
    BY <1>1, <1>12 DEF last
  <2> QED
    BY <1>10, <1>14, <1>15, <1>16, <1>17, <2>1 DEF Orderly
<1>19. n.winner = None => Weighed(n)
  <2>1. n.winner = m.winner
    BY <1>2, <1>7, <1>10 DEF Untouched
  <2>2. Weighed(m) => Weighed(k)
    BY <1>2 DEF Weighed
  <2>3. Weighed(b.m) => Weighed(n)
    BY <1>10 DEF Weighed
  <2> QED
    BY <1>7, <2>1, <2>2, <2>3 DEF MarketFine
<1>20. InTurn(n, m)
  <2> SUFFICES ASSUME NEW i \in OpenOrders(m), NEW j \in OpenOrders(m),
                      Waits(m.orders[i], m.orders[j]), n.orders[j].left < m.orders[j].left,
                      m.orders[i].trader # n.orders[Len(n.orders)].trader
               PROVE  n.orders[i].left = 0
    BY DEF InTurn
  <2>1. /\ i \in DOMAIN m.orders /\ j \in DOMAIN m.orders
        /\ m.orders[i].status = "open" /\ m.orders[j].status = "open"
    BY DEF OpenOrders
  <2>2. m.orders[i] \in OrderType /\ m.orders[j] \in OrderType /\ m.orders[j].left \in Nat
    BY <1>1, <2>1 DEF OrderType
  <2>3. n.orders[i] = b.m.orders[i] /\ n.orders[j] = b.m.orders[j] /\ n.orders[Len(n.orders)] = p
    BY <1>12, <2>1
  <2>4. j \in makers
    BY <1>8, <2>1, <2>2, <2>3
  <2>5. m.orders[i].outcome = o.outcome /\ m.orders[i].side = Opposite(o.side) /\ m.orders[i].trader # o.trader
    BY <1>5, <1>13, <2>1, <2>3, <2>4 DEF Waits, SameOrder
  <2>6. i \in makers
    BY <1>5, <2>1, <2>5
  <2>7. Before(m.orders[i], m.orders[j])
    BY <2>2, OrderNumbers DEF Waits, Before
  <2> QED
    BY <1>7, <2>3, <2>4, <2>6, <2>7
<1> QED
  BY <1>12, <1>18, <1>19, <1>20 DEF MarketFine, n

(* The specification *)
(* ------------------------------- requests ---------------------------- *)
MarketInv == clock \in 0..MaxTime /\ MarketFine(market, clock)

LEMMA MarketInitially == Init => MarketInv
<1> SUFFICES ASSUME Init PROVE MarketInv
  OBVIOUS
<1> DEFINE m == market
           zero == [t \in Traders |-> 0]
           none == [t \in Traders |-> [x \in Outcomes |-> 0]]
           full == [t \in Traders |-> Deposit]
           queue == [enabled |-> Imported, label |-> None, status |-> "queued", at |-> 0]
<1>1. /\ clock = 0 /\ MaxTime \in Nat /\ Deposit \in Nat /\ Imported \in BOOLEAN /\ MaxOrders \in Nat
      /\ IsFiniteSet(Traders) /\ IsFiniteSet(Outcomes)
  BY MarketConstants DEF Init
<1>2. m = [status |-> "open", orders |-> <<>>, balance |-> full, reserved |-> zero,
           position |-> none, collateral |-> none, pool |-> 0, settlements |-> 0,
           winner |-> None, plan |-> zero, queue |-> queue]
  BY DEF Init, Created, Zero, ZeroPerOutcome
<1>3. /\ zero \in [Traders -> Nat] /\ none \in [Traders -> [Outcomes -> Nat]]
      /\ none \in [Traders -> [Outcomes -> Int]] /\ full \in [Traders -> Int]
  BY <1>1
<1>4. queue \in QueueType /\ queue.at = 0
  BY <1>1 DEF QueueType, QueueStatuses
<1>5. <<>> \in Seq(OrderType) /\ DOMAIN <<>> = {} /\ Len(<<>>) = 0
  OBVIOUS
<1>6. Sold(none)
  <2> SUFFICES ASSUME NEW x \in Outcomes PROVE ShareSum(none, x) = 0
    BY DEF Sold
  <2> DEFINE f == [t \in Traders |-> none[t][x]]
  <2>1. ShareSum(none, x) = SumFunctionOnSet(f, Traders) /\ \A t \in Traders : f[t] = 0
    BY DEF ShareSum
  <2> HIDE DEF f, none
  <2> QED
    BY <1>1, <2>1, SumZero
<1>7. Covered(none, none)
  <2>1. -0 * LeastPledge = 0
    BY LeastOfAll
  <2> QED
    BY <2>1 DEF Covered
<1>8. Balanced(full, none, 0)
  <2>1. SumFunctionOnSet(full, Traders) = Deposit * Cardinality(Traders)
    <3>1. \A t \in Traders : full[t] = Deposit
      OBVIOUS
    <3>2. Deposit \in Int
      BY <1>1
    <3> HIDE DEF full
    <3> QED
      BY <1>1, <3>1, <3>2, SumConstant
  <2>2. PledgeSum(none) = 0
    <3> DEFINE g == [t \in Traders |-> SumFunctionOnSet(none[t], Outcomes)]
    <3>1. \A t \in Traders : g[t] = 0
      <4> SUFFICES ASSUME NEW t \in Traders PROVE g[t] = 0
        OBVIOUS
      <4> DEFINE f == none[t]
      <4>1. g[t] = SumFunctionOnSet(f, Outcomes) /\ \A x \in Outcomes : f[x] = 0
        OBVIOUS
      <4> HIDE DEF f, g
      <4> QED
        BY <1>1, <4>1, SumZero
    <3>2. PledgeSum(none) = SumFunctionOnSet(g, Traders)
      BY DEF PledgeSum
    <3> HIDE DEF g, none
    <3> QED
      BY <1>1, <3>1, <3>2, SumZero
  <2>3. Cardinality(Traders) \in Nat
    BY <1>1, FS_CardinalityType
  <2> DEFINE v == Deposit * Cardinality(Traders)
  <2>4. v \in Int
    BY <1>1, <2>3
  <2> HIDE DEF v, full, none
  <2> QED
    BY <2>1, <2>2, <2>4 DEF Balanced, v
<1> HIDE DEF zero, none, full, queue, m
<1>9. m \in MarketType
  BY <1>2, <1>3, <1>4, <1>5 DEF MarketType, Statuses
<1>10. /\ m.orders = <<>> /\ m.balance = full /\ m.reserved = zero /\ m.position = none
       /\ m.collateral = none /\ m.pool = 0 /\ m.queue = queue
  BY <1>2
<1>11. OrdersFine(m.orders)
  BY <1>5, <1>10 DEF OrdersFine
<1>12. SoundBook(m)
  BY <1>6, <1>7, <1>9, <1>10, <1>11 DEF SoundBook
<1>13. Backed(m.orders, m.reserved)
  <2> SUFFICES ASSUME NEW t \in Traders PROVE m.reserved[t] = Locked(m.orders, DOMAIN m.orders, t)
    BY DEF Backed
  <2>1. Locked(m.orders, DOMAIN m.orders, t) = 0
    BY <1>5, <1>10, SumEmpty DEF Locked
  <2> QED
    BY <1>10, <2>1 DEF zero
<1>14. Orderly(m, clock)
  BY <1>1, <1>4, <1>5, <1>10, <1>12, <1>13 DEF Orderly, Numbered, Dated, Uncrossed
<1>15. Weighed(m)
  BY <1>8, <1>10 DEF Weighed
<1> QED
  BY <1>1, <1>14, <1>15 DEF MarketInv, MarketFine, m

\* A request that changes the status of the market, or what its source said.
LEMMA StatusKeeps ==
  ASSUME NEW m, NEW c, MarketFine(m, c), NEW s \in Statuses
  PROVE  MarketFine([m EXCEPT !.status = s], c) /\ OrdersAlike([m EXCEPT !.status = s], m)
<1> DEFINE n == [m EXCEPT !.status = s]
<1>1. m \in MarketType /\ Orderly(m, c) /\ m.queue.at <= c
  BY DEF MarketFine, Orderly, SoundBook, Dated
<1>2. n \in MarketType
  BY <1>1, MarketWith
<1>3. /\ n.orders = m.orders /\ n.reserved = m.reserved /\ n.position = m.position
      /\ n.collateral = m.collateral /\ n.queue = m.queue /\ n.winner = m.winner
      /\ n.balance = m.balance /\ n.pool = m.pool
  BY <1>1 DEF MarketType
<1> HIDE DEF n
<1>4. Orderly(n, c)
  BY <1>1, <1>2, <1>3, OrderlyElse
<1> QED
  BY <1>3, <1>4, AlikeSelf DEF MarketFine, Weighed, OrdersAlike, n

LEMMA LabelKeeps ==
  ASSUME NEW m, NEW c, MarketFine(m, c)
  PROVE  MarketFine([m EXCEPT !.queue.label = SourceLabel], c)
         /\ OrdersAlike([m EXCEPT !.queue.label = SourceLabel], m)
<1> DEFINE queue == [m.queue EXCEPT !.label = SourceLabel]
           n == [m EXCEPT !.queue = queue]
<1>1. m \in MarketType /\ Orderly(m, c) /\ m.queue.at <= c /\ m.queue \in QueueType
  BY DEF MarketFine, Orderly, SoundBook, Dated, MarketType
<1>2. queue \in QueueType /\ queue.at = m.queue.at
  BY <1>1 DEF QueueType
<1>3. [m EXCEPT !.queue.label = SourceLabel] = n
  OBVIOUS
<1> HIDE DEF queue
<1>4. n \in MarketType
  BY <1>1, <1>2, MarketWith
<1>5. /\ n.orders = m.orders /\ n.reserved = m.reserved /\ n.position = m.position
      /\ n.collateral = m.collateral /\ n.queue = queue /\ n.winner = m.winner
      /\ n.balance = m.balance /\ n.pool = m.pool
  BY <1>1 DEF MarketType
<1> HIDE DEF n
<1>6. Orderly(n, c)
  BY <1>1, <1>2, <1>4, <1>5, OrderlyElse
<1>7. MarketFine(n, c) /\ OrdersAlike(n, m)
  BY <1>5, <1>6, AlikeSelf DEF MarketFine, Weighed, OrdersAlike
<1> QED
  BY <1>3, <1>7

LEMMA InTurnUntraded ==
  ASSUME NEW n, NEW m, m \in MarketType, OrdersAlike(n, m)
  PROVE  InTurn(n, m)
<1>1. \A j \in DOMAIN m.orders : m.orders[j].left \in Nat /\ n.orders[j].left = m.orders[j].left
  <2>1. m.orders \in Seq(OrderType)
    BY DEF MarketType
  <2>2. \A j \in DOMAIN m.orders : m.orders[j] \in OrderType
    BY <2>1
  <2> QED
    BY <2>2 DEF OrderType, OrdersAlike
<1> QED
  BY <1>1 DEF InTurn, OpenOrders

LEMMA InTurnAlike ==
  ASSUME NEW n, NEW k, NEW m, InTurn(k, m), OrdersAlike(n, k),
         DOMAIN m.orders \subseteq DOMAIN k.orders, Len(k.orders) \in DOMAIN k.orders
  PROVE  InTurn(n, m)
BY DEF InTurn, OrdersAlike, SameOrder, OpenOrders

LEMMA AlikeTwice ==
  ASSUME NEW n, NEW k, NEW m, OrdersAlike(n, k), OrdersAlike(k, m)
  PROVE  OrdersAlike(n, m)
BY DEF OrdersAlike, SameOrder

\* What a request that does not trade stores.
LEMMA StoreKeeps ==
  ASSUME MarketInv, NEW n, MarketFine(n, clock), OrdersAlike(n, market), Store(n)
  PROVE  MarketInv' /\ InTurn(market', market)
<1>1. clock \in Nat /\ market' = Reread(n) /\ clock' = clock /\ market \in MarketType
  BY MarketConstants DEF MarketInv, Store, MarketFine, Orderly, SoundBook
<1>2. MarketFine(Reread(n), clock) /\ OrdersAlike(Reread(n), n)
  BY <1>1, RereadKeeps
<1>3. OrdersAlike(Reread(n), market)
  BY <1>2, AlikeTwice
<1>4. InTurn(market', market)
  BY <1>1, <1>3, InTurnUntraded
<1> QED
  BY <1>1, <1>2, <1>4 DEF MarketInv

LEMMA MarketSteps == MarketInv /\ [Next]_vars => MarketInv' /\ InTurn(market', market)
<1> SUFFICES ASSUME MarketInv, [Next]_vars PROVE MarketInv' /\ InTurn(market', market)
  OBVIOUS
<1>1. /\ clock \in Nat /\ clock \in 0..MaxTime /\ MaxTime \in Nat /\ MarketFine(market, clock)
      /\ Orderly(market, clock) /\ market \in MarketType /\ OrdersFine(market.orders)
      /\ Len(market.orders) \in Nat
  <2>1. MarketFine(market, clock) /\ MaxTime \in Nat /\ clock \in 0..MaxTime
    BY MarketConstants DEF MarketInv
  <2>2. Orderly(market, clock) /\ market \in MarketType /\ OrdersFine(market.orders)
    BY <2>1 DEF MarketFine, Orderly, SoundBook
  <2> QED
    BY <2>1, <2>2, OrdersTyped
<1>2. CASE PlaceOrder
  <2>8. PICK t \in Traders : \E f \in Offers[t] : \E id \in Ids(market, f) :
          Store(Placed(market, NewOrder(market, t, f, id)))
    BY <1>2 DEF PlaceOrder
  <2>9. PICK f \in Offers[t] : \E id \in Ids(market, f) : Store(Placed(market, NewOrder(market, t, f, id)))
    BY <2>8
  <2>1. PICK id \in Ids(market, f) : Store(Placed(market, NewOrder(market, t, f, id)))
    BY <2>9
  <2>2. id \in Int /\ id \in {Len(market.orders) + 1, -(Len(market.orders) + 1)} /\ Len(market.orders) < MaxOrders
    BY <1>1, <1>2 DEF PlaceOrder, Ids
  <2> DEFINE o == NewOrder(market, t, f, id)
             k == Placed(market, o)
  <2>3. /\ o \in OrderType /\ OrderFine(o) /\ o.left = o.qty /\ o.status = "open"
        /\ o.at = clock /\ o.id = id
    BY <1>1, <2>2, NewOrderTyped
  <2>4. market' = Reread(k) /\ clock' = clock
    BY <2>1 DEF Store
  <2> HIDE DEF o
  <2>5. /\ MarketFine(k, clock) /\ InTurn(k, market)
        /\ DOMAIN market.orders \subseteq DOMAIN k.orders /\ Len(k.orders) \in DOMAIN k.orders
    <3>1. o.at <= clock /\ o.id \in {Len(market.orders) + 1, -(Len(market.orders) + 1)}
      BY <1>1, <2>2, <2>3
    <3> QED
      BY <1>1, <2>2, <2>3, <3>1, PlacedKeeps
  <2> HIDE DEF k
  <2>6. MarketFine(Reread(k), clock) /\ OrdersAlike(Reread(k), k)
    BY <1>1, <2>5, RereadKeeps
  <2>7. InTurn(Reread(k), market)
    BY <2>5, <2>6, InTurnAlike
  <2> QED
    BY <1>1, <2>4, <2>6, <2>7 DEF MarketInv
<1>3. CASE CloseOnLateOrder \/ Delete
  <2>1. PICK s \in Statuses : market' = [market EXCEPT !.status = s] /\ clock' = clock
    BY <1>3 DEF CloseOnLateOrder, Delete, Statuses
  <2>2. MarketFine(market', clock) /\ OrdersAlike(market', market)
    BY <1>1, <2>1, StatusKeeps
  <2> QED
    BY <1>1, <2>1, <2>2, InTurnUntraded DEF MarketInv
<1>4. CASE CancelOrder \/ CancelAllOrders
  <2>1. PICK S : S \subseteq OpenOrders(market) /\ Store(Cancelled(market, S))
    <3>1. CASE CancelOrder
      <4>1. PICK i \in OpenOrders(market) : Store(Cancelled(market, {i}))
        BY <3>1 DEF CancelOrder
      <4>2. {i} \subseteq OpenOrders(market)
        OBVIOUS
      <4> QED
        BY <4>1, <4>2
    <3>2. CASE CancelAllOrders
      <4>1. PICK t \in Traders : Store(Cancelled(market, {i \in OpenOrders(market) : market.orders[i].trader = t}))
        BY <3>2 DEF CancelAllOrders
      <4>2. {i \in OpenOrders(market) : market.orders[i].trader = t} \subseteq OpenOrders(market)
        OBVIOUS
      <4> QED
        BY <4>1, <4>2
    <3> QED
      BY <1>4, <3>1, <3>2
  <2> DEFINE n == Cancelled(market, S)
  <2>2. Orderly(n, clock) /\ OrdersAlike(n, market)
    BY <1>1, <2>1, CancelledKeeps
  <2>3. CancelledTo(n, market, S)
    BY <1>1, CancelledFields
  <2>4. Store(n)
    BY <2>1
  <2> HIDE DEF n
  <2>5. MarketFine(n, clock)
    BY <1>1, <2>2, <2>3 DEF MarketFine, Weighed, CancelledTo, Untouched
  <2> QED
    BY <2>2, <2>4, <2>5, StoreKeeps
<1>5. CASE RequestResolution \/ Dispute \/ TransitionState
  <2>1. PICK s \in Statuses : Store([market EXCEPT !.status = s])
    BY <1>5 DEF RequestResolution, Dispute, TransitionState, Statuses
  <2> DEFINE n == [market EXCEPT !.status = s]
  <2>2. MarketFine(n, clock) /\ OrdersAlike(n, market)
    BY <1>1, StatusKeeps
  <2>3. Store(n)
    BY <2>1
  <2> HIDE DEF n
  <2> QED
    BY <2>2, <2>3, StoreKeeps
<1>6. CASE Resolve
  <2>1. PICK w \in Outcomes : Store(Finalized(market, w))
    BY <1>6 DEF Resolve
  <2> DEFINE n == Finalized(market, w)
  <2>2. Orderly(n, clock) /\ Settled(n, market, w)
    BY <1>1, FinalizedKeeps
  <2>3. Store(n) /\ w # None
    BY <2>1, MarketConstants
  <2> HIDE DEF n
  <2>4. MarketFine(n, clock) /\ OrdersAlike(n, market)
    BY <2>2, <2>3 DEF MarketFine, Settled
  <2> QED
    BY <2>3, <2>4, StoreKeeps
<1>7. CASE ReadMarket
  <2>1. Store(market)
    BY <1>7 DEF ReadMarket
  <2> QED
    BY <1>1, <2>1, AlikeSelf, StoreKeeps
<1>8. CASE SyncMarket \/ SyncSource
  <2>1. SyncMarket
    BY <1>8 DEF SyncSource
  <2>2. CASE market.status # "resolved" /\ clock >= SourceTime
    <3> DEFINE n == [market EXCEPT !.queue.label = SourceLabel]
    <3>1. MarketFine(n, clock) /\ OrdersAlike(n, market)
      BY <1>1, LabelKeeps
    <3>2. Store(n)
      BY <2>1, <2>2 DEF SyncMarket
    <3> HIDE DEF n
    <3> QED
      BY <3>1, <3>2, StoreKeeps
  <2>3. CASE ~(market.status # "resolved" /\ clock >= SourceTime)
    <3>1. Store(market)
      BY <2>1, <2>3 DEF SyncMarket
    <3> QED
      BY <1>1, <3>1, AlikeSelf, StoreKeeps
  <2> QED
    BY <2>2, <2>3
<1>9. CASE Tick
  <2>1. clock < MaxTime /\ clock' = clock + 1 /\ market' = market
    BY <1>9 DEF Tick
  <2>2. Dated(market, clock + 1)
    <3>1. market.queue.at \in Nat /\ \A i \in DOMAIN market.orders : market.orders[i].at \in Nat
      <4>1. \A i \in DOMAIN market.orders : market.orders[i] \in OrderType
        BY <1>1, OrdersTyped
      <4>2. market.queue \in QueueType
        BY <1>1 DEF MarketType
      <4> QED
        BY <4>1, <4>2 DEF QueueType, OrderType
    <3> QED
      BY <1>1, <3>1 DEF Orderly, Dated
  <2>3. MarketFine(market, clock + 1)
    BY <1>1, <2>2 DEF MarketFine, Orderly
  <2>4. InTurn(market, market)
    BY <1>1, AlikeSelf, InTurnUntraded
  <2> QED
    BY <1>1, <2>1, <2>3, <2>4 DEF MarketInv
<1>10. CASE UNCHANGED vars
  <2>1. clock' = clock /\ market' = market
    BY <1>10 DEF vars
  <2>2. InTurn(market, market)
    BY <1>1, AlikeSelf, InTurnUntraded
  <2> QED
    BY <1>1, <2>1, <2>2 DEF MarketInv
<1> QED
  BY <1>2, <1>3, <1>4, <1>5, <1>6, <1>7, <1>8, <1>9, <1>10 DEF Next

LEMMA MarketInvInductive == Spec => []MarketInv
<1>1. MarketInv /\ [Next]_vars => MarketInv'
  BY MarketSteps
<1> QED
  BY <1>1, MarketInitially, PTL DEF Spec

\* The books of a market always balance: its record is sound, shares cancel out,
\* shorts are covered, a wallet reserves what its open orders need, and until
\* there is a winner the wallets and the pool hold what the wallets were given.
THEOREM BooksStayBalanced == Spec => []BooksBalance
<1>1. MarketInv => BooksBalance
  <2> SUFFICES ASSUME MarketInv PROVE BooksBalance
    OBVIOUS
  <2>1. /\ clock \in 0..MaxTime /\ MaxTime \in Nat /\ MaxOrders \in Nat
        /\ MarketFine(market, clock) /\ Orderly(market, clock)
        /\ SoundBook(market) /\ market \in MarketType /\ OrdersFine(market.orders)
        /\ Len(market.orders) <= MaxOrders /\ Dated(market, clock)
    BY MarketConstants DEF MarketInv, MarketFine, Orderly, SoundBook
  <2>2. /\ DOMAIN market.orders = 1..Len(market.orders) /\ Len(market.orders) \in Nat
        /\ \A i \in DOMAIN market.orders : market.orders[i] \in OrderType /\ OrderFine(market.orders[i])
    BY <2>1, OrdersTyped
  <2>3. TypeOK
    <3>1. /\ market.status \in Statuses /\ market.winner \in Outcomes \cup {None} /\ market.pool \in Nat
          /\ market.queue \in QueueType
      BY <2>1 DEF MarketType
    <3>2. market.queue.status \in QueueStatuses /\ market.queue.at \in 0..clock
      <4>1. market.queue.status \in QueueStatuses /\ market.queue.at \in Nat
        BY <3>1 DEF QueueType
      <4> QED
        BY <2>1, <4>1 DEF Dated
    <3>3. DOMAIN market.orders \subseteq 1..MaxOrders
      BY <2>1, <2>2
    <3>4. ASSUME NEW i \in DOMAIN market.orders
          PROVE  LET o == market.orders[i]
                 IN /\ o.status \in OrderStatuses /\ o.left \in 0..o.qty /\ o.at \in 0..clock
                    /\ (o.status = "filled") <=> (o.left = 0)
      <4> DEFINE o == market.orders[i]
      <4>1. o \in OrderType /\ OrderFine(o) /\ o.at <= clock
        BY <2>1, <2>2 DEF Dated
      <4>2. o.status \in OrderStatuses /\ o.left \in Nat /\ o.qty \in Nat /\ o.at \in Nat
        BY <4>1 DEF OrderType
      <4> QED
        BY <2>1, <4>1, <4>2 DEF OrderFine
    <3>5. ASSUME NEW t \in Traders
          PROVE  /\ market.balance[t] \in Int /\ {market.reserved[t], market.plan[t]} \subseteq Nat
                 /\ \A x \in Outcomes : market.position[t][x] \in Int /\ market.collateral[t][x] \in Nat
      BY <2>1 DEF MarketType
    <3> QED
      BY <2>1, <3>1, <3>2, <3>3, <3>4, <3>5 DEF TypeOK
  <2>4. PositionsCancelOut
    BY <2>1 DEF PositionsCancelOut, SoundBook, Sold, ShareSum
  <2>5. ShortsCollateralised
    BY <2>1 DEF ShortsCollateralised, SoundBook, Covered
  <2>6. ReservesBacked
    BY <2>1 DEF ReservesBacked, Orderly, Backed
  <2>7. MoneyConserved
    BY <2>1 DEF MoneyConserved, MarketFine, Weighed, Balanced, PledgeSum
  <2> QED
    BY <2>3, <2>4, <2>5, <2>6, <2>7 DEF BooksBalance, SharesBalance
<1> QED
  BY <1>1, MarketInvInductive, PTL

\* Two open orders of different traders never cross.
THEOREM BookStaysUncrossed == Spec => []BookUncrossed
<1>1. MarketInv => BookUncrossed
  BY DEF MarketInv, MarketFine, Orderly, Uncrossed, BookUncrossed, OpenOrders
<1> QED
  BY <1>1, MarketInvInductive, PTL

\* Price, then age: in every step, whatever the offers and the order they come in.
THEOREM TradesInTurn == Spec => PriceTimePriority
<1>1. ASSUME MarketInv, [Next]_vars
      PROVE  [\A i, j \in OpenOrders(market) :
                LET a == market.orders[i]
                    b == market.orders[j]
                    Earlier == IF a.price = b.price THEN a.at < b.at
                               ELSE IF a.side = "buy" THEN a.price > b.price ELSE a.price < b.price
                IN /\ a.outcome = b.outcome /\ a.side = b.side /\ Earlier
                   /\ market'.orders[j].left < b.left
                   => market'.orders[i].left = 0 \/ a.trader = market'.orders[Len(market'.orders)].trader]_market
  <2>1. InTurn(market', market)
    BY <1>1, MarketSteps
  <2> QED
    BY <2>1 DEF InTurn, Waits
<1> QED
  BY <1>1, MarketInvInductive, PTL DEF Spec, PriceTimePriority
=============================================================================
