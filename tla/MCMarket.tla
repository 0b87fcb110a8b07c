------------------------------ MODULE MCMarket ------------------------------
(***************************************************************************)
(* A market with two outcomes, a trader with a chain address and a demo     *)
(* trader, and a handful of offers that cross each other in part.          *)
(***************************************************************************)
EXTENDS Market

Offer(side, price, qty, kind) ==
  [side |-> side, outcome |-> "out1", price |-> price, qty |-> qty, kind |-> kind]

MCOffers ==
  [t \in Traders |->
     IF t = "addr"
     THEN {Offer("sell", 4000, 2, "GTC"), Offer("buy", 6000, 1, "GTC"), Offer("sell", 1, 2, "IOC")}
     ELSE {Offer("sell", 6000, 1, "POST"), Offer("buy", 6000, 1, "FOK"),
           Offer("sell", 4000, 1, "GTC")}]
=============================================================================
