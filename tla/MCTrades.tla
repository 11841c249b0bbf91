------------------------------ MODULE MCTrades ------------------------------
(* Offers for TLC. *)
EXTENDS Trades

Offer(id, type, price, amount) ==
    [offer_id |-> id, type |-> type, price |-> price, base_amount |-> amount]

\* Two offers whose prices are cut off alike, one of another type and price, and one
\* whose price is cut off to zero.
MCOffers == {Offer(1, "BUY", 14, 1), Offer(2, "BUY", 17, 2),
             Offer(3, "SELL", 25, 4), Offer(4, "BUY", 6, 8)}
=============================================================================
