----------------------------- MODULE MCOfferBook -----------------------------
(* An instance for TLC: sells at one price of amounts that compete for an order, an offer *)
(* of the other type, sells at or around another price, and orders at both.               *)
(* Floats have seven bits.  Offer 6 is a little above the price 3/2 and has the same       *)
(* float; offer 7 is exactly at it and has another one, because 129 becomes 128.          *)
EXTENDS OfferBook

Offer(id, type, base, quote) == [id |-> id, type |-> type, base |-> base, quote |-> quote]
Order(type, amount, n, d) == [type |-> type, amount |-> amount, price |-> <<n, d>>]

MCPublished == {Offer(1, "SELL", 1, 2), Offer(2, "SELL", 2, 4), Offer(3, "SELL", 3, 6),
                Offer(4, "SELL", 3, 6), Offer(5, "BUY", 2, 4),
                Offer(6, "SELL", 65, 98), Offer(7, "SELL", 86, 129)}
MCOrders == {Order("BUY", 4, 2, 1), Order("BUY", 5, 3, 2), Order("SELL", 4, 2, 1),
             Order("BUY", 151, 3, 2)}
MCUlps == {<<2 ^ i, 1>> : i \in 0 .. 2} \cup {<<1, 2 ^ i>> : i \in 1 .. 6}
=============================================================================
