--------------------------- MODULE MCMessageBroker ---------------------------
(* Listeners for TLC. *)
EXTENDS MessageBroker

Listener(name, c, t, wants, raises) ==
    [name |-> name, client |-> c, topic |-> t, wants |-> wants, raises |-> raises]

\* An OfferListener, which fails an assertion for the offer of another market, beside
\* another listener on the same stream.  Nobody listens on the other topic.
MCListeners == {Listener("offers", "a", "broadcast", {"offer"}, {"foreign"}),
                Listener("first", "a", "broadcast", {"foreign"}, {})}
MCMaxSent == [broadcast |-> 3, address |-> 1]
=============================================================================
