------------------------------ MODULE OfferBook ------------------------------
(***************************************************************************)
(* The offer book of a node (offer_book.py) and how a limit order is       *)
(* matched against it: match_limit (matching_algorithm.py) and the rest    *)
(* of DataManager.process_order.                                           *)
(*                                                                         *)
(* One greenlet does all of it and does not yield.  Publication and        *)
(* timeout of an entry are one step each; an order is processed in the     *)
(* steps of its two loops, during which nothing else happens.  An          *)
(* exception leaves the greenlet in "raised", for good.                    *)
(***************************************************************************)
EXTENDS Naturals, Sequences, FiniteSets, Functions

CONSTANTS
    Published,  \* the offers other nodes publish: id, type, base and quote amount
    Orders,     \* limit orders: type, amount, and price as <<numerator, denominator>>
    None,       \* Python's None
    Least,      \* the least mantissa of a float, 2^52; mantissas are below 2 * Least
    Ulps        \* the units of floats, powers of two as <<numerator, denominator>>

Types == {"BUY", "SELL"}
opposite(type) == IF type = "BUY" THEN "SELL" ELSE "BUY"
Ids == {f.id : f \in Published}

ASSUME PublishedAssumption ==
    \A f \in Published :
        f \in [id : {f.id}, type : Types, base : Nat \ {0}, quote : Nat]
ASSUME FiniteAssumption == IsFiniteSet(Published)
\* Offer ids are random numbers of 32 bytes.
ASSUME DistinctIds == \A f, g \in Published : f.id = g.id => f = g
ASSUME OrdersAssumption ==
    \A r \in Orders : /\ r.type \in Types /\ r.amount \in Nat \ {0}
                      /\ r.price \in (Nat \ {0}) \X (Nat \ {0})
ASSUME NoneAssumption == None \notin Published /\ None \notin Orders
ASSUME PrecisionAssumption == /\ Least \in Nat \ {0}
                              /\ Ulps \subseteq (Nat \ {0}) \X (Nat \ {0})

VARIABLES
    offer_entries,       \* of each OfferView: the SortedDict by (price, id)
    offer_entries_by_id, \* of each OfferView: the dictionary by id
    offers,              \* OfferManager.offers: ids of the offers this node takes
    made,                \* the offers this node has made of what orders left
    pc,                  \* where the greenlet is in process_order
    order,               \* the order it processes
    matching_offers, take_offers, amount_left,  \* the variables of match_limit
    next                 \* index of the loop

book == <<offer_entries, offer_entries_by_id>>
local == <<order, matching_offers, take_offers, amount_left, next>>
vars == <<book, offers, made, pc, local>>

-----------------------------------------------------------------------------
(* An offer on its way from the node that makes it to the one that takes it, and what    *)
(* each of them pays.  An amount is <<token, amount>>; the tokens are those of the market. *)

\* _create_offer_msg: a SwapOffer says what its maker asks for and what it bids.
offer_msg(f) ==
    LET base == <<"base_token", f.base>>
        quote == <<"quote_token", f.quote>> IN
    IF f.type = "SELL" THEN [id |-> f.id, ask |-> quote, bid |-> base]
                       ELSE [id |-> f.id, ask |-> base, bid |-> quote]

\* TokenPair.get_offer_type, for the tokens of the market.
get_offer_type(ask_token) == IF ask_token = "base_token" THEN "BUY" ELSE "SELL"

\* OfferListener._transform: the entry of the book that is read from a SwapOffer.
entry_from(msg) ==
    LET type == get_offer_type(msg.ask[1]) IN
    [id |-> msg.id, type |-> type,
     base |-> IF type = "BUY" THEN msg.ask[2] ELSE msg.bid[2],
     quote |-> IF type = "BUY" THEN msg.bid[2] ELSE msg.ask[2]]

\* Mutant: the role is left out.
sends_by_type(role, f) ==
    IF f.type = "BUY" THEN <<"quote_token", f.quote>> ELSE <<"base_token", f.base>>

\* Match.get_send_amount, get_token_from_market: what a party of the exchange pays.
sends(role, f) ==
    IF (role = "MAKER" /\ f.type = "BUY") \/ (role = "TAKER" /\ f.type = "SELL")
    THEN <<"quote_token", f.quote>> ELSE <<"base_token", f.base>>

-----------------------------------------------------------------------------
(* Prices are floats.  A float is a mantissa times a unit, as <<numerator, denominator>>. *)

\* The unit of the floats around n / d, if there are any.
IsUlp(u, n, d) == Least * u[1] * d <= n * u[2] /\ n * u[2] < 2 * Least * u[1] * d
InRange(n, d) == n = 0 \/ \E u \in Ulps : IsUlp(u, n, d)

\* The integer nearest to n / d, the even one of two.
nearest(n, d) ==
    LET cut == n \div d
        rest == 2 * (n % d) IN
    IF rest > d \/ (rest = d /\ cut % 2 = 1) THEN cut + 1 ELSE cut

\* The float nearest to n / d.
rounded(n, d) ==
    LET u == CHOOSE v \in Ulps : IsUlp(v, n, d) IN
    IF n = 0 THEN <<0, 1>> ELSE <<nearest(n * u[2], d * u[1]) * u[1], u[2]>>

float(n) == rounded(n, 1)
quotient(x, y) == rounded(x[1] * y[2], x[2] * y[1])
product(x, y) == rounded(x[1] * y[1], x[2] * y[2])
Equal(x, y) == x[1] * y[2] = y[1] * x[2]

\* BasicOffer.price: float(quote_amount) / base_amount, which makes a float of both.
price(f) == quotient(float(f.quote), float(f.base))
\* LimitOrder.price: float(price) of the request.
order_price(r) == rounded(r.price[1], r.price[2])

\* The numbers above are within the range of floats.
ASSUME RangeAssumption ==
    /\ \A f \in Published :
          LET quote == float(f.quote)  base == float(f.base) IN
          InRange(f.quote, 1) /\ InRange(f.base, 1) /\ InRange(quote[1] * base[2], quote[2] * base[1])
    /\ \A r \in Orders :
          /\ InRange(r.price[1], r.price[2])
          /\ \A n \in 1 .. r.amount :
                LET x == float(n)  y == order_price(r) IN
                InRange(n, 1) /\ InRange(x[1] * y[1], x[2] * y[2])

-----------------------------------------------------------------------------
(* The book. *)

\* The keys of the SortedDict.
SameKey(f, g) == f.id = g.id /\ Equal(price(f), price(g))
\* The entries without the one that has the key of f.
without(entries, f) == {e \in entries : ~ SameKey(e, f)}

\* get_offers_by_price: of the other type, with the same float for a price.
get_offers_by_price(type, x) == {f \in offer_entries[opposite(type)] : Equal(price(f), x)}

contains(id) == \E t \in Types : offer_entries_by_id[t][id] # None

\* insert_offer: the entry replaces one with the same key.
insert_offer(f) ==
    /\ offer_entries' = [offer_entries EXCEPT ![f.type] = without(@, f) \cup {f}]
    /\ offer_entries_by_id' = [offer_entries_by_id EXCEPT ![f.type][f.id] = f]

\* Mutant: the entry stays in the sorted view.
remove_by_id(id) ==
    /\ offer_entries_by_id' = [t \in Types |-> [offer_entries_by_id[t] EXCEPT ![id] = None]]
    /\ UNCHANGED offer_entries

\* remove_offer of an id the book contains: from the buys if it is there, else the sells.
remove_offer(id) ==
    LET t == IF offer_entries_by_id["BUY"][id] # None THEN "BUY" ELSE "SELL"
        entry == offer_entries_by_id[t][id] IN
    /\ offer_entries' = [offer_entries EXCEPT ![t] = without(@, entry)]
    /\ offer_entries_by_id' = [offer_entries_by_id EXCEPT ![t][id] = None]

-----------------------------------------------------------------------------
Init ==
    /\ offer_entries = [t \in Types |-> {}]
    /\ offer_entries_by_id = [t \in Types |-> [id \in Ids |-> None]]
    /\ offers = {}
    /\ made = {}
    /\ pc = "idle"
    /\ order = None
    /\ matching_offers = <<>>
    /\ take_offers = <<>>
    /\ amount_left = 0
    /\ next = 1

\* Mutant: an offer the node already takes is entered again.
PublishAgain(f) ==
    /\ pc = "idle"
    /\ insert_offer(f)
    /\ UNCHANGED <<offers, made, pc, local>>

\* handle_offer_published of the entry that OfferListener reads from the message; nodes
\* may publish an offer again.
OfferPublished(f) ==
    /\ pc = "idle"
    /\ f.id \notin offers
    /\ insert_offer(entry_from(offer_msg(f)))
    /\ UNCHANGED <<offers, made, pc, local>>

\* The timer of the entry that is there has fired and its timeout is still to be handled:
\* create_new_timeout raises, after the entry was replaced.
PublishRaises(f) ==
    /\ pc = "idle"
    /\ f.id \notin offers
    /\ contains(f.id)
    /\ insert_offer(entry_from(offer_msg(f)))
    /\ pc' = "raised"
    /\ UNCHANGED <<offers, made, local>>

\* Mutant: the timer changes the book itself instead of queueing a state change.
TimerRemovesEntry(id) ==
    /\ id \notin offers
    /\ contains(id)
    /\ remove_offer(id)
    /\ UNCHANGED <<offers, made, pc, local>>

\* handle_offer_timeout of an entry.
EntryTimeout(id) ==
    /\ pc = "idle"
    /\ id \notin offers
    /\ contains(id)
    /\ remove_offer(id)
    /\ UNCHANGED <<offers, made, pc, local>>

In(s) == {s[k] : k \in DOMAIN s}

\* Mutant: ascending.
SortedUp(S) ==
    {s \in [1 .. Cardinality(S) -> S] :
        In(s) = S /\ \A j, k \in DOMAIN s : j < k => s[j].base <= s[k].base}

\* The orders in which sort may leave the offers: by amount, the largest first.  Equal
\* amounts come in the order of their random ids, which is any.
Sorted(S) ==
    {s \in [1 .. Cardinality(S) -> S] :
        In(s) = S /\ \A j, k \in DOMAIN s : j < k => s[j].base >= s[k].base}

\* process_order begins, and in it match_limit.
NewLimitOrder(r) ==
    /\ pc = "idle"
    /\ pc' = "match"
    /\ order' = r
    /\ matching_offers' \in Sorted(get_offers_by_price(r.type, order_price(r)))
    /\ take_offers' = <<>>
    /\ amount_left' = r.amount
    /\ next' = 1
    /\ UNCHANGED <<book, offers, made>>

\* Mutant: the offer is not compared with what is left.
MatchAnyOffer ==
    /\ pc = "match"
    /\ next <= Len(matching_offers)
    /\ take_offers' = Append(take_offers, matching_offers[next])
    /\ amount_left' = amount_left - matching_offers[next].base
    /\ next' = next + 1
    /\ UNCHANGED <<book, offers, made, pc, order, matching_offers>>

\* Mutant: what is left is not reduced.
MatchKeepsAmount ==
    /\ pc = "match"
    /\ next <= Len(matching_offers)
    /\ amount_left >= matching_offers[next].base
    /\ take_offers' = Append(take_offers, matching_offers[next])
    /\ next' = next + 1
    /\ UNCHANGED <<book, offers, made, pc, order, matching_offers, amount_left>>

\* The loop of match_limit.
MatchOffer ==
    /\ pc = "match"
    /\ next <= Len(matching_offers)
    /\ amount_left >= matching_offers[next].base
    /\ take_offers' = Append(take_offers, matching_offers[next])
    /\ amount_left' = amount_left - matching_offers[next].base
    /\ next' = next + 1
    /\ UNCHANGED <<book, offers, made, pc, order, matching_offers>>

\* Mutant: the loop ends at the first offer that does not fit.
StopAtOffer ==
    /\ pc = "match"
    /\ next <= Len(matching_offers)
    /\ amount_left < matching_offers[next].base
    /\ next' = Len(matching_offers) + 1
    /\ UNCHANGED <<book, offers, made, pc, order, matching_offers, take_offers, amount_left>>

SkipOffer ==
    /\ pc = "match"
    /\ next <= Len(matching_offers)
    /\ amount_left < matching_offers[next].base
    /\ next' = next + 1
    /\ UNCHANGED <<book, offers, made, pc, order, matching_offers, take_offers, amount_left>>

\* match_limit returns.
Matched ==
    /\ pc = "match"
    /\ next > Len(matching_offers)
    /\ pc' = "take"
    /\ next' = 1
    /\ UNCHANGED <<book, offers, made, order, matching_offers, take_offers, amount_left>>

\* The loop of process_order: the entry becomes an offer of the node.
TakeOffer ==
    /\ pc = "take"
    /\ next <= Len(take_offers)
    /\ contains(take_offers[next].id)
    /\ offers' = offers \cup {take_offers[next].id}
    /\ remove_offer(take_offers[next].id)
    /\ next' = next + 1
    /\ UNCHANGED <<made, pc, order, matching_offers, take_offers, amount_left>>

\* The timer of the entry has fired and its timeout is still to be handled:
\* create_new_timeout raises, with the offer created and the entry in the book.
TakeRaises ==
    /\ pc = "take"
    /\ next <= Len(take_offers)
    /\ offers' = offers \cup {take_offers[next].id}
    /\ pc' = "raised"
    /\ UNCHANGED <<book, made, local>>

\* The local variables are gone.
Return ==
    /\ pc' = "idle"
    /\ order' = None /\ matching_offers' = <<>> /\ take_offers' = <<>>
    /\ amount_left' = 0 /\ next' = 1

\* Mutant: rounded up.
quote_amount_up(amount, x) ==
    LET y == product(float(amount), x) IN (y[1] + y[2] - 1) \div y[2]

\* int(amount_left * order.price), which makes a float of the amount.
quote_amount(amount, x) ==
    LET y == product(float(amount), x) IN y[1] \div y[2]

\* create_make_offer of what is left; its id is random, and of no concern here.
MakeOffer ==
    /\ pc = "take"
    /\ next > Len(take_offers)
    /\ amount_left > 0
    /\ made' = made \cup {[id |-> None, type |-> order.type, base |-> amount_left,
                           quote |-> quote_amount(amount_left, order_price(order))]}
    /\ Return
    /\ UNCHANGED <<book, offers>>

NothingLeft ==
    /\ pc = "take"
    /\ next > Len(take_offers)
    /\ amount_left = 0
    /\ Return
    /\ UNCHANGED <<book, offers, made>>

Next ==
    \/ \E f \in Published : OfferPublished(f) \/ PublishRaises(f)
    \/ \E id \in Ids : EntryTimeout(id)
    \/ \E r \in Orders : NewLimitOrder(r)
    \/ MatchOffer \/ SkipOffer \/ Matched
    \/ TakeOffer \/ TakeRaises \/ MakeOffer \/ NothingLeft

Spec == Init /\ [][Next]_vars

-----------------------------------------------------------------------------
(* What the book and the matching promise. *)

\* Every variable has its type.
TypeOK ==
    /\ offer_entries \in [Types -> SUBSET Published]
    /\ offer_entries_by_id \in [Types -> [Ids -> Published \cup {None}]]
    /\ offers \subseteq Ids
    /\ \A m \in made : m.type \in Types /\ m.base \in Nat \ {0} /\ m.quote \in Nat
    /\ pc \in {"idle", "match", "take", "raised"}
    /\ order \in Orders \cup {None}
    /\ pc = "idle" => order = None
    /\ pc \in {"match", "take"} => order # None
    /\ matching_offers \in Seq(Published)
    /\ take_offers \in Seq(Published)
    /\ amount_left \in Nat
    /\ next \in Nat \ {0}

\* The sorted view that matching reads and the dictionary that contains and remove_offer
\* read hold the same offers, each under its own type and id.
ViewsAgree ==
    /\ \A t \in Types, f \in Published :
          /\ f \in offer_entries[t] <=> offer_entries_by_id[t][f.id] = f
          /\ f \in offer_entries[t] => f.type = t
    /\ \A t \in Types, id \in Ids :
          offer_entries_by_id[t][id] # None => offer_entries_by_id[t][id].id = id

\* No entry of the book is an offer the node already takes: what was taken by an order
\* is never matched again, whether its node publishes it again or not.  The exception is
\* the entry at which an order was cut short by its timer.
BookExcludesOwn ==
    \A t \in Types : \A f \in offer_entries[t] :
        f.id \in offers => pc = "raised" /\ f = take_offers[next]

\* What an order is going to take is still in the book when process_order gets to it,
\* and no entry twice, so remove_offer does not raise.
TakesAreInBook ==
    pc = "take" =>
        /\ \A k \in next .. Len(take_offers) :
              take_offers[k] \in offer_entries[opposite(order.type)]
        /\ \A j, k \in 1 .. Len(take_offers) : take_offers[j].id = take_offers[k].id => j = k

\* An order takes offers of the other type whose floats are equal to its price, never for more than
\* its amount.
TakesAtPrice ==
    pc \in {"match", "take"} =>
        /\ amount_left <= order.amount
        /\ \A k \in DOMAIN take_offers : /\ take_offers[k].type = opposite(order.type)
                                         /\ Equal(price(take_offers[k]), order_price(order))

\* No matching offer that would fit into what is left of the order is left in the book.
Skipped == In(matching_offers) \ In(take_offers)
NothingFits == pc = "take" => \A f \in Skipped : f.base > amount_left

\* What an order takes and what it leaves for an offer of its own make up its amount.
Total(S) == SumFunctionOnSet([f \in Published |-> f.base], S)
AmountConserved == pc = "take" => Total(In(take_offers)) + amount_left = order.amount

\* Larger offers come first: one that is passed over does not fit beside the taken offers
\* that are at least as large, so smaller offers never displace it.
LargestFirst ==
    pc = "take" =>
        \A f \in Skipped :
            f.base + Total({g \in In(take_offers) : g.base >= f.base}) > order.amount

\* What an order takes and what it offers of its own together are the amount of the order
\* at the price that was asked for, but for less than one unit that int() cuts off and for the
\* rounding of floats, which is relative to the whole.  Neither adds up over the offers: an
\* offer taken is off by four roundings (its two amounts, its price, the price of the order),
\* however many there are, and only the last one is cut off.
QuoteTotal(S) == SumFunctionOnSet([f \in Published |-> f.quote], S)
lower == (2 * Least - 1) * (2 * Least - 1)
upper == (2 * Least + 1) * (2 * Least + 1)
RestWithinRounding ==
    [][ pc = "take" /\ pc' = "idle" /\ amount_left > 0 =>
          \E m \in made' :
              LET total == QuoteTotal(In(take_offers)) + m.quote
                  priced == order.amount * order.price[1] IN
              /\ m.type = order.type /\ m.base = amount_left
              /\ lower * (total * order.price[2]) <= upper * priced
              /\ lower * priced < upper * ((total + 1) * order.price[2]) ]_vars

\* The two nodes of an exchange hold copies of the offer, one made, one read from the
\* message, and each works out its payment from its copy and its role.  The maker pays what
\* its message bids, the taker what it asks, for every offer this node makes or takes.
Exchanged == made \cup {f \in Published : f.id \in offers}
PaymentsComplement ==
    \A f \in Exchanged : /\ sends("MAKER", f) = offer_msg(f).bid
                          /\ sends("TAKER", entry_from(offer_msg(f))) = offer_msg(f).ask
=============================================================================
