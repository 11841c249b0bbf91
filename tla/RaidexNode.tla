----------------------------- MODULE RaidexNode -----------------------------
(***************************************************************************)
(* One raidEX node (raidex/raidex_node): its offers, orders, matches and   *)
(* timers, which one greenlet changes by handling state changes in order,  *)
(* and the four consumers of the events it dispatches: the client of the   *)
(* commitment service, the trader, the transport and the Raiden listener.  *)
(*                                                                         *)
(* A handler does not yield, so it is one action.  An exception ends the   *)
(* consumer it is raised in; consumers is the set of those still running.  *)
(* What a dead consumer would have read is not kept.                       *)
(*                                                                         *)
(* Outside: the user of the API, the commitment service, which proves a    *)
(* commitment only when it has message and deposit (ProofBacked of the     *)
(* module CommitmentService), the other nodes, which may send anything,    *)
(* and Raiden, which lists payments from anyone.                           *)
(***************************************************************************)
EXTENDS Naturals, Sequences, FiniteSets

CONSTANTS
    OwnIds,     \* offer ids this node draws; bound: an order that needs one more waits
    RemoteIds,  \* offer ids of the other nodes
    Peers,      \* the other nodes
    CS,         \* address of the commitment service
    OrderIds,   \* ids of the limit orders, one order each
    Faults,     \* which requests may raise in a consumer: "send", "channel"
    None        \* Python's None

ASSUME IdsAssumption == OwnIds \cap RemoteIds = {}
ASSUME RemoteIdsAssumption == IsFiniteSet(RemoteIds)
ASSUME AddressAssumption == CS \notin Peers /\ None \notin Peers \cup {CS}

Ids == OwnIds \cup RemoteIds

VARIABLES
    offers,            \* OfferManager.offers: id -> state of the offer
    proofs,            \* ids of the offers that have a proof (Offer.proof)
    orders,            \* DataManager.orders: id -> its offers, in order
    matches,           \* DataManager.matches: id -> target of the match
    offer_book,        \* id -> initiator of the entry in the book
    timers,            \* TimeoutHandler.timeout_greenlets
    consumers,         \* the consumers that are still running
    state_changes,     \* queue of the node
    cs_events,         \* queue of CommitmentServiceClient
    trader_events,     \* queue of TraderClient
    transport_events,  \* queue of Transport
    listener_events,   \* queue of RaidenListener
    event_filters,     \* RaidenListener.event_filters
    taker_listeners,   \* offers with a greenlet in wait_for_taker
    raiden_events,     \* payments the poll has seen, as <<initiator, identifier>>
    transfers,         \* payments this node has started, with their multiplicity
    sent,              \* messages the transport has sent
    asked,             \* orders the user has placed
    heard              \* what came from outside once: <<kind, offer id>>

node == <<offers, proofs, orders, matches, offer_book, timers>>
outside == <<raiden_events, transfers, sent, asked, heard>>
vars == <<offers, proofs, orders, matches, offer_book, timers, consumers, state_changes,
          cs_events, trader_events, transport_events, listener_events, event_filters,
          taker_listeners, raiden_events, transfers, sent, asked, heard>>

-----------------------------------------------------------------------------
(* Data. *)

\* The states of an offer; status is the name of the parent state.
Waiting == {"unproved", "proved", "published"}
Open == Waiting \cup {"created", "cancellation_requested"}
Pending == {"exchanging", "wait_for_refund"}
OfferStates == Open \cup Pending \cup {"canceled", "completed"}

\* The consumers an exception can end; the other two call nothing that raises.
AllConsumers == {"node", "trader", "transport"}

\* State changes.
NewLimitOrder(x) == [type |-> "NewLimitOrder", order |-> x]
CancelLimitOrder(x) == [type |-> "CancelLimitOrder", order |-> x]
OfferTimeout(o) == [type |-> "OfferTimeout", offer |-> o]
OfferPublished(o, from) == [type |-> "OfferPublished", offer |-> o, initiator |-> from]
CommitmentProof(o) == [type |-> "CommitmentProof", offer |-> o]
CancellationProof(o) == [type |-> "CancellationProof", offer |-> o]
TakerCall(o, from) == [type |-> "TakerCall", offer |-> o, initiator |-> from]
TransferReceived(key) == [type |-> "TransferReceived", offer |-> key[2], initiator |-> key[1]]
MakeChannel == [type |-> "MakeChannel"]

\* Events for the client of the commitment service: <<kind, offer id>>.
CsEvents == {"Commit", "CommitmentProved", "ReceivedInbound", "CancellationRequest"} \X Ids

\* Transfers the trader is told to make.
Deposit(o) == [kind |-> "deposit", offer |-> o, target |-> CS]
SwapInit(o, target) == [kind |-> "swap", offer |-> o, target |-> target]
OpenChannel == [kind |-> "channel"]
Transfers == [kind : {"deposit"}, offer : Ids, target : {CS}]
             \cup [kind : {"swap"}, offer : Ids, target : Peers]

\* Messages for the transport.
Message(type, o, target) == [type |-> type, offer |-> o, target |-> target]

\* Events for the Raiden listener.
ExpectInbound(initiator, o) == [type |-> "ExpectInbound", key |-> <<initiator, o>>]
PaymentReceived(key) == [type |-> "PaymentReceived", key |-> key]

Keys == (Peers \cup {CS}) \X Ids

-----------------------------------------------------------------------------
Init ==
    /\ offers = [o \in Ids |-> "absent"]
    /\ proofs = {}
    /\ orders = [x \in OrderIds |-> <<>>]
    /\ matches = [o \in Ids |-> None]
    /\ offer_book = [o \in RemoteIds |-> None]
    /\ timers = [o \in Ids |-> "none"]
    /\ consumers = AllConsumers
    /\ state_changes = <<>>
    /\ cs_events = <<>>
    /\ trader_events = <<>>
    /\ transport_events = <<>>
    /\ listener_events = <<>>
    /\ event_filters = {}
    /\ taker_listeners = {}
    /\ raiden_events = {}
    /\ transfers = [t \in Transfers |-> 0]
    /\ sent = {}
    /\ asked = {}
    /\ heard = {}

-----------------------------------------------------------------------------
(* What reaches the queue of the node from outside its consumers. *)

\* What the API reports of an order: LimitOrder.open, amount_traded (as the offers it adds
\* up) and canceled.
In(s) == {s[i] : i \in DOMAIN s}
open(x) == \E o \in In(orders[x]) : offers[o] \in Open
traded(x) == {o \in In(orders[x]) : offers[o] = "completed"}
canceled(x) == \E o \in In(orders[x]) : offers[o] = "canceled"

\* dispatch_state_changes.
Dispatch(sc) ==
    state_changes' = IF "node" \in consumers THEN Append(state_changes, sc) ELSE state_changes

\* on_api_call: the state change of the call is dispatched.
on_api_call(sc) == Dispatch(sc)

\* LimitOrders.post: an order whose type, amount and price are valid.
PlaceOrder(x) ==
    /\ x \notin asked
    /\ asked' = asked \cup {x}
    /\ on_api_call(NewLimitOrder(x))
    /\ UNCHANGED <<node, consumers, cs_events, trader_events, transport_events, listener_events,
                   event_filters, taker_listeners, raiden_events, transfers, sent, heard>>

\* LimitOrders.delete: only for an order that is open at that moment.
RequestCancel(x) ==
    /\ open(x)
    /\ \A i \in DOMAIN state_changes : state_changes[i] # CancelLimitOrder(x)
    /\ "node" \in consumers
    /\ on_api_call(CancelLimitOrder(x))
    /\ UNCHANGED <<node, consumers, cs_events, trader_events, transport_events, listener_events,
                   event_filters, taker_listeners, outside>>

\* Channels.post.
RequestChannel ==
    /\ "channel" \in Faults
    /\ <<"channel", None>> \notin heard
    /\ heard' = heard \cup {<<"channel", None>>}
    /\ on_api_call(MakeChannel)
    /\ UNCHANGED <<node, consumers, cs_events, trader_events, transport_events, listener_events,
                   event_filters, taker_listeners, raiden_events, transfers, sent, asked>>

\* The greenlet of future_timeout wakes up and is dead from then on.
TimerFires(o) ==
    /\ timers[o] = "running"
    /\ timers' = [timers EXCEPT ![o] = "dead"]
    /\ Dispatch(OfferTimeout(o))
    /\ UNCHANGED <<offers, proofs, orders, matches, offer_book, consumers, cs_events, trader_events,
                   transport_events, listener_events, event_filters, taker_listeners, outside>>

\* Something comes in from another process, once for an offer.
Hear(kind, o, sc) ==
    /\ <<kind, o>> \notin heard
    /\ heard' = heard \cup {<<kind, o>>}
    /\ Dispatch(sc)
    /\ UNCHANGED <<node, consumers, cs_events, trader_events, transport_events, listener_events,
                   event_filters, taker_listeners, raiden_events, transfers, sent, asked>>

\* OfferBookTask: a ProvenOffer on the broadcast, of another node or the node's own.
HearOffer(o, from) == Hear("offer", o, OfferPublished(o, from))
HearOwnOffer(o) ==
    /\ Message("ProvenOffer", o, "broadcast") \in sent
    /\ Hear("offer", o, OfferPublished(o, None))

\* CommitmentProofTask: the service proves a commitment it has message and deposit of,
\* and may later tell that the offer was cancelled.
HearCommitmentProof(o) ==
    /\ Message("Commitment", o, CS) \in sent
    /\ transfers[Deposit(o)] > 0
    /\ Hear("proof", o, CommitmentProof(o))
HearCancellationProof(o) ==
    /\ <<"proof", o>> \in heard
    /\ Hear("cancellation", o, CancellationProof(o))

\* wait_for_taker: the first ProvenOffer another node sends for the offer ends the wait.
\* Without the listener such a message is lost.
HearTaker(o, from) ==
    /\ o \in taker_listeners
    /\ taker_listeners' = taker_listeners \ {o}
    /\ Dispatch(TakerCall(o, from))
    /\ UNCHANGED <<node, consumers, cs_events, trader_events, transport_events, listener_events,
                   event_filters, outside>>

\* raiden_poll: a payment that is new by initiator and identifier goes to the listener.
PollPayment(key) ==
    /\ key \notin raiden_events
    /\ raiden_events' = raiden_events \cup {key}
    /\ listener_events' = Append(listener_events, PaymentReceived(key))
    /\ UNCHANGED <<node, consumers, state_changes, cs_events, trader_events, transport_events,
                   event_filters, taker_listeners, transfers, sent, asked, heard>>

-----------------------------------------------------------------------------
(* handle_state_change: the node takes the first state change of its queue. *)

Handling(type) ==
    /\ "node" \in consumers
    /\ state_changes # <<>>
    /\ Head(state_changes).type = type
sc == Head(state_changes)

Done == /\ state_changes' = Tail(state_changes)
        /\ UNCHANGED <<consumers, event_filters, taker_listeners, outside>>

\* An exception leaves the handler.
Raise == /\ consumers' = consumers \ {"node"}
         /\ state_changes' = <<>>
         /\ UNCHANGED <<event_filters, taker_listeners, outside>>

NoEvents == UNCHANGED <<cs_events, trader_events, transport_events, listener_events>>
CsEvent(kind, o) ==
    /\ cs_events' = Append(cs_events, <<kind, o>>)
    /\ UNCHANGED <<trader_events, transport_events, listener_events>>

\* Mutant: the payment is expected from the commitment service.
ExchangeExpectsCS(o, target) ==
    /\ trader_events' = Append(trader_events, SwapInit(o, target))
    /\ listener_events' = Append(listener_events, ExpectInbound(CS, o))

\* Match.matched, on_enter_exchanging: pay, and expect to be paid.
Exchange(o, target) ==
    /\ trader_events' = Append(trader_events, SwapInit(o, target))
    /\ listener_events' = Append(listener_events, ExpectInbound(target, o))

\* The offers of the book that an order takes, in the order of match_limit: prices and
\* amounts are not part of this module, so any of them may match.
Takes ==
    {s \in UNION {[1 .. n -> RemoteIds] : n \in 0 .. Cardinality(RemoteIds)} :
        /\ \A i, j \in DOMAIN s : s[i] = s[j] => i = j
        /\ \A i \in DOMAIN s : offer_book[s[i]] # None}
\* The offer made of what is left of the order, if anything is.
Makes == {<<>>} \cup {<<o>> : o \in {id \in OwnIds : offers[id] = "absent"}}

Commits(s) == [i \in DOMAIN s |-> <<"Commit", s[i]>>]

\* Mutant: the entry stays in the book.
InitiateKeepsEntry(x, take, make) ==
    LET all == take \o make IN
    /\ orders' = [orders EXCEPT ![x] = all]
    /\ matches' = [o \in Ids |-> IF o \in In(take) THEN offer_book[o] ELSE matches[o]]
    /\ timers' = [o \in Ids |-> IF o \in In(all) THEN "running" ELSE timers[o]]
    /\ cs_events' = cs_events \o Commits(all)
    /\ UNCHANGED <<proofs, offer_book, trader_events, transport_events, listener_events>>

\* Mutant: the old timer is cleaned up after the new one was stored.
InitiateLosesTimer(x, take, make) ==
    LET all == take \o make IN
    /\ orders' = [orders EXCEPT ![x] = all]
    /\ matches' = [o \in Ids |-> IF o \in In(take) THEN offer_book[o] ELSE matches[o]]
    /\ offer_book' = [o \in RemoteIds |-> IF o \in In(take) THEN None ELSE offer_book[o]]
    /\ timers' = [o \in Ids |-> IF o \in In(make) THEN "running"
                                ELSE IF o \in In(take) THEN "none" ELSE timers[o]]
    /\ cs_events' = cs_events \o Commits(all)
    /\ UNCHANGED <<proofs, trader_events, transport_events, listener_events>>

\* Mutant: a taker pays when the match is made, before its commitment is proved.
InitiatePays(x, take, make) ==
    LET all == take \o make IN
    /\ orders' = [orders EXCEPT ![x] = all]
    /\ matches' = [o \in Ids |-> IF o \in In(take) THEN offer_book[o] ELSE matches[o]]
    /\ offer_book' = [o \in RemoteIds |-> IF o \in In(take) THEN None ELSE offer_book[o]]
    /\ timers' = [o \in Ids |-> IF o \in In(all) THEN "running" ELSE timers[o]]
    /\ cs_events' = cs_events \o Commits(all)
    /\ trader_events' = trader_events
                        \o [i \in DOMAIN take |-> SwapInit(take[i], offer_book[take[i]])]
    /\ UNCHANGED <<proofs, transport_events, listener_events>>

\* DataManager.process_order up to the offers in take and make: each gets a timer in
\* place of the one of the book entry, a match if it is taken, and is initiated.
Initiate(x, take, make) ==
    LET all == take \o make IN
    /\ orders' = [orders EXCEPT ![x] = all]
    /\ matches' = [o \in Ids |-> IF o \in In(take) THEN offer_book[o] ELSE matches[o]]
    /\ offer_book' = [o \in RemoteIds |-> IF o \in In(take) THEN None ELSE offer_book[o]]
    /\ timers' = [o \in Ids |-> IF o \in In(all) THEN "running" ELSE timers[o]]
    /\ cs_events' = cs_events \o Commits(all)
    /\ UNCHANGED <<proofs, trader_events, transport_events, listener_events>>

HandleNewLimitOrder ==
    /\ Handling("NewLimitOrder")
    /\ \E take \in Takes, make \in Makes :
        /\ take \o make # <<>>
        /\ \A o \in In(take) : timers[o] # "dead"
        /\ Initiate(sc.order, take, make)
        /\ offers' = [o \in Ids |-> IF o \in In(take \o make) THEN "unproved" ELSE offers[o]]
    /\ Done

\* create_new_timeout raises AlreadyTimedOutException when the timer of the entry has
\* fired and OfferTimeout still waits behind the order.  The offer is created by then,
\* the ones before it are initiated.
HandleNewLimitOrderRaises ==
    /\ Handling("NewLimitOrder")
    /\ \E take \in Takes, o \in RemoteIds :
        /\ offer_book[o] # None /\ timers[o] = "dead"
        /\ o \notin In(take)
        /\ \A p \in In(take) : timers[p] # "dead"
        /\ Initiate(sc.order, take, <<>>)
        /\ offers' = [p \in Ids |-> CASE p \in In(take) -> "unproved"
                                      [] p = o -> "created"
                                      [] OTHER -> offers[p]]
    /\ Raise

\* DataManager.cancel_order: the first open offer times out, and clean_up_timeout(offer)
\* raises TypeError, because an Offer cannot be hashed.
HandleCancelLimitOrder ==
    /\ Handling("CancelLimitOrder")
    /\ LET own == orders[sc.order] IN
       \E i \in DOMAIN own :
          /\ offers[own[i]] \in Open
          /\ \A j \in 1 .. i - 1 : offers[own[j]] \notin Open
          /\ offers' = [offers EXCEPT ![own[i]] = "cancellation_requested"]
          /\ CsEvent("CancellationRequest", own[i])
    /\ UNCHANGED <<proofs, orders, matches, offer_book, timers>>
    /\ Raise

\* Nothing is open any more.
HandleCancelClosedOrder ==
    /\ Handling("CancelLimitOrder")
    /\ \A i \in DOMAIN orders[sc.order] : offers[orders[sc.order][i]] \notin Open
    /\ UNCHANGED node /\ NoEvents
    /\ Done

\* Mutant: pending offers time out as well.
HandleAnyTimeout ==
    /\ Handling("OfferTimeout")
    /\ offers[sc.offer] \in Open \cup Pending
    /\ offers' = [offers EXCEPT ![sc.offer] = "cancellation_requested"]
    /\ timers' = [timers EXCEPT ![sc.offer] = "none"]
    /\ CsEvent("CancellationRequest", sc.offer)
    /\ UNCHANGED <<proofs, orders, matches, offer_book>>
    /\ Done

\* handle_offer_timeout, an offer of this node.
HandleOfferTimeout ==
    /\ Handling("OfferTimeout")
    /\ offers[sc.offer] \in Open
    /\ offers' = [offers EXCEPT ![sc.offer] = "cancellation_requested"]
    /\ timers' = [timers EXCEPT ![sc.offer] = "none"]
    /\ CsEvent("CancellationRequest", sc.offer)
    /\ UNCHANGED <<proofs, orders, matches, offer_book>>
    /\ Done

\* The timer was not stopped when the offer was matched or cancelled: timeout is no
\* trigger of these states, MachineError.
HandleOfferTimeoutRaises ==
    /\ Handling("OfferTimeout")
    /\ offers[sc.offer] \in OfferStates \ Open
    /\ UNCHANGED node /\ NoEvents
    /\ Raise

\* An entry of the book is removed.
HandleEntryTimeout ==
    /\ Handling("OfferTimeout")
    /\ offers[sc.offer] = "absent"
    /\ offer_book' = [offer_book EXCEPT ![sc.offer] = None]
    /\ timers' = [timers EXCEPT ![sc.offer] = "none"]
    /\ UNCHANGED <<offers, proofs, orders, matches>> /\ NoEvents
    /\ Done

\* handle_offer_published: the echo of the node's own offer.
HandleOwnOfferPublished ==
    /\ Handling("OfferPublished")
    /\ offers[sc.offer] = "proved"
    /\ offers' = [offers EXCEPT ![sc.offer] = "published"]
    /\ CsEvent("CommitmentProved", sc.offer)
    /\ UNCHANGED <<proofs, orders, matches, offer_book, timers>>
    /\ Done

\* The echo of an offer that has timed out in the meantime.
HandleOwnOfferPublishedRaises ==
    /\ Handling("OfferPublished")
    /\ offers[sc.offer] \notin {"absent", "proved"}
    /\ UNCHANGED node /\ NoEvents
    /\ Raise

\* An offer of another node: a new entry and its timer.
HandleOfferPublished ==
    /\ Handling("OfferPublished")
    /\ offers[sc.offer] = "absent"
    /\ offer_book' = [offer_book EXCEPT ![sc.offer] = sc.initiator]
    /\ timers' = [timers EXCEPT ![sc.offer] = "running"]
    /\ UNCHANGED <<offers, proofs, orders, matches>> /\ NoEvents
    /\ Done

\* Mutant: the timer is stopped when the offer is proved.
HandleMakerProofStopsTimer ==
    /\ Handling("CommitmentProof")
    /\ offers[sc.offer] = "unproved"
    /\ matches[sc.offer] = None
    /\ offers' = [offers EXCEPT ![sc.offer] = "proved"]
    /\ proofs' = proofs \cup {sc.offer}
    /\ timers' = [timers EXCEPT ![sc.offer] = "none"]
    /\ transport_events' = Append(transport_events, Message("ProvenOffer", sc.offer, "broadcast"))
    /\ UNCHANGED <<orders, matches, offer_book, cs_events, trader_events, listener_events>>
    /\ Done

\* handle_commitment_proof of an offer the node makes: publish it.
HandleMakerProof ==
    /\ Handling("CommitmentProof")
    /\ offers[sc.offer] = "unproved"
    /\ matches[sc.offer] = None
    /\ offers' = [offers EXCEPT ![sc.offer] = "proved"]
    /\ proofs' = proofs \cup {sc.offer}
    /\ transport_events' = Append(transport_events, Message("ProvenOffer", sc.offer, "broadcast"))
    /\ UNCHANGED <<orders, matches, offer_book, timers, cs_events, trader_events, listener_events>>
    /\ Done

\* handle_commitment_proof of an offer the node takes: it is matched already, so the
\* exchange starts and the maker is told.
HandleTakerProof ==
    /\ Handling("CommitmentProof")
    /\ offers[sc.offer] = "unproved"
    /\ matches[sc.offer] # None
    /\ offers' = [offers EXCEPT ![sc.offer] = "exchanging"]
    /\ proofs' = proofs \cup {sc.offer}
    /\ Exchange(sc.offer, matches[sc.offer])
    /\ transport_events' = Append(transport_events,
                                  Message("ProvenOffer", sc.offer, matches[sc.offer]))
    /\ UNCHANGED <<orders, matches, offer_book, timers, cs_events>>
    /\ Done

\* The proof comes after the offer's timeout.
HandleProofRaises ==
    /\ Handling("CommitmentProof")
    /\ offers[sc.offer] # "unproved"
    /\ UNCHANGED node /\ NoEvents
    /\ Raise

\* Mutant: the state is spelt as in the older machine of raidex_node/matching.
HandleCancellationProofMisspelt ==
    /\ Handling("CancellationProof")
    /\ offers[sc.offer] \in Open
    /\ offers' = [offers EXCEPT ![sc.offer] = "cancelled"]
    /\ UNCHANGED <<proofs, orders, matches, offer_book, timers>> /\ NoEvents
    /\ Done

\* handle_cancellation_proof; the timer runs on.
HandleCancellationProof ==
    /\ Handling("CancellationProof")
    /\ offers[sc.offer] \in Open
    /\ offers' = [offers EXCEPT ![sc.offer] = "canceled"]
    /\ UNCHANGED <<proofs, orders, matches, offer_book, timers>> /\ NoEvents
    /\ Done

HandleCancellationProofRaises ==
    /\ Handling("CancellationProof")
    /\ offers[sc.offer] \notin Open
    /\ UNCHANGED node /\ NoEvents
    /\ Raise

\* handle_taker_call: the maker is matched.
HandleTakerCall ==
    /\ Handling("TakerCall")
    /\ offers[sc.offer] \in {"proved", "published"}
    /\ offers' = [offers EXCEPT ![sc.offer] = "exchanging"]
    /\ matches' = [matches EXCEPT ![sc.offer] = sc.initiator]
    /\ Exchange(sc.offer, sc.initiator)
    /\ UNCHANGED <<proofs, orders, offer_book, timers, cs_events, transport_events>>
    /\ Done

\* The offer has timed out: the match is stored before found_match raises.
HandleTakerCallRaises ==
    /\ Handling("TakerCall")
    /\ offers[sc.offer] \notin {"proved", "published"}
    /\ matches' = [matches EXCEPT ![sc.offer] = sc.initiator]
    /\ UNCHANGED <<offers, proofs, orders, offer_book, timers>> /\ NoEvents
    /\ Raise

\* handle_transfer_received: the counterparty has paid.
HandleInbound ==
    /\ Handling("TransferReceived")
    /\ offers[sc.offer] = "exchanging"
    /\ offers' = [offers EXCEPT ![sc.offer] = "wait_for_refund"]
    /\ CsEvent("ReceivedInbound", sc.offer)
    /\ UNCHANGED <<proofs, orders, matches, offer_book, timers>>
    /\ Done

\* handle_transfer_received: the deposit has come back.
HandleRefund ==
    /\ Handling("TransferReceived")
    /\ offers[sc.offer] = "wait_for_refund"
    /\ offers' = [offers EXCEPT ![sc.offer] = "completed"]
    /\ timers' = [timers EXCEPT ![sc.offer] = "none"]
    /\ UNCHANGED <<proofs, orders, matches, offer_book>> /\ NoEvents
    /\ Done

\* handle_make_channel.
HandleMakeChannel ==
    /\ Handling("MakeChannel")
    /\ trader_events' = Append(trader_events, OpenChannel)
    /\ UNCHANGED <<node, cs_events, transport_events, listener_events>>
    /\ Done

-----------------------------------------------------------------------------
(* The consumers of events. *)

\* CommitmentServiceClient.commit: message and deposit leave by different consumers.
ClientCommit ==
    LET o == Head(cs_events)[2] IN
    /\ cs_events # <<>> /\ Head(cs_events)[1] = "Commit"
    /\ cs_events' = Tail(cs_events)
    /\ transport_events' = Append(transport_events, Message("Commitment", o, CS))
    /\ trader_events' = Append(trader_events, Deposit(o))
    /\ UNCHANGED <<node, consumers, state_changes, listener_events, event_filters,
                   taker_listeners, outside>>

\* wait_for_taker is spawned for a published offer.
ClientWaitForTaker ==
    /\ cs_events # <<>> /\ Head(cs_events)[1] = "CommitmentProved"
    /\ cs_events' = Tail(cs_events)
    /\ taker_listeners' = taker_listeners \cup {Head(cs_events)[2]}
    /\ UNCHANGED <<node, consumers, state_changes, trader_events, transport_events,
                   listener_events, event_filters, outside>>

\* received_inbound_from_swap: confirm, and expect the deposit back.
ClientReceivedInbound ==
    LET o == Head(cs_events)[2] IN
    /\ cs_events # <<>> /\ Head(cs_events)[1] = "ReceivedInbound"
    /\ cs_events' = Tail(cs_events)
    /\ transport_events' = Append(transport_events, Message("SwapExecution", o, CS))
    /\ listener_events' = Append(listener_events, ExpectInbound(CS, o))
    /\ UNCHANGED <<node, consumers, state_changes, trader_events, event_filters,
                   taker_listeners, outside>>

\* request_cancellation.
ClientCancellation ==
    /\ cs_events # <<>> /\ Head(cs_events)[1] = "CancellationRequest"
    /\ cs_events' = Tail(cs_events)
    /\ transport_events' = Append(transport_events,
                                  Message("Cancellation", Head(cs_events)[2], CS))
    /\ UNCHANGED <<node, consumers, state_changes, trader_events, listener_events,
                   event_filters, taker_listeners, outside>>

\* handle_swap_init and handle_transfer: the transfer runs in a greenlet of its own.
StartTransfer ==
    /\ "trader" \in consumers
    /\ trader_events # <<>> /\ Head(trader_events) # OpenChannel
    /\ trader_events' = Tail(trader_events)
    /\ transfers' = [transfers EXCEPT ![Head(trader_events)] = @ + 1]
    /\ UNCHANGED <<node, consumers, state_changes, cs_events, transport_events, listener_events,
                   event_filters, taker_listeners, raiden_events, sent, asked, heard>>

\* make_channel is called in the consumer itself; requests.put may raise there.
TraderMakeChannel ==
    /\ "trader" \in consumers
    /\ trader_events # <<>> /\ Head(trader_events) = OpenChannel
    /\ trader_events' = Tail(trader_events)
    /\ consumers' \in {consumers, consumers \ {"trader"}}
    /\ UNCHANGED <<node, state_changes, cs_events, transport_events, listener_events,
                   event_filters, taker_listeners, outside>>

TransportSend ==
    /\ "transport" \in consumers
    /\ transport_events # <<>>
    /\ transport_events' = Tail(transport_events)
    /\ sent' = sent \cup {Head(transport_events)}
    /\ UNCHANGED <<node, consumers, state_changes, cs_events, trader_events, listener_events,
                   event_filters, taker_listeners, raiden_events, transfers, asked, heard>>

TransportRaises ==
    /\ "send" \in Faults
    /\ "transport" \in consumers
    /\ transport_events # <<>>
    /\ transport_events' = Tail(transport_events)
    /\ consumers' = consumers \ {"transport"}
    /\ UNCHANGED <<node, state_changes, cs_events, trader_events, listener_events,
                   event_filters, taker_listeners, outside>>

\* add_event_filter.
ListenerExpect ==
    /\ listener_events # <<>> /\ Head(listener_events).type = "ExpectInbound"
    /\ listener_events' = Tail(listener_events)
    /\ event_filters' = event_filters \cup {Head(listener_events).key}
    /\ UNCHANGED <<node, consumers, state_changes, cs_events, trader_events, transport_events,
                   taker_listeners, outside>>

\* Mutant: the filter compares only the identifier.
AnyInitiator(f, key) == f[2] = key[2]

\* TransferReceivedFilter._filter: a payment is the expected one by initiator and
\* identifier.
Filter(f, key) == f[1] = key[1] /\ f[2] = key[2]

\* new_raiden_event: the filters that expect the payment are used up; a payment nobody
\* expects is dropped.
ListenerPayment ==
    LET key == Head(listener_events).key
        hits == {f \in event_filters : Filter(f, key)} IN
    /\ listener_events # <<>> /\ Head(listener_events).type = "PaymentReceived"
    /\ listener_events' = Tail(listener_events)
    /\ event_filters' = event_filters \ hits
    /\ IF hits # {} THEN Dispatch(TransferReceived(key)) ELSE UNCHANGED state_changes
    /\ UNCHANGED <<node, consumers, cs_events, trader_events, transport_events,
                   taker_listeners, outside>>

-----------------------------------------------------------------------------
HandleStateChange ==
    \/ HandleNewLimitOrder \/ HandleNewLimitOrderRaises
    \/ HandleCancelLimitOrder \/ HandleCancelClosedOrder
    \/ HandleOfferTimeout \/ HandleOfferTimeoutRaises \/ HandleEntryTimeout
    \/ HandleOwnOfferPublished \/ HandleOwnOfferPublishedRaises \/ HandleOfferPublished
    \/ HandleMakerProof \/ HandleTakerProof \/ HandleProofRaises
    \/ HandleCancellationProof \/ HandleCancellationProofRaises
    \/ HandleTakerCall \/ HandleTakerCallRaises
    \/ HandleInbound \/ HandleRefund
    \/ HandleMakeChannel

CsClient == ClientCommit \/ ClientWaitForTaker \/ ClientReceivedInbound \/ ClientCancellation
Trader == StartTransfer \/ TraderMakeChannel
Transport == TransportSend \/ TransportRaises
RaidenListener == ListenerExpect \/ ListenerPayment

Environment ==
    \/ \E x \in OrderIds : PlaceOrder(x) \/ RequestCancel(x)
    \/ RequestChannel
    \/ \E o \in RemoteIds, p \in Peers : HearOffer(o, p)
    \/ \E o \in OwnIds : HearOwnOffer(o) \/ \E p \in Peers : HearTaker(o, p)
    \/ \E o \in Ids : HearCommitmentProof(o) \/ HearCancellationProof(o)
    \/ \E key \in Keys : PollPayment(key)

Next ==
    \/ HandleStateChange \/ CsClient \/ Trader \/ Transport \/ RaidenListener
    \/ \E o \in Ids : TimerFires(o)
    \/ Environment

Spec == Init /\ [][Next]_vars

\* Every greenlet that can run does, and every timer fires.
Fairness ==
    /\ WF_vars(HandleStateChange) /\ WF_vars(CsClient) /\ WF_vars(Trader)
    /\ WF_vars(Transport) /\ WF_vars(RaidenListener)
    /\ \A o \in Ids : WF_vars(TimerFires(o))

FairSpec == Spec /\ Fairness

-----------------------------------------------------------------------------
(* What the node promises. *)

Alive == "node" \in consumers
Queued(queue, e) == \E i \in DOMAIN queue : queue[i] = e
Waits(queue, e) == Cardinality({i \in DOMAIN queue : queue[i] = e})

\* Every variable has its type.
TypeOK ==
    /\ offers \in [Ids -> OfferStates \cup {"absent"}]
    /\ proofs \subseteq Ids
    /\ \A x \in OrderIds : In(orders[x]) \subseteq Ids
    /\ matches \in [Ids -> Peers \cup {None}]
    /\ offer_book \in [RemoteIds -> Peers \cup {None}]
    /\ timers \in [Ids -> {"none", "running", "dead"}]
    /\ consumers \subseteq AllConsumers
    /\ In(cs_events) \subseteq CsEvents
    /\ In(trader_events) \subseteq Transfers \cup {OpenChannel}
    /\ event_filters \subseteq Keys
    /\ taker_listeners \subseteq OwnIds
    /\ raiden_events \subseteq Keys
    /\ transfers \in [Transfers -> Nat]

\* The node pays the deposit and the counterparty at most once for an offer, whatever
\* is repeated or late: initiating and found_match are dispatched once.
Started(t) == transfers[t] + Waits(trader_events, t)
PaysOnce ==
    \A o \in Ids :
        /\ Started(Deposit(o)) <= 1
        /\ Cardinality({p \in Peers : Started(SwapInit(o, p)) > 0}) <= 1
        /\ \A p \in Peers : Started(SwapInit(o, p)) <= 1

\* The node pays only the counterparty it is matched with, for an offer whose own
\* commitment the service has proved, and never for one it is cancelling.
PaysOnlyProved ==
    \A o \in Ids, p \in Peers :
        Started(SwapInit(o, p)) > 0 =>
            /\ o \in proofs /\ matches[o] = p
            /\ transfers[Deposit(o)] = 1
            /\ offers[o] \in Pending \cup {"completed"}

\* The node confirms the swap to the service only when the counterparty it is matched
\* with has paid, and takes an offer as completed only when its deposit is back, too.
Paid(o) == <<matches[o], o>> \in raiden_events
ConfirmsOnlyPaid ==
    \A o \in Ids :
        /\ \/ Message("SwapExecution", o, CS) \in sent
           \/ Queued(transport_events, Message("SwapExecution", o, CS))
           \/ offers[o] = "wait_for_refund"
           => Paid(o)
        /\ offers[o] = "completed" => Paid(o) /\ <<CS, o>> \in raiden_events

\* While the node waits for a payment that has not come, the listener expects it or is
\* about to: the payment will be noticed.
Expected(key) ==
    \/ key \in event_filters
    \/ Queued(listener_events, ExpectInbound(key[1], key[2]))
ExchangeIsWatched ==
    \A o \in Ids :
        /\ offers[o] = "exchanging" /\ ~ Paid(o) => Expected(<<matches[o], o>>)
        /\ offers[o] = "wait_for_refund" /\ <<CS, o>> \notin raiden_events =>
              Expected(<<CS, o>>) \/ Queued(cs_events, <<"ReceivedInbound", o>>)

\* An offer that waits for its proof or its match has a timer, or its timeout waits in
\* the queue; so has every entry of the book, which is no offer of the node's own.
TimesOut(o) == timers[o] = "running" \/ Queued(state_changes, OfferTimeout(o))
EverythingTimesOut ==
    Alive => /\ \A o \in Ids : offers[o] \in Waiting => TimesOut(o)
             /\ \A o \in RemoteIds : offer_book[o] # None => TimesOut(o) /\ offers[o] = "absent"

\* What the API reports of an order is final: an order that is not open any more is never
\* open again, what it has traded and what was cancelled of it stays so, and no two orders
\* have traded the same offer.
OrderStep ==
    \A x \in OrderIds :
        /\ orders[x] # <<>> /\ ~ open(x) => ~ open(x)'
        /\ traded(x) \subseteq traded(x)'
        /\ canceled(x) => canceled(x)'
        /\ \A y \in OrderIds \ {x} : traded(x)' \cap traded(y)' = {}

\* Every step of the node leaves what its orders have traded and cancelled final.
OrdersAreFinal == [][OrderStep]_vars

\* An offer does not wait for ever: it is matched or its cancellation is requested, as
\* long as the node handles state changes.
OffersResolve == \A o \in Ids : offers[o] \in Waiting ~> offers[o] \notin Waiting \/ ~ Alive

\* "acknowledging when payments have been received" (README.md): a payment of the
\* counterparty that the poll has seen is on its way to the offer that waits for it.
PaymentsNoticed ==
    Alive => \A o \in Ids :
        offers[o] = "exchanging" /\ Paid(o) =>
            \/ Queued(listener_events, PaymentReceived(<<matches[o], o>>))
            \/ Queued(state_changes, TransferReceived(<<matches[o], o>>))
=============================================================================
