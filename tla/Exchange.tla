------------------------------ MODULE Exchange ------------------------------
(***************************************************************************)
(* The whole system around one offer: a raidEX node that makes it, a       *)
(* raidEX node that takes it, the commitment service both deposit at, and  *)
(* what connects them.  The message broker carries the messages, Raiden    *)
(* the deposits, the two payments of the swap and the refunds.  Both may   *)
(* delay anything for ever; a message a process sent to another arrives at *)
(* most once, and those of the service in the order they were sent.        *)
(*                                                                         *)
(* Nodes and service are instances of RaidexNode and CommitmentService; an *)
(* action of this module is an action of one of them, with the input the   *)
(* others produced instead of an arbitrary one.  Both nodes run the code   *)
(* of this repository: nobody cheats.                                      *)
(***************************************************************************)
EXTENDS Naturals, Sequences

CONSTANTS
    Offer,        \* the offer id
    MakerNode,    \* address of the node that makes the offer
    TakerNode,    \* address of the node that takes it
    CS,           \* address of the commitment service
    Amount,       \* the deposit
    FeePercent,   \* fee_rate of the service, in percent
    None          \* Python's None

VARIABLES
    \* the commitment service
    swaps, deposits, events, refund_queue, in_flight, refunded, lost,
    message_queue, tasks, unread,
    \* the node that makes the offer
    m_offers, m_proofs, m_orders, m_matches, m_offer_book, m_timers, m_consumers,
    m_state_changes, m_cs_events, m_trader_events, m_transport_events, m_listener_events,
    m_event_filters, m_taker_listeners, m_raiden_events, m_transfers, m_sent, m_asked, m_heard,
    \* the node that takes it
    t_offers, t_proofs, t_orders, t_matches, t_offer_book, t_timers, t_consumers,
    t_state_changes, t_cs_events, t_trader_events, t_transport_events, t_listener_events,
    t_event_filters, t_taker_listeners, t_raiden_events, t_transfers, t_sent, t_asked, t_heard,
    \* the message broker
    topic,   \* node -> messages of the service on its topic that it has not read
    read     \* messages of the nodes that their recipient has read, with the sender

Nodes == {MakerNode, TakerNode}

ASSUME NodesAssumption ==
    MakerNode # TakerNode /\ CS \notin Nodes /\ None \notin Nodes \cup {CS}
ASSUME DepositAssumption == Amount \in Nat \ {0} /\ FeePercent \in 0 .. 100
ASSUME ReceiptAssumption == None \notin [initiator : Nodes, identifier : {Offer}]

Service == INSTANCE CommitmentService WITH
    OfferIds <- {Offer}, Addresses <- Nodes, Amounts <- {Amount}, MaxBacklog <- 9, Faults <- {}

Maker == INSTANCE RaidexNode WITH
    OwnIds <- {Offer}, RemoteIds <- {}, Peers <- {TakerNode}, OrderIds <- {MakerNode}, Faults <- {},
    offers <- m_offers, proofs <- m_proofs, orders <- m_orders, matches <- m_matches,
    offer_book <- m_offer_book, timers <- m_timers, consumers <- m_consumers,
    state_changes <- m_state_changes, cs_events <- m_cs_events,
    trader_events <- m_trader_events, transport_events <- m_transport_events,
    listener_events <- m_listener_events, event_filters <- m_event_filters,
    taker_listeners <- m_taker_listeners, raiden_events <- m_raiden_events,
    transfers <- m_transfers, sent <- m_sent, asked <- m_asked, heard <- m_heard

Taker == INSTANCE RaidexNode WITH
    OwnIds <- {}, RemoteIds <- {Offer}, Peers <- {MakerNode}, OrderIds <- {TakerNode}, Faults <- {},
    offers <- t_offers, proofs <- t_proofs, orders <- t_orders, matches <- t_matches,
    offer_book <- t_offer_book, timers <- t_timers, consumers <- t_consumers,
    state_changes <- t_state_changes, cs_events <- t_cs_events,
    trader_events <- t_trader_events, transport_events <- t_transport_events,
    listener_events <- t_listener_events, event_filters <- t_event_filters,
    taker_listeners <- t_taker_listeners, raiden_events <- t_raiden_events,
    transfers <- t_transfers, sent <- t_sent, asked <- t_asked, heard <- t_heard

serviceVars == <<swaps, deposits, events, refund_queue, in_flight, refunded, lost,
                 message_queue, tasks, unread>>
makerVars == <<m_offers, m_proofs, m_orders, m_matches, m_offer_book, m_timers, m_consumers,
               m_state_changes, m_cs_events, m_trader_events, m_transport_events,
               m_listener_events, m_event_filters, m_taker_listeners, m_raiden_events,
               m_transfers, m_sent, m_asked, m_heard>>
takerVars == <<t_offers, t_proofs, t_orders, t_matches, t_offer_book, t_timers, t_consumers,
               t_state_changes, t_cs_events, t_trader_events, t_transport_events,
               t_listener_events, t_event_filters, t_taker_listeners, t_raiden_events,
               t_transfers, t_sent, t_asked, t_heard>>
vars == <<serviceVars, makerVars, takerVars, topic, read>>

-----------------------------------------------------------------------------
Init ==
    /\ Service!Init
    /\ Maker!Init
    /\ Taker!Init
    /\ topic = [a \in Nodes |-> <<>>]
    /\ read = {}

\* The same fields of the two nodes.
Sent(a) == IF a = MakerNode THEN m_sent ELSE t_sent
TransfersOf(a) == IF a = MakerNode THEN m_transfers ELSE t_transfers
Deposit == Maker!Deposit(Offer)
PaymentTo(a) == Maker!SwapInit(Offer, a)
Receipt(a) == [initiator |-> a, identifier |-> Offer]

\* The messages of the nodes, and a message with the address its signature gives away.
Commitment == Maker!Message("Commitment", Offer, CS)
SwapExecution == Maker!Message("SwapExecution", Offer, CS)
Cancellation == Maker!Message("Cancellation", Offer, CS)
ProvenOffer(to) == Maker!Message("ProvenOffer", Offer, to)
Signed(message, sender) == [message |-> message, sender |-> sender]

-----------------------------------------------------------------------------
(* Steps inside one process. *)

\* The clients of the service and of Raiden only hand on what is in their queues, or
\* spawn a greenlet for it.
MakerHandsOn ==
    /\ Maker!CsClient \/ Maker!StartTransfer \/ Maker!RaidenListener
    /\ UNCHANGED <<serviceVars, takerVars, topic, read>>
TakerHandsOn ==
    /\ Taker!CsClient \/ Taker!StartTransfer \/ Taker!RaidenListener
    /\ UNCHANGED <<serviceVars, makerVars, topic, read>>

\* A reduction: these steps are taken before any other.  The scheduler does not promise that,
\* for a consumer whose queue holds several items handles them without a pause, but the steps
\* commute with those of the others: they never wait, and no other process sees what they
\* do, except that a transfer is under way from then on; when it arrives is open.
HandedOn ==
    /\ m_cs_events = <<>> /\ m_trader_events = <<>> /\ m_listener_events = <<>>
    /\ t_cs_events = <<>> /\ t_trader_events = <<>> /\ t_listener_events = <<>>

\* The other greenlets of the node, its timer and its user, who places one order.
MakerStep ==
    /\ \/ Maker!HandleStateChange \/ Maker!TransportSend \/ Maker!TimerFires(Offer)
       \/ Maker!PlaceOrder(MakerNode)
    /\ UNCHANGED <<serviceVars, takerVars, topic, read>>

\* The user of the taker places the order when the book has an entry to take.
TakerStep ==
    /\ \/ Taker!HandleStateChange \/ Taker!TransportSend \/ Taker!TimerFires(Offer)
       \/ t_offer_book[Offer] # None /\ Taker!PlaceOrder(TakerNode)
    /\ UNCHANGED <<serviceVars, makerVars, topic, read>>

\* The greenlets of the service that read nothing of the nodes, and its timer.
ServiceStep ==
    /\ Service!TransferReceivedTask \/ Service!RefundTask \/ Service!Timeout(Offer)
    /\ UNCHANGED <<makerVars, takerVars, topic, read>>

-----------------------------------------------------------------------------
(* Raiden. *)

\* A deposit a node has started reaches the service.
DepositArrives(a) ==
    /\ TransfersOf(a)[Deposit] > 0
    /\ Service!Pay(Receipt(a), Amount)
    /\ UNCHANGED <<makerVars, takerVars, topic, read>>

\* A payment to one of the nodes shows up in its poll: the other's payment of the swap,
\* or the refund of its deposit.
PaidTo(a, from) ==
    IF from = CS THEN \E claim_fee \in BOOLEAN :
                         refunded[[receipt |-> Receipt(a), claim_fee |-> claim_fee]] > 0
                 ELSE TransfersOf(from)[PaymentTo(a)] > 0
MakerIsPaid(from) ==
    /\ PaidTo(MakerNode, from)
    /\ Maker!PollPayment(<<from, Offer>>)
    /\ UNCHANGED <<serviceVars, takerVars, topic, read>>
TakerIsPaid(from) ==
    /\ PaidTo(TakerNode, from)
    /\ Taker!PollPayment(<<from, Offer>>)
    /\ UNCHANGED <<serviceVars, makerVars, topic, read>>

-----------------------------------------------------------------------------
(* The message broker. *)

\* The recipient reads a message for the first time.
Reads(message, sender) ==
    /\ message \in Sent(sender)
    /\ Signed(message, sender) \notin read
    /\ read' = read \cup {Signed(message, sender)}

\* CommitmentTask, SwapExecutionTask and CancellationRequestTask listen on the same topic.
ServiceReads(a) ==
    /\ \/ /\ Reads(Commitment, a)
          /\ \/ Service!MakerCommitment(a, Offer) \/ Service!TakerCommitment(a, Offer)
             \/ Service!UnexpectedCommitment(Offer)
       \/ /\ Reads(SwapExecution, a)
          /\ \/ Service!FirstExecution(a, Offer) \/ Service!SecondExecution(a, Offer)
             \/ Service!IgnoredExecution(a, Offer) \/ Service!UnreadExecution(a, Offer)
             \/ Service!UnexpectedExecution(Offer)
       \/ /\ Reads(Cancellation, a)
          /\ Service!Timeout(Offer) \/ Service!IgnoredCancellation(Offer)
    /\ UNCHANGED <<makerVars, takerVars, topic>>

\* MessageSenderTask: a message for a node goes to its topic; nobody reads OfferTaken
\* and SwapCompleted.
ServiceSends ==
    LET message == Head(message_queue) IN
    /\ Service!SendMessage
    /\ topic' = [a \in Nodes |-> IF message.recipient = a THEN Append(topic[a], message)
                                                         ELSE topic[a]]
    /\ UNCHANGED <<makerVars, takerVars, read>>

\* The first message on the topic of a node is of this type.
Delivers(a, type) ==
    /\ topic[a] # <<>> /\ Head(topic[a]).type = type
    /\ topic' = [topic EXCEPT ![a] = Tail(@)]

MakerReads ==
    /\ \/ /\ Delivers(MakerNode, "CommitmentProof")
          /\ Maker!Hear("proof", Offer, Maker!CommitmentProof(Offer))
          /\ UNCHANGED read
       \/ /\ Delivers(MakerNode, "CancellationProof")
          /\ Maker!Hear("cancellation", Offer, Maker!CancellationProof(Offer))
          /\ UNCHANGED read
       \/ /\ Maker!HearOwnOffer(Offer)
          /\ UNCHANGED <<topic, read>>
       \/ /\ Reads(ProvenOffer(MakerNode), TakerNode)
          /\ Maker!HearTaker(Offer, TakerNode)
          /\ UNCHANGED topic
    /\ UNCHANGED <<serviceVars, takerVars>>

TakerReads ==
    /\ \/ /\ Delivers(TakerNode, "CommitmentProof")
          /\ Taker!Hear("proof", Offer, Taker!CommitmentProof(Offer))
          /\ UNCHANGED read
       \/ /\ Delivers(TakerNode, "CancellationProof")
          /\ Taker!Hear("cancellation", Offer, Taker!CancellationProof(Offer))
          /\ UNCHANGED read
       \/ /\ ProvenOffer("broadcast") \in m_sent
          /\ Taker!HearOffer(Offer, MakerNode)
          /\ UNCHANGED <<topic, read>>
    /\ UNCHANGED <<serviceVars, makerVars>>

-----------------------------------------------------------------------------
Next ==
    \/ MakerHandsOn \/ TakerHandsOn
    \/ /\ HandedOn
       /\ \/ MakerStep \/ TakerStep \/ ServiceStep
          \/ \E a \in Nodes : DepositArrives(a) \/ ServiceReads(a)
          \/ \E from \in {TakerNode, CS} : MakerIsPaid(from)
          \/ \E from \in {MakerNode, CS} : TakerIsPaid(from)
          \/ ServiceSends \/ MakerReads \/ TakerReads

Spec == Init /\ [][Next]_vars

-----------------------------------------------------------------------------
(* What the system promises to two nodes that follow the protocol. *)

\* The service is what each node takes it for (the guards of HearCommitmentProof and
\* HearCancellationProof in RaidexNode): a proof comes
\* only for a commitment the node has sent and deposited for, a cancellation only after
\* a proof, whatever is delayed, refused, timed out or opened again by the service.
Fits(heard, sent, transfers) ==
    /\ <<"proof", Offer>> \in heard =>
          Commitment \in sent /\ transfers[Deposit] > 0
    /\ <<"cancellation", Offer>> \in heard => <<"proof", Offer>> \in heard
NodesFit == Fits(m_heard, m_sent, m_transfers) /\ Fits(t_heard, t_sent, t_transfers)

\* A fee is claimed only for an exchange that took place: each node has received the
\* payment of the other.  The service sees no payment of the swap; it has only the word
\* of the two nodes.
FeeMeansSwapped ==
    (\E a \in Nodes : Service!RefundsOf(Service!LessFee(Receipt(a))) > 0) =>
        <<TakerNode, Offer>> \in m_raiden_events /\ <<MakerNode, Offer>> \in t_raiden_events

\* The nodes agree on the match: a maker that pays, or waits for its refund, is matched
\* with a taker that has its proof and is in the exchange with this maker, too.
InExchange == Maker!Pending \cup {"completed"}
MatchedTogether ==
    m_offers[Offer] \in InExchange =>
        /\ m_matches[Offer] = TakerNode /\ t_matches[Offer] = MakerNode
        /\ t_offers[Offer] \in InExchange /\ Offer \in t_proofs

\* The nodes the service has given a proof to, delivered or not.
Proved ==
    {a \in Nodes :
        LET proof == Service!CommitmentProof(Offer, a)
            heard == IF a = MakerNode THEN m_heard ELSE t_heard IN
        \/ Maker!Queued(message_queue, proof) \/ Maker!Queued(topic[a], proof)
        \/ <<"proof", Offer>> \in heard}
HavePaid == {a \in Nodes : \E b \in Nodes \ {a} : TransfersOf(a)[PaymentTo(b)] > 0}

Abstract == INSTANCE SecuredExchange WITH
    TransferReceipt <- {Receipt(a) : a \in Nodes},
    fate <- [rc \in {Receipt(a) : a \in Nodes} |-> Service!FateOf(rc)],
    secured <- {Receipt(a) : a \in Proved},
    paid <- {Receipt(a) : a \in HavePaid}

\* Two nodes and the service together are a secured exchange: a node pays only after its
\* own deposit was accepted, and the deposits are returned less the fee together, after
\* both have paid.
RefinesSecuredExchange == Abstract!Spec

\* "traders provide a security that they are intending to engage in an exchange"
\* (README.md), and the CommitmentProof "allows maker and taker to confirm each other's
\* commitment to the swap" (messages.py): a node does not pay another one whose deposit
\* the service has given back.
PaysAgainstSecurity ==
    \A a \in HavePaid : \A b \in Nodes \ {a} : Service!RefundsOf(Service!Full(Receipt(b))) = 0
=============================================================================
