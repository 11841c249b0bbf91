--------------------------- MODULE ExchangeProofs ---------------------------
(***************************************************************************)
(* Theorems about the whole system around one offer.  Its processes are    *)
(* instances of CommitmentService and RaidexNode; the theorems about those *)
(* modules are instantiated with them and used here.                       *)
(*                                                                         *)
(* RaidexNode lets a proof and a cancellation arrive only under the guards *)
(* of HearCommitmentProof and HearCancellationProof; in Exchange they      *)
(* arrive whenever the service has sent them.  That the guards hold then   *)
(* (NodesFit) makes every behaviour of the system a behaviour of each of   *)
(* its processes, so that their invariants hold in it, too.  The properties*)
(* of the system follow from those and from what the messages under way    *)
(* say of the process that sent them; and so does the refinement of        *)
(* SecuredExchange, on top of the service's refinement of DepositEscrow.   *)
(***************************************************************************)
EXTENDS Exchange, SequenceTheorems, TLAPS

ServiceT == INSTANCE CommitmentServiceProofs WITH
    OfferIds <- {Offer}, Addresses <- Nodes, Amounts <- {Amount}, MaxBacklog <- 9, Faults <- {}

MakerT == INSTANCE RaidexNodeTheorems WITH
    OwnIds <- {Offer}, RemoteIds <- {}, Peers <- {TakerNode}, OrderIds <- {MakerNode}, Faults <- {},
    offers <- m_offers, proofs <- m_proofs, orders <- m_orders, matches <- m_matches,
    offer_book <- m_offer_book, timers <- m_timers, consumers <- m_consumers,
    state_changes <- m_state_changes, cs_events <- m_cs_events,
    trader_events <- m_trader_events, transport_events <- m_transport_events,
    listener_events <- m_listener_events, event_filters <- m_event_filters,
    taker_listeners <- m_taker_listeners, raiden_events <- m_raiden_events,
    transfers <- m_transfers, sent <- m_sent, asked <- m_asked, heard <- m_heard

TakerT == INSTANCE RaidexNodeTheorems WITH
    OwnIds <- {}, RemoteIds <- {Offer}, Peers <- {MakerNode}, OrderIds <- {TakerNode}, Faults <- {},
    offers <- t_offers, proofs <- t_proofs, orders <- t_orders, matches <- t_matches,
    offer_book <- t_offer_book, timers <- t_timers, consumers <- t_consumers,
    state_changes <- t_state_changes, cs_events <- t_cs_events,
    trader_events <- t_trader_events, transport_events <- t_transport_events,
    listener_events <- t_listener_events, event_filters <- t_event_filters,
    taker_listeners <- t_taker_listeners, raiden_events <- t_raiden_events,
    transfers <- t_transfers, sent <- t_sent, asked <- t_asked, heard <- t_heard

-----------------------------------------------------------------------------
(* The processes of the system are those the theorems are about.           *)

\* What the theorems assume of the constants.
LEMMA Assumptions ==
    /\ ServiceT!AmountsAssumption /\ ServiceT!FeeAssumption /\ ServiceT!BacklogAssumption
    /\ ServiceT!NoneAssumption /\ ServiceT!FiniteAssumption
    /\ MakerT!IdsAssumption /\ MakerT!RemoteIdsAssumption /\ MakerT!AddressAssumption
    /\ TakerT!IdsAssumption /\ TakerT!RemoteIdsAssumption /\ TakerT!AddressAssumption
<1>1. /\ ServiceT!AmountsAssumption /\ ServiceT!FeeAssumption /\ ServiceT!BacklogAssumption
      /\ ServiceT!NoneAssumption
  BY NodesAssumption, DepositAssumption, ReceiptAssumption
     DEF ServiceT!AmountsAssumption, ServiceT!FeeAssumption, ServiceT!BacklogAssumption,
         ServiceT!NoneAssumption, ServiceT!TransferReceipt
<1>2. MakerT!IsFiniteSet({})
  <2>1. <<>> \in Seq({}) /\ \A s \in {} : \E n \in 1 .. Len(<<>>) : <<>>[n] = s
    OBVIOUS
  <2> QED BY <2>1 DEF MakerT!IsFiniteSet
<1>3. TakerT!IsFiniteSet({Offer})
  <2>1. <<Offer>> \in Seq({Offer}) /\ \A s \in {Offer} : \E n \in 1 .. Len(<<Offer>>) : <<Offer>>[n] = s
    OBVIOUS
  <2> QED BY <2>1 DEF TakerT!IsFiniteSet
<1>4. MakerT!IdsAssumption /\ MakerT!RemoteIdsAssumption /\ MakerT!AddressAssumption
  BY <1>2, NodesAssumption DEF Nodes, MakerT!IdsAssumption, MakerT!RemoteIdsAssumption,
     MakerT!AddressAssumption
<1>5. TakerT!IdsAssumption /\ TakerT!RemoteIdsAssumption /\ TakerT!AddressAssumption
  BY <1>3, NodesAssumption DEF Nodes, TakerT!IdsAssumption, TakerT!RemoteIdsAssumption,
     TakerT!AddressAssumption
<1>6. ServiceT!FiniteAssumption
  <2>1. <<Offer>> \in Seq({Offer}) /\ \A s \in {Offer} : \E n \in 1 .. Len(<<Offer>>) : <<Offer>>[n] = s
    OBVIOUS
  <2> DEFINE q == <<MakerNode, TakerNode>>
  <2>2. q \in Seq(Nodes) /\ Len(q) = 2 /\ q[1] = MakerNode /\ q[2] = TakerNode
    BY DEF Nodes
  <2> HIDE DEF q
  <2>3. \A s \in Nodes : \E n \in 1 .. Len(q) : q[n] = s
    BY <2>2 DEF Nodes
  <2>4. ServiceT!IsFiniteSet({Offer}) /\ ServiceT!IsFiniteSet(Nodes)
    BY <2>1, <2>2, <2>3 DEF ServiceT!IsFiniteSet
  <2> QED BY <2>4 DEF ServiceT!FiniteAssumption
<1> QED BY <1>1, <1>4, <1>5, <1>6

\* The node that makes the offer is the node of the theorems: the same definitions under the same substitution.
LEMMA MakerIsNode ==
    /\ Maker!vars = MakerT!vars
    /\ Maker!Init => MakerT!Init
    /\ Maker!Next => MakerT!Next
<1>1. Maker!vars = MakerT!vars
  BY DEF Maker!vars, MakerT!vars
<1>2. Maker!Init => MakerT!Init
  BY Zenon DEF Maker!Init, MakerT!Init, Maker!Ids, MakerT!Ids, Maker!AllConsumers, MakerT!AllConsumers,
           Maker!Transfers, MakerT!Transfers
<1>3. Maker!Next => MakerT!Next
  BY Zenon
       DEF Maker!Ids, MakerT!Ids, Maker!node, MakerT!node, Maker!outside, MakerT!outside, Maker!Waiting,
           MakerT!Waiting, Maker!Open, MakerT!Open, Maker!Pending, MakerT!Pending,
           Maker!OfferStates, MakerT!OfferStates, Maker!AllConsumers, MakerT!AllConsumers,
           Maker!NewLimitOrder, MakerT!NewLimitOrder, Maker!CancelLimitOrder,
           MakerT!CancelLimitOrder, Maker!OfferTimeout, MakerT!OfferTimeout, Maker!OfferPublished,
           MakerT!OfferPublished, Maker!CommitmentProof, MakerT!CommitmentProof,
           Maker!CancellationProof, MakerT!CancellationProof, Maker!TakerCall, MakerT!TakerCall,
           Maker!TransferReceived, MakerT!TransferReceived, Maker!MakeChannel, MakerT!MakeChannel,
           Maker!CsEvents, MakerT!CsEvents, Maker!Deposit, MakerT!Deposit, Maker!SwapInit,
           MakerT!SwapInit, Maker!OpenChannel, MakerT!OpenChannel, Maker!Transfers,
           MakerT!Transfers, Maker!Message, MakerT!Message, Maker!ExpectInbound,
           MakerT!ExpectInbound, Maker!PaymentReceived, MakerT!PaymentReceived, Maker!Keys,
           MakerT!Keys, Maker!In, MakerT!In, Maker!open, MakerT!open, Maker!Dispatch,
           MakerT!Dispatch, Maker!on_api_call, MakerT!on_api_call, Maker!PlaceOrder,
           MakerT!PlaceOrder, Maker!RequestCancel, MakerT!RequestCancel, Maker!RequestChannel,
           MakerT!RequestChannel, Maker!TimerFires, MakerT!TimerFires, Maker!Hear, MakerT!Hear,
           Maker!HearOffer, MakerT!HearOffer, Maker!HearOwnOffer, MakerT!HearOwnOffer,
           Maker!HearCommitmentProof, MakerT!HearCommitmentProof, Maker!HearCancellationProof,
           MakerT!HearCancellationProof, Maker!HearTaker, MakerT!HearTaker, Maker!PollPayment,
           MakerT!PollPayment, Maker!Handling, MakerT!Handling, Maker!sc, MakerT!sc, Maker!Done,
           MakerT!Done, Maker!Raise, MakerT!Raise, Maker!NoEvents, MakerT!NoEvents, Maker!CsEvent,
           MakerT!CsEvent, Maker!Exchange, MakerT!Exchange, Maker!Takes, MakerT!Takes,
           Maker!Makes, MakerT!Makes, Maker!Commits, MakerT!Commits, Maker!Initiate,
           MakerT!Initiate, Maker!HandleNewLimitOrder, MakerT!HandleNewLimitOrder,
           Maker!HandleNewLimitOrderRaises, MakerT!HandleNewLimitOrderRaises,
           Maker!HandleCancelLimitOrder, MakerT!HandleCancelLimitOrder,
           Maker!HandleCancelClosedOrder, MakerT!HandleCancelClosedOrder,
           Maker!HandleOfferTimeout, MakerT!HandleOfferTimeout, Maker!HandleOfferTimeoutRaises,
           MakerT!HandleOfferTimeoutRaises, Maker!HandleEntryTimeout, MakerT!HandleEntryTimeout,
           Maker!HandleOwnOfferPublished, MakerT!HandleOwnOfferPublished,
           Maker!HandleOwnOfferPublishedRaises, MakerT!HandleOwnOfferPublishedRaises,
           Maker!HandleOfferPublished, MakerT!HandleOfferPublished, Maker!HandleMakerProof,
           MakerT!HandleMakerProof, Maker!HandleTakerProof, MakerT!HandleTakerProof,
           Maker!HandleProofRaises, MakerT!HandleProofRaises, Maker!HandleCancellationProof,
           MakerT!HandleCancellationProof, Maker!HandleCancellationProofRaises,
           MakerT!HandleCancellationProofRaises, Maker!HandleTakerCall, MakerT!HandleTakerCall,
           Maker!HandleTakerCallRaises, MakerT!HandleTakerCallRaises, Maker!HandleInbound,
           MakerT!HandleInbound, Maker!HandleRefund, MakerT!HandleRefund, Maker!HandleMakeChannel,
           MakerT!HandleMakeChannel, Maker!ClientCommit, MakerT!ClientCommit,
           Maker!ClientWaitForTaker, MakerT!ClientWaitForTaker, Maker!ClientReceivedInbound,
           MakerT!ClientReceivedInbound, Maker!ClientCancellation, MakerT!ClientCancellation,
           Maker!StartTransfer, MakerT!StartTransfer, Maker!TraderMakeChannel,
           MakerT!TraderMakeChannel, Maker!TransportSend, MakerT!TransportSend,
           Maker!TransportRaises, MakerT!TransportRaises, Maker!ListenerExpect,
           MakerT!ListenerExpect, Maker!Filter, MakerT!Filter, Maker!ListenerPayment,
           MakerT!ListenerPayment, Maker!HandleStateChange, MakerT!HandleStateChange,
           Maker!CsClient, MakerT!CsClient, Maker!Trader, MakerT!Trader, Maker!Transport,
           MakerT!Transport, Maker!RaidenListener, MakerT!RaidenListener, Maker!Environment,
           MakerT!Environment, Maker!Next, MakerT!Next, Maker!Cardinality, MakerT!Cardinality,
           Maker!IsFiniteSet, MakerT!IsFiniteSet
<1> QED BY <1>1, <1>2, <1>3


\* The node that takes the offer is the node of the theorems: the same definitions under the same substitution.
LEMMA TakerIsNode ==
    /\ Taker!vars = TakerT!vars
    /\ Taker!Init => TakerT!Init
    /\ Taker!Next => TakerT!Next
<1>1. Taker!vars = TakerT!vars
  BY DEF Taker!vars, TakerT!vars
<1>2. Taker!Init => TakerT!Init
  BY Zenon DEF Taker!Init, TakerT!Init, Taker!Ids, TakerT!Ids, Taker!AllConsumers, TakerT!AllConsumers,
           Taker!Transfers, TakerT!Transfers
<1>3. Taker!Next => TakerT!Next
  BY Zenon
       DEF Taker!Ids, TakerT!Ids, Taker!node, TakerT!node, Taker!outside, TakerT!outside, Taker!Waiting,
           TakerT!Waiting, Taker!Open, TakerT!Open, Taker!Pending, TakerT!Pending,
           Taker!OfferStates, TakerT!OfferStates, Taker!AllConsumers, TakerT!AllConsumers,
           Taker!NewLimitOrder, TakerT!NewLimitOrder, Taker!CancelLimitOrder,
           TakerT!CancelLimitOrder, Taker!OfferTimeout, TakerT!OfferTimeout, Taker!OfferPublished,
           TakerT!OfferPublished, Taker!CommitmentProof, TakerT!CommitmentProof,
           Taker!CancellationProof, TakerT!CancellationProof, Taker!TakerCall, TakerT!TakerCall,
           Taker!TransferReceived, TakerT!TransferReceived, Taker!MakeChannel, TakerT!MakeChannel,
           Taker!CsEvents, TakerT!CsEvents, Taker!Deposit, TakerT!Deposit, Taker!SwapInit,
           TakerT!SwapInit, Taker!OpenChannel, TakerT!OpenChannel, Taker!Transfers,
           TakerT!Transfers, Taker!Message, TakerT!Message, Taker!ExpectInbound,
           TakerT!ExpectInbound, Taker!PaymentReceived, TakerT!PaymentReceived, Taker!Keys,
           TakerT!Keys, Taker!In, TakerT!In, Taker!open, TakerT!open, Taker!Dispatch,
           TakerT!Dispatch, Taker!on_api_call, TakerT!on_api_call, Taker!PlaceOrder,
           TakerT!PlaceOrder, Taker!RequestCancel, TakerT!RequestCancel, Taker!RequestChannel,
           TakerT!RequestChannel, Taker!TimerFires, TakerT!TimerFires, Taker!Hear, TakerT!Hear,
           Taker!HearOffer, TakerT!HearOffer, Taker!HearOwnOffer, TakerT!HearOwnOffer,
           Taker!HearCommitmentProof, TakerT!HearCommitmentProof, Taker!HearCancellationProof,
           TakerT!HearCancellationProof, Taker!HearTaker, TakerT!HearTaker, Taker!PollPayment,
           TakerT!PollPayment, Taker!Handling, TakerT!Handling, Taker!sc, TakerT!sc, Taker!Done,
           TakerT!Done, Taker!Raise, TakerT!Raise, Taker!NoEvents, TakerT!NoEvents, Taker!CsEvent,
           TakerT!CsEvent, Taker!Exchange, TakerT!Exchange, Taker!Takes, TakerT!Takes,
           Taker!Makes, TakerT!Makes, Taker!Commits, TakerT!Commits, Taker!Initiate,
           TakerT!Initiate, Taker!HandleNewLimitOrder, TakerT!HandleNewLimitOrder,
           Taker!HandleNewLimitOrderRaises, TakerT!HandleNewLimitOrderRaises,
           Taker!HandleCancelLimitOrder, TakerT!HandleCancelLimitOrder,
           Taker!HandleCancelClosedOrder, TakerT!HandleCancelClosedOrder,
           Taker!HandleOfferTimeout, TakerT!HandleOfferTimeout, Taker!HandleOfferTimeoutRaises,
           TakerT!HandleOfferTimeoutRaises, Taker!HandleEntryTimeout, TakerT!HandleEntryTimeout,
           Taker!HandleOwnOfferPublished, TakerT!HandleOwnOfferPublished,
           Taker!HandleOwnOfferPublishedRaises, TakerT!HandleOwnOfferPublishedRaises,
           Taker!HandleOfferPublished, TakerT!HandleOfferPublished, Taker!HandleMakerProof,
           TakerT!HandleMakerProof, Taker!HandleTakerProof, TakerT!HandleTakerProof,
           Taker!HandleProofRaises, TakerT!HandleProofRaises, Taker!HandleCancellationProof,
           TakerT!HandleCancellationProof, Taker!HandleCancellationProofRaises,
           TakerT!HandleCancellationProofRaises, Taker!HandleTakerCall, TakerT!HandleTakerCall,
           Taker!HandleTakerCallRaises, TakerT!HandleTakerCallRaises, Taker!HandleInbound,
           TakerT!HandleInbound, Taker!HandleRefund, TakerT!HandleRefund, Taker!HandleMakeChannel,
           TakerT!HandleMakeChannel, Taker!ClientCommit, TakerT!ClientCommit,
           Taker!ClientWaitForTaker, TakerT!ClientWaitForTaker, Taker!ClientReceivedInbound,
           TakerT!ClientReceivedInbound, Taker!ClientCancellation, TakerT!ClientCancellation,
           Taker!StartTransfer, TakerT!StartTransfer, Taker!TraderMakeChannel,
           TakerT!TraderMakeChannel, Taker!TransportSend, TakerT!TransportSend,
           Taker!TransportRaises, TakerT!TransportRaises, Taker!ListenerExpect,
           TakerT!ListenerExpect, Taker!Filter, TakerT!Filter, Taker!ListenerPayment,
           TakerT!ListenerPayment, Taker!HandleStateChange, TakerT!HandleStateChange,
           Taker!CsClient, TakerT!CsClient, Taker!Trader, TakerT!Trader, Taker!Transport,
           TakerT!Transport, Taker!RaidenListener, TakerT!RaidenListener, Taker!Environment,
           TakerT!Environment, Taker!Next, TakerT!Next, Taker!Cardinality, TakerT!Cardinality,
           Taker!IsFiniteSet, TakerT!IsFiniteSet
<1> QED BY <1>1, <1>2, <1>3


\* So is the commitment service.
LEMMA ServiceIsService ==
    /\ Service!vars = ServiceT!vars
    /\ Service!Init => ServiceT!Init
    /\ Service!Next => ServiceT!Next
<1>1. Service!vars = ServiceT!vars
  BY DEF Service!vars, ServiceT!vars
<1>2. Service!Init => ServiceT!Init
  BY Zenon DEF Service!Init, ServiceT!Init, Service!Absent, ServiceT!Absent,
           Service!TransferReceipt, ServiceT!TransferReceipt, Service!Refund, ServiceT!Refund,
           Service!AllTasks, ServiceT!AllTasks
<1>3. Service!Next => ServiceT!Next
  <2>1. (\E rc \in Service!TransferReceipt, amount \in {Amount} : Service!Pay(rc, amount)) =>
          \E rc \in ServiceT!TransferReceipt, amount \in {Amount} : ServiceT!Pay(rc, amount)
    BY Zenon DEF Service!Pay, ServiceT!Pay, Service!TransferReceipt, ServiceT!TransferReceipt,
             Service!refunds, ServiceT!refunds
  <2>2. Service!CommitmentTask => ServiceT!CommitmentTask
    BY Zenon DEF Service!CommitmentTask, ServiceT!CommitmentTask, Service!MakerCommitment,
             ServiceT!MakerCommitment, Service!TakerCommitment, ServiceT!TakerCommitment,
             Service!UnexpectedCommitment, ServiceT!UnexpectedCommitment, Service!Absent,
             ServiceT!Absent, Service!LiveStates, ServiceT!LiveStates,
             Service!ExecutionStates, ServiceT!ExecutionStates, Service!refunds,
             ServiceT!refunds
  <2>3. Service!TransferReceivedTask => ServiceT!TransferReceivedTask
    BY Zenon DEF Service!TransferReceivedTask, ServiceT!TransferReceivedTask,
             Service!TransferReceipt, ServiceT!TransferReceipt, Service!MakerTransfer,
             ServiceT!MakerTransfer, Service!TakerTransfer, ServiceT!TakerTransfer,
             Service!UnsuccessfulTransfer, ServiceT!UnsuccessfulTransfer,
             Service!TransferWithoutSwap, ServiceT!TransferWithoutSwap, Service!DeliverOnce,
             ServiceT!DeliverOnce, Service!CommitmentProof, ServiceT!CommitmentProof,
             Service!OfferTaken, ServiceT!OfferTaken, Service!QueueRefund,
             ServiceT!QueueRefund, Service!ExecutionStates, ServiceT!ExecutionStates,
             Service!refunds, ServiceT!refunds
  <2>4. Service!SwapExecutionTask => ServiceT!SwapExecutionTask
    BY Zenon DEF Service!SwapExecutionTask, ServiceT!SwapExecutionTask,
             Service!FirstExecution, ServiceT!FirstExecution, Service!SecondExecution,
             ServiceT!SecondExecution, Service!IgnoredExecution, ServiceT!IgnoredExecution,
             Service!UnreadExecution, ServiceT!UnreadExecution, Service!UnexpectedExecution,
             ServiceT!UnexpectedExecution, Service!SwapCompleted, ServiceT!SwapCompleted,
             Service!QueueRefund, ServiceT!QueueRefund, Service!Absent, ServiceT!Absent,
             Service!ExecutionStates, ServiceT!ExecutionStates, Service!vars, ServiceT!vars,
             Service!refunds, ServiceT!refunds
  <2>5. \A o : Service!Timeout(o) \/ Service!IgnoredCancellation(o) =>
                ServiceT!Timeout(o) \/ ServiceT!IgnoredCancellation(o)
    BY Zenon DEF Service!Timeout, ServiceT!Timeout, Service!IgnoredCancellation,
             ServiceT!IgnoredCancellation, Service!TimeoutUncommitted,
             ServiceT!TimeoutUncommitted, Service!TimeoutUntraded, ServiceT!TimeoutUntraded,
             Service!TimeoutFailed, ServiceT!TimeoutFailed, Service!Absent, ServiceT!Absent,
             Service!ExecutionStates, ServiceT!ExecutionStates, Service!QueueRefund,
             ServiceT!QueueRefund, Service!CancellationProof, ServiceT!CancellationProof,
             Service!vars, ServiceT!vars, Service!refunds, ServiceT!refunds
  <2>6. Service!RefundTask => ServiceT!RefundTask
    BY Zenon DEF Service!RefundTask, ServiceT!RefundTask, Service!Refund, ServiceT!Refund,
             Service!TransferReceipt, ServiceT!TransferReceipt, Service!StartRefund,
             ServiceT!StartRefund, Service!RefundSucceeds, ServiceT!RefundSucceeds,
             Service!RefundFails, ServiceT!RefundFails, Service!RefundRaises,
             ServiceT!RefundRaises
  <2>7. Service!PollRaises \/ Service!MessageSenderTask => ServiceT!PollRaises \/ ServiceT!MessageSenderTask
    BY Zenon DEF Service!PollRaises, ServiceT!PollRaises, Service!MessageSenderTask,
             ServiceT!MessageSenderTask, Service!SendMessage, ServiceT!SendMessage,
             Service!SendRaises, ServiceT!SendRaises, Service!refunds, ServiceT!refunds
  <2> QED BY <2>1, <2>2, <2>3, <2>4, <2>5, <2>6, <2>7 DEF Service!Next, ServiceT!Next
<1> QED BY <1>1, <1>2, <1>3

-----------------------------------------------------------------------------
(* Queues of messages.                                                     *)

Items(q) == {q[i] : i \in DOMAIN q}

\* No c is in the queue before a p.
Follows(q, p, c) == \A i \in DOMAIN q : q[i] = c => \E j \in 1 .. i - 1 : q[j] = p

\* What appending a message does to the messages of a queue and their order.
LEMMA Appended ==
    ASSUME NEW S, NEW q \in Seq(S), NEW e \in S
    PROVE  /\ Append(q, e) \in Seq(S)
           /\ Items(Append(q, e)) = Items(q) \cup {e}
           /\ \A p, c : Follows(q, p, c) /\ (e # c \/ p \in Items(q)) => Follows(Append(q, e), p, c)
<1>1. /\ Append(q, e) \in Seq(S) /\ DOMAIN Append(q, e) = 1 .. Len(q) + 1
      /\ DOMAIN q = 1 .. Len(q) /\ Len(q) \in Nat
      /\ Append(q, e)[Len(q) + 1] = e
      /\ \A i \in 1 .. Len(q) : Append(q, e)[i] = q[i]
  BY AppendProperties, LenProperties
<1> DEFINE a == Append(q, e)
<1> HIDE DEF a
<1>2. Items(a) = Items(q) \cup {e}
  <2>1. \A i \in DOMAIN a : a[i] \in Items(q) \cup {e}
    BY <1>1 DEF a, Items
  <2>2. e \in Items(a) /\ \A i \in DOMAIN q : i \in DOMAIN a /\ q[i] = a[i]
    BY <1>1 DEF a, Items
  <2> QED BY <2>1, <2>2 DEF Items
<1>3. ASSUME NEW p, NEW c, Follows(q, p, c), e # c \/ p \in Items(q)
      PROVE  Follows(a, p, c)
  <2> SUFFICES ASSUME NEW i \in DOMAIN a, a[i] = c
               PROVE  \E j \in 1 .. i - 1 : a[j] = p
    BY DEF Follows
  <2>1. CASE i \in 1 .. Len(q)
    <3>1. PICK j \in 1 .. i - 1 : q[j] = p
      BY <1>1, <1>3, <2>1 DEF Follows, a
    <3>2. j \in 1 .. Len(q)
      BY <1>1, <2>1, <3>1
    <3> QED BY <1>1, <3>1, <3>2 DEF a
  <2>2. CASE i = Len(q) + 1
    <3>1. PICK j \in 1 .. Len(q) : q[j] = p
      BY <1>1, <1>3, <2>2 DEF Items, a
    <3>2. j \in 1 .. i - 1 /\ a[j] = p
      BY <1>1, <2>2, <3>1 DEF a
    <3> QED BY <3>2
  <2> QED BY <1>1, <2>1, <2>2 DEF a
<1> QED BY <1>1, <1>2, <1>3 DEF a

\* What taking the first message does.
LEMMA Popped ==
    ASSUME NEW S, NEW q \in Seq(S), q # <<>>
    PROVE  /\ Tail(q) \in Seq(S) /\ Head(q) \in S
           /\ Items(q) = Items(Tail(q)) \cup {Head(q)}
           /\ \A p, c : Follows(q, p, c) => Head(q) # c /\ (Head(q) = p \/ Follows(Tail(q), p, c))
<1>1. /\ Tail(q) \in Seq(S) /\ Head(q) \in S /\ Head(q) = q[1]
      /\ DOMAIN q = 1 .. Len(q) /\ Len(q) \in Nat /\ Len(q) > 0
      /\ DOMAIN Tail(q) = 1 .. Len(q) - 1
      /\ \A i \in 1 .. Len(q) - 1 : Tail(q)[i] = q[i + 1]
  BY HeadTailProperties, LenProperties, EmptySeq
<1> DEFINE t == Tail(q)  h == Head(q)
<1> HIDE DEF t, h
<1>2. Items(q) = Items(t) \cup {h}
  <2>1. h \in Items(q) /\ \A i \in DOMAIN t : t[i] \in Items(q)
    BY <1>1 DEF t, h, Items
  <2>2. ASSUME NEW i \in DOMAIN q PROVE q[i] \in Items(t) \cup {h}
    <3>1. CASE i = 1
      BY <1>1, <3>1 DEF h
    <3>2. CASE i # 1
      <4>1. i - 1 \in DOMAIN t /\ t[i - 1] = q[i]
        BY <1>1, <3>2 DEF t
      <4> QED BY <4>1 DEF Items
    <3> QED BY <3>1, <3>2
  <2> QED BY <2>1, <2>2 DEF Items
<1>3. ASSUME NEW p, NEW c, Follows(q, p, c)
      PROVE  h # c /\ (h = p \/ Follows(t, p, c))
  <2>1. h # c
    BY <1>1, <1>3 DEF h, Follows
  <2>2. ASSUME h # p, NEW i \in DOMAIN t, t[i] = c
        PROVE  \E j \in 1 .. i - 1 : t[j] = p
    <3>1. PICK j \in 1 .. i : q[j] = p
      BY <1>1, <1>3, <2>2 DEF Follows, t
    <3>2. j # 1 /\ i \in 1 .. Len(q) - 1
      BY <1>1, <2>2, <3>1 DEF h, t
    <3>3. j - 1 \in 1 .. i - 1 /\ j - 1 \in 1 .. Len(q) - 1
      BY <1>1, <3>1, <3>2
    <3>4. t[j - 1] = p
      BY <1>1, <3>1, <3>3 DEF t
    <3> QED BY <3>3, <3>4
  <2> QED BY <2>1, <2>2 DEF Follows
<1> QED BY <1>1, <1>2, <1>3 DEF t, h

\* A queue without c.
LEMMA NothingFollows ==
    ASSUME NEW q, NEW c, c \notin Items(q), NEW p
    PROVE  Follows(q, p, c)
BY DEF Items, Follows

-----------------------------------------------------------------------------
(* The inductive invariant.                                                *)

\* Each process keeps the invariant it keeps alone.
Processes == /\ ServiceT!RInv
             /\ MakerT!IInv /\ MakerT!Linked
             /\ TakerT!IInv /\ TakerT!Linked

Heard(a) == IF a = MakerNode THEN m_heard ELSE t_heard
Proof(a) == Service!CommitmentProof(Offer, a)
Cancel(a) == Service!CancellationProof(Offer, a)

\* The service has queued the proof for this node, whether it has arrived or not.
HeardProof(a) == <<"proof", Offer>> \in Heard(a)
HeardCancellation(a) == <<"cancellation", Offer>> \in Heard(a)
Told(a) == Proof(a) \in Items(message_queue) \cup Items(topic[a]) \/ HeardProof(a)

\* The node has committed to the swap that is open.
Party(a) == a = swaps[Offer].maker \/ a \in swaps[Offer].taker_commitment_pool

\* Nothing is read that was not sent, and a topic holds messages for its node.
Inbox(a) == [type : ServiceT!MessageTypes, offer_id : {Offer}, recipient : {a}]
Delivery(a) ==
    /\ a \in DOMAIN topic /\ topic[a] \in Seq(Inbox(a))
    /\ \A x \in read : x.sender = a => x.message \in Sent(a)

\* What the service says of a node is what the node has done.
Word(a) ==
    /\ Party(a) => Signed(Commitment, a) \in read
    /\ deposits[Receipt(a)] > 0 => TransfersOf(a)[Deposit] > 0
    /\ Told(a) => Signed(Commitment, a) \in read /\ deposits[Receipt(a)] > 0

\* A cancellation comes after the proof: the service queues it for a maker that it has
\* sent the proof before, and the queue and the topic keep the order.
Order(a) ==
    /\ HeardCancellation(a) => HeardProof(a)
    /\ HeardProof(a) \/ Follows(topic[a], Proof(a), Cancel(a))
    /\ \/ HeardProof(a) \/ Proof(a) \in Items(topic[a])
       \/ Follows(message_queue, Proof(a), Cancel(a))
    /\ swaps[Offer].state = "wait_for_taker" /\ a = swaps[Offer].maker => Told(a)

\* The service takes a fee on the word of both nodes.
Fees ==
    /\ swaps[Offer].state = "wait_for_taker_execution" =>
           Signed(SwapExecution, swaps[Offer].maker) \in read
    /\ swaps[Offer].state = "wait_for_maker_execution" =>
           Signed(SwapExecution, swaps[Offer].taker) \in read
    /\ \A a \in Nodes : ServiceT!RefundsOf(ServiceT!LessFee(Receipt(a))) > 0 =>
           \A b \in Nodes : Signed(SwapExecution, b) \in read

\* A payment of the other node that one of them has seen was started.
Payments ==
    /\ <<TakerNode, Offer>> \in m_raiden_events => t_transfers[PaymentTo(MakerNode)] > 0
    /\ <<MakerNode, Offer>> \in t_raiden_events => m_transfers[PaymentTo(TakerNode)] > 0

\* The maker is called, or in the exchange, only because the taker has told it.
Called ==
    \/ MakerT!TakerCall(Offer, TakerNode) \in MakerT!In(m_state_changes)
    \/ m_offers[Offer] \in MakerT!Exchanged
    => Signed(ProvenOffer(MakerNode), TakerNode) \in read

Between == /\ \A a \in Nodes : Delivery(a) /\ Word(a) /\ Order(a)
           /\ Fees /\ Payments /\ Called

XInv == Processes /\ Between

-----------------------------------------------------------------------------
(* Every step of the system is a step of each process, or none of it.      *)

\* The messages of the service and their fields.
LEMMA Letters ==
    /\ \A a : Proof(a).type = "CommitmentProof" /\ Proof(a).offer_id = Offer /\ Proof(a).recipient = a
    /\ \A a : Cancel(a).type = "CancellationProof" /\ Cancel(a).offer_id = Offer
              /\ Cancel(a).recipient = a
    /\ \A a, b : Proof(a) # Cancel(b)
    /\ \A a : \A m \in Inbox(a) : /\ m.type = "CommitmentProof" => m = Proof(a)
                                  /\ m.type = "CancellationProof" => m = Cancel(a)
                                  /\ m.recipient = a
<1>1. /\ \A a : Proof(a).type = "CommitmentProof" /\ Proof(a).offer_id = Offer /\ Proof(a).recipient = a
      /\ \A a : Cancel(a).type = "CancellationProof" /\ Cancel(a).offer_id = Offer
                /\ Cancel(a).recipient = a
  BY DEF Proof, Cancel, Service!CommitmentProof, Service!CancellationProof
<1>2. ASSUME NEW a, NEW m \in Inbox(a)
      PROVE  /\ m.type = "CommitmentProof" => m = Proof(a)
             /\ m.type = "CancellationProof" => m = Cancel(a)
             /\ m.recipient = a
  BY DEF Inbox, Proof, Cancel, Service!CommitmentProof, Service!CancellationProof
<1> QED BY <1>1, <1>2

\* The first message on a topic is what its type says, and in its place in the order.
LEMMA Delivered ==
    ASSUME NEW a \in Nodes, Delivery(a), NEW type, Delivers(a, type)
    PROVE  /\ Head(topic[a]) \in Inbox(a) /\ Head(topic[a]).type = type
           /\ type = "CommitmentProof" => Head(topic[a]) = Proof(a)
           /\ type = "CancellationProof" => Head(topic[a]) = Cancel(a)
           /\ topic'[a] = Tail(topic[a]) /\ topic'[a] \in Seq(Inbox(a)) /\ DOMAIN topic' = DOMAIN topic
           /\ \A b \in Nodes \ {a} : b \in DOMAIN topic => topic'[b] = topic[b]
           /\ Items(topic[a]) = Items(topic'[a]) \cup {Head(topic[a])}
           /\ \A p, c : Follows(topic[a], p, c) =>
                  Head(topic[a]) # c /\ (Head(topic[a]) = p \/ Follows(topic'[a], p, c))
<1>1. /\ topic[a] \in Seq(Inbox(a)) /\ topic[a] # <<>> /\ Head(topic[a]).type = type
      /\ topic'[a] = Tail(topic[a]) /\ DOMAIN topic' = DOMAIN topic
      /\ \A b \in Nodes \ {a} : b \in DOMAIN topic => topic'[b] = topic[b]
  BY DEF Delivery, Delivers
<1>2. /\ Tail(topic[a]) \in Seq(Inbox(a)) /\ Head(topic[a]) \in Inbox(a)
      /\ Items(topic[a]) = Items(Tail(topic[a])) \cup {Head(topic[a])}
      /\ \A p, c : Follows(topic[a], p, c) =>
             Head(topic[a]) # c /\ (Head(topic[a]) = p \/ Follows(Tail(topic[a]), p, c))
  BY <1>1, Popped
<1> QED BY <1>1, <1>2, Letters

\* What a node hears from the service, it hears under the guards of RaidexNode.
LEMMA GuardsHold ==
    ASSUME Between, NEW a \in Nodes
    PROVE  /\ Delivers(a, "CommitmentProof") =>
                  Commitment \in Sent(a) /\ TransfersOf(a)[Deposit] > 0
           /\ Delivers(a, "CancellationProof") => HeardProof(a)
<1>1. Delivery(a) /\ Word(a) /\ Order(a)
  BY DEF Between
<1>2. ASSUME Delivers(a, "CommitmentProof")
      PROVE  Commitment \in Sent(a) /\ TransfersOf(a)[Deposit] > 0
  <2>1. Proof(a) \in Items(topic[a])
    BY <1>1, <1>2, Delivered
  <2>2. Signed(Commitment, a) \in read /\ deposits[Receipt(a)] > 0
    BY <1>1, <2>1 DEF Word, Told
  <2>3. Signed(Commitment, a).sender = a /\ Signed(Commitment, a).message = Commitment
    BY DEF Signed
  <2> QED BY <1>1, <2>2, <2>3 DEF Delivery, Word
<1>3. ASSUME Delivers(a, "CancellationProof")
      PROVE  HeardProof(a)
  BY <1>1, <1>3, Delivered DEF Order
<1> QED BY <1>2, <1>3

\* The names of one process for what it shares with another.
LEMMA SameNames ==
    /\ MakerNode \in Nodes /\ TakerNode \in Nodes
    /\ Sent(MakerNode) = m_sent /\ Sent(TakerNode) = t_sent
    /\ TransfersOf(MakerNode) = m_transfers /\ TransfersOf(TakerNode) = t_transfers
    /\ Heard(MakerNode) = m_heard /\ Heard(TakerNode) = t_heard
    /\ Maker!Message("Commitment", Offer, CS) = Commitment
    /\ Taker!Message("Commitment", Offer, CS) = Commitment
    /\ Maker!Deposit(Offer) = Deposit /\ Taker!Deposit(Offer) = Deposit
BY NodesAssumption
   DEF Nodes, Sent, TransfersOf, Heard, Commitment, Deposit, Maker!Message, Taker!Message,
       Maker!Deposit, Taker!Deposit

\* What the system does to the service, the service does itself.
LEMMA ServiceRuns ==
    ASSUME [Next]_vars
    PROVE  [Service!Next]_(Service!vars)
<1>1. ASSUME UNCHANGED serviceVars PROVE UNCHANGED Service!vars
  BY <1>1 DEF serviceVars, Service!vars
<1>2. CASE ServiceStep
  BY <1>2 DEF ServiceStep, Service!Next
<1>3. ASSUME NEW a \in Nodes, DepositArrives(a) PROVE Service!Next
  <2>1. Receipt(a) \in Service!TransferReceipt
    BY DEF Receipt, Service!TransferReceipt
  <2> QED BY <1>3, <2>1 DEF DepositArrives, Service!Next
<1>4. ASSUME NEW a \in Nodes, ServiceReads(a) PROVE Service!Next
  BY <1>4 DEF ServiceReads, Service!Next, Service!CommitmentTask, Service!SwapExecutionTask
<1>5. CASE ServiceSends
  BY <1>5 DEF ServiceSends, Service!Next, Service!MessageSenderTask
<1>6. UNCHANGED serviceVars \/ ServiceStep \/ ServiceSends
      \/ \E a \in Nodes : DepositArrives(a) \/ ServiceReads(a)
  BY DEF Next, vars, MakerHandsOn, TakerHandsOn, MakerStep, TakerStep, MakerIsPaid, TakerIsPaid,
         MakerReads, TakerReads
<1> QED BY <1>1, <1>2, <1>3, <1>4, <1>5, <1>6

\* What the system does to the node that makes the offer, the node does itself: what it
\* hears from the service, it hears under its guards.
LEMMA MakerRuns ==
    ASSUME Between, [Next]_vars
    PROVE  [Maker!Next]_(Maker!vars)
<1>1. ASSUME UNCHANGED makerVars PROVE UNCHANGED Maker!vars
  BY <1>1 DEF makerVars, Maker!vars
<1>2. CASE MakerHandsOn
  BY <1>2 DEF MakerHandsOn, Maker!Next, Maker!Trader
<1>3. CASE MakerStep
  BY <1>3 DEF MakerStep, Maker!Next, Maker!Transport, Maker!Ids, Maker!Environment
<1>4. ASSUME NEW from \in {TakerNode, CS}, MakerIsPaid(from) PROVE Maker!Next
  <2>1. <<from, Offer>> \in Maker!Keys
    BY DEF Maker!Keys, Maker!Ids
  <2> QED BY <1>4, <2>1 DEF MakerIsPaid, Maker!Next, Maker!Environment
<1>5. CASE MakerReads
  <2>1. ASSUME Delivers(MakerNode, "CommitmentProof"),
               Maker!Hear("proof", Offer, Maker!CommitmentProof(Offer))
        PROVE  Maker!HearCommitmentProof(Offer)
    BY <2>1, GuardsHold, SameNames DEF Maker!HearCommitmentProof
  <2>2. ASSUME Delivers(MakerNode, "CancellationProof"),
               Maker!Hear("cancellation", Offer, Maker!CancellationProof(Offer))
        PROVE  Maker!HearCancellationProof(Offer)
    BY <2>2, GuardsHold, SameNames DEF Maker!HearCancellationProof, HeardProof
  <2>3. \/ Maker!HearCommitmentProof(Offer) \/ Maker!HearCancellationProof(Offer)
        \/ Maker!HearOwnOffer(Offer) \/ Maker!HearTaker(Offer, TakerNode)
    BY <1>5, <2>1, <2>2 DEF MakerReads
  <2> QED BY <2>3 DEF Maker!Next, Maker!Environment, Maker!Ids
<1>6. UNCHANGED makerVars \/ MakerHandsOn \/ MakerStep \/ MakerReads
      \/ \E from \in {TakerNode, CS} : MakerIsPaid(from)
  BY DEF Next, vars, TakerHandsOn, TakerStep, ServiceStep, DepositArrives, ServiceReads,
         TakerIsPaid, ServiceSends, TakerReads
<1> QED BY <1>1, <1>2, <1>3, <1>4, <1>5, <1>6

\* The same for the node that takes the offer.
LEMMA TakerRuns ==
    ASSUME Between, [Next]_vars
    PROVE  [Taker!Next]_(Taker!vars)
<1>1. ASSUME UNCHANGED takerVars PROVE UNCHANGED Taker!vars
  BY <1>1 DEF takerVars, Taker!vars
<1>2. CASE TakerHandsOn
  BY <1>2 DEF TakerHandsOn, Taker!Next, Taker!Trader
<1>3. CASE TakerStep
  BY <1>3 DEF TakerStep, Taker!Next, Taker!Transport, Taker!Ids, Taker!Environment
<1>4. ASSUME NEW from \in {MakerNode, CS}, TakerIsPaid(from) PROVE Taker!Next
  <2>1. <<from, Offer>> \in Taker!Keys
    BY DEF Taker!Keys, Taker!Ids
  <2> QED BY <1>4, <2>1 DEF TakerIsPaid, Taker!Next, Taker!Environment
<1>5. CASE TakerReads
  <2>1. ASSUME Delivers(TakerNode, "CommitmentProof"),
               Taker!Hear("proof", Offer, Taker!CommitmentProof(Offer))
        PROVE  Taker!HearCommitmentProof(Offer)
    BY <2>1, GuardsHold, SameNames DEF Taker!HearCommitmentProof
  <2>2. ASSUME Delivers(TakerNode, "CancellationProof"),
               Taker!Hear("cancellation", Offer, Taker!CancellationProof(Offer))
        PROVE  Taker!HearCancellationProof(Offer)
    BY <2>2, GuardsHold, SameNames DEF Taker!HearCancellationProof, HeardProof
  <2>3. \/ Taker!HearCommitmentProof(Offer) \/ Taker!HearCancellationProof(Offer)
        \/ Taker!HearOffer(Offer, MakerNode)
    BY <1>5, <2>1, <2>2 DEF TakerReads
  <2> QED BY <2>3 DEF Taker!Next, Taker!Environment, Taker!Ids
<1>6. UNCHANGED takerVars \/ TakerHandsOn \/ TakerStep \/ TakerReads
      \/ \E from \in {MakerNode, CS} : TakerIsPaid(from)
  BY DEF Next, vars, MakerHandsOn, MakerStep, ServiceStep, DepositArrives, ServiceReads,
         MakerIsPaid, ServiceSends, MakerReads
<1> QED BY <1>1, <1>2, <1>3, <1>4, <1>5, <1>6

\* So each process keeps its invariants.
LEMMA ProcessesStep ==
    ASSUME XInv, [Next]_vars
    PROVE  /\ [ServiceT!Next]_(ServiceT!vars) /\ [MakerT!Next]_(MakerT!vars)
           /\ [TakerT!Next]_(TakerT!vars)
           /\ Processes'
<1>1. [ServiceT!Next]_(ServiceT!vars)
  BY ServiceRuns, ServiceIsService DEF Service!vars, ServiceT!vars
<1>2. [MakerT!Next]_(MakerT!vars)
  BY MakerRuns, MakerIsNode DEF XInv, Maker!vars, MakerT!vars
<1>3. [TakerT!Next]_(TakerT!vars)
  BY TakerRuns, TakerIsNode DEF XInv, Taker!vars, TakerT!vars
<1>4. ServiceT!RInv'
  <2>1. ServiceT!IInv /\ ServiceT!TypeOK /\ ServiceT!NoEarlyReceipt
    BY DEF XInv, Processes, ServiceT!RInv, ServiceT!IInv
  <2>2. ServiceT!IInv'
    BY <1>1, <2>1, ServiceT!InvStep, Assumptions
  <2>3. ServiceT!NoEarlyReceipt'
    BY <1>1, <2>1, ServiceT!ReceiptsStep, Assumptions
  <2> QED BY <2>2, <2>3 DEF ServiceT!RInv
<1>5. MakerT!IInv' /\ MakerT!Linked'
  BY <1>2, MakerT!IInvStep, MakerT!LinksStep, Assumptions DEF XInv, Processes
<1>6. TakerT!IInv' /\ TakerT!Linked'
  BY <1>3, TakerT!IInvStep, TakerT!LinksStep, Assumptions DEF XInv, Processes
<1> QED BY <1>1, <1>2, <1>3, <1>4, <1>5, <1>6 DEF Processes

-----------------------------------------------------------------------------
(* Which steps change what the invariant is about.                         *)

\* What the nodes do on their own they do without the broker and without being paid.
LEMMA MakerAlone ==
    ASSUME MakerHandsOn \/ MakerStep
    PROVE  UNCHANGED <<serviceVars, takerVars, topic, read, m_heard, m_raiden_events>>
<1>1. CASE MakerHandsOn
  BY <1>1 DEF MakerHandsOn, Maker!CsClient, Maker!ClientCommit, Maker!ClientWaitForTaker,
         Maker!ClientReceivedInbound, Maker!ClientCancellation, Maker!StartTransfer,
         Maker!RaidenListener, Maker!ListenerExpect, Maker!ListenerPayment, Maker!outside
<1>2. CASE MakerStep
  <2>1. ASSUME Maker!HandleStateChange
        PROVE  UNCHANGED Maker!outside
    BY <2>1
       DEF Maker!HandleStateChange, Maker!Done, Maker!Raise, Maker!HandleNewLimitOrder,
           Maker!HandleNewLimitOrderRaises, Maker!HandleCancelLimitOrder,
           Maker!HandleCancelClosedOrder, Maker!HandleOfferTimeout, Maker!HandleOfferTimeoutRaises,
           Maker!HandleEntryTimeout, Maker!HandleOwnOfferPublished,
           Maker!HandleOwnOfferPublishedRaises, Maker!HandleOfferPublished, Maker!HandleMakerProof,
           Maker!HandleTakerProof, Maker!HandleProofRaises, Maker!HandleCancellationProof,
           Maker!HandleCancellationProofRaises, Maker!HandleTakerCall, Maker!HandleTakerCallRaises,
           Maker!HandleInbound, Maker!HandleRefund, Maker!HandleMakeChannel
  <2> QED BY <1>2, <2>1 DEF MakerStep, Maker!TransportSend, Maker!TimerFires, Maker!PlaceOrder,
             Maker!outside
<1> QED BY <1>1, <1>2

\* The same for the node that takes the offer.
LEMMA TakerAlone ==
    ASSUME TakerHandsOn \/ TakerStep
    PROVE  UNCHANGED <<serviceVars, makerVars, topic, read, t_heard, t_raiden_events>>
<1>1. CASE TakerHandsOn
  BY <1>1 DEF TakerHandsOn, Taker!CsClient, Taker!ClientCommit, Taker!ClientWaitForTaker,
         Taker!ClientReceivedInbound, Taker!ClientCancellation, Taker!StartTransfer,
         Taker!RaidenListener, Taker!ListenerExpect, Taker!ListenerPayment, Taker!outside
<1>2. CASE TakerStep
  <2>1. ASSUME Taker!HandleStateChange
        PROVE  UNCHANGED Taker!outside
    BY <2>1
       DEF Taker!HandleStateChange, Taker!Done, Taker!Raise, Taker!HandleNewLimitOrder,
           Taker!HandleNewLimitOrderRaises, Taker!HandleCancelLimitOrder,
           Taker!HandleCancelClosedOrder, Taker!HandleOfferTimeout, Taker!HandleOfferTimeoutRaises,
           Taker!HandleEntryTimeout, Taker!HandleOwnOfferPublished,
           Taker!HandleOwnOfferPublishedRaises, Taker!HandleOfferPublished, Taker!HandleMakerProof,
           Taker!HandleTakerProof, Taker!HandleProofRaises, Taker!HandleCancellationProof,
           Taker!HandleCancellationProofRaises, Taker!HandleTakerCall, Taker!HandleTakerCallRaises,
           Taker!HandleInbound, Taker!HandleRefund, Taker!HandleMakeChannel
  <2> QED BY <1>2, <2>1 DEF TakerStep, Taker!TransportSend, Taker!TimerFires, Taker!PlaceOrder,
             Taker!outside
<1> QED BY <1>1, <1>2

\* What the node has sent, started and seen and what was read stays.
LEMMA Stays ==
    ASSUME XInv, [Next]_vars
    PROVE  /\ read \subseteq read'
           /\ m_sent \subseteq m_sent' /\ t_sent \subseteq t_sent'
           /\ m_heard \subseteq m_heard' /\ t_heard \subseteq t_heard'
           /\ \A a \in Nodes : /\ Sent(a) \subseteq Sent(a)'
                               /\ TransfersOf(a)[Deposit] > 0 => TransfersOf(a)'[Deposit] > 0
           /\ m_transfers[PaymentTo(TakerNode)] > 0 => m_transfers'[PaymentTo(TakerNode)] > 0
           /\ t_transfers[PaymentTo(MakerNode)] > 0 => t_transfers'[PaymentTo(MakerNode)] > 0
<1>1. /\ m_sent \subseteq m_sent' /\ m_heard \subseteq m_heard'
      /\ \A t \in MakerT!Transfers : m_transfers[t] > 0 => m_transfers'[t] > 0
  BY ProcessesStep, MakerT!Grows, Assumptions DEF XInv, Processes, MakerT!IInv
<1>2. /\ t_sent \subseteq t_sent' /\ t_heard \subseteq t_heard'
      /\ \A t \in TakerT!Transfers : t_transfers[t] > 0 => t_transfers'[t] > 0
  BY ProcessesStep, TakerT!Grows, Assumptions DEF XInv, Processes, TakerT!IInv
<1>3. /\ Deposit \in MakerT!Transfers /\ PaymentTo(TakerNode) \in MakerT!Transfers
      /\ Deposit \in TakerT!Transfers /\ PaymentTo(MakerNode) \in TakerT!Transfers
  BY DEF Deposit, PaymentTo, Maker!Deposit, Maker!SwapInit, MakerT!Transfers, TakerT!Transfers,
     MakerT!Ids, TakerT!Ids
<1>4. read \subseteq read'
  <2>1. UNCHANGED read \/ (\E a \in Nodes : ServiceReads(a)) \/ MakerReads
    BY DEF Next, vars, MakerHandsOn, TakerHandsOn, MakerStep, TakerStep, ServiceStep,
           DepositArrives, MakerIsPaid, TakerIsPaid, ServiceSends, TakerReads
  <2> QED BY <2>1 DEF ServiceReads, MakerReads, Reads
<1> QED BY <1>1, <1>2, <1>3, <1>4 DEF Sent, TransfersOf

\* No fee is claimed: the refunds stay, or one in full is queued, or RefundTask moves one.
Unclaimed ==
    \/ UNCHANGED Service!refunds
    \/ \E x \in Service!TransferReceipt :
          /\ refund_queue' = Service!QueueRefund(refund_queue, x, FALSE)
          /\ UNCHANGED <<in_flight, refunded, lost>>
    \/ \E r \in Service!Refund : Service!StartRefund(r) \/ Service!RefundSucceeds(r)
                                 \/ Service!RefundFails(r) \/ Service!RefundRaises(r)

\* The service accepts the deposit of this node.
Accepts(a) == /\ Service!MakerTransfer(Receipt(a)) \/ Service!TakerTransfer(Receipt(a))
              /\ UNCHANGED <<makerVars, takerVars, topic, read>>

\* What can happen to the state of the service, its messages and the fees.
LEMMA ServiceCases ==
    ASSUME [Next]_vars
    PROVE  \/ UNCHANGED <<swaps, deposits, message_queue>> /\ Unclaimed
           \/ \E a \in Nodes : DepositArrives(a)
           \/ \E a \in Nodes : /\ Reads(Commitment, a)
                               /\ Service!MakerCommitment(a, Offer) \/ Service!TakerCommitment(a, Offer)
                               /\ UNCHANGED <<makerVars, takerVars, topic>>
           \/ \E rc \in Service!TransferReceipt :
                  /\ Service!MakerTransfer(rc) \/ Service!TakerTransfer(rc)
                  /\ UNCHANGED <<makerVars, takerVars, topic, read>>
           \/ \E a \in Nodes : /\ Reads(SwapExecution, a)
                               /\ Service!FirstExecution(a, Offer) \/ Service!SecondExecution(a, Offer)
                               /\ UNCHANGED <<makerVars, takerVars, topic>>
           \/ Service!Timeout(Offer) /\ UNCHANGED <<makerVars, takerVars, topic>>
           \/ ServiceSends
<1>1. ASSUME UNCHANGED serviceVars PROVE UNCHANGED <<swaps, deposits, message_queue>> /\ Unclaimed
  BY <1>1 DEF serviceVars, Unclaimed, Service!refunds
<1>2. CASE ServiceStep
  <2>1. ASSUME NEW rc \in Service!TransferReceipt,
               Service!UnsuccessfulTransfer(rc) \/ Service!TransferWithoutSwap(rc)
        PROVE  UNCHANGED <<swaps, deposits, message_queue>> /\ Unclaimed
    BY <2>1 DEF Service!UnsuccessfulTransfer, Service!TransferWithoutSwap, Unclaimed, Service!refunds
  <2>2. CASE Service!RefundTask
    BY <2>2 DEF Service!RefundTask, Unclaimed, Service!StartRefund, Service!RefundSucceeds,
           Service!RefundFails, Service!RefundRaises
  <2> QED BY <1>2, <2>1, <2>2 DEF ServiceStep, Service!TransferReceivedTask
<1>3. ASSUME NEW a \in Nodes, ServiceReads(a)
      PROVE  \/ UNCHANGED <<swaps, deposits, message_queue>> /\ Unclaimed
             \/ /\ Reads(Commitment, a)
                /\ Service!MakerCommitment(a, Offer) \/ Service!TakerCommitment(a, Offer)
                /\ UNCHANGED <<makerVars, takerVars, topic>>
             \/ /\ Reads(SwapExecution, a)
                /\ Service!FirstExecution(a, Offer) \/ Service!SecondExecution(a, Offer)
                /\ UNCHANGED <<makerVars, takerVars, topic>>
             \/ Service!Timeout(Offer) /\ UNCHANGED <<makerVars, takerVars, topic>>
  BY <1>3 DEF ServiceReads, Unclaimed, Service!refunds, Service!UnexpectedCommitment,
         Service!IgnoredExecution, Service!UnreadExecution, Service!UnexpectedExecution,
         Service!IgnoredCancellation, Service!vars
<1>4. UNCHANGED serviceVars \/ ServiceStep \/ ServiceSends
      \/ \E a \in Nodes : DepositArrives(a) \/ ServiceReads(a)
  BY DEF Next, vars, MakerHandsOn, TakerHandsOn, MakerStep, TakerStep, MakerIsPaid, TakerIsPaid,
         MakerReads, TakerReads
<1> QED BY <1>1, <1>2, <1>3, <1>4

\* What can happen to the topics and to what the nodes have heard of the service.
LEMMA BrokerCases ==
    ASSUME [Next]_vars
    PROVE  \/ /\ topic' = topic \/ ServiceSends
              /\ \A a \in Nodes : /\ HeardProof(a)' <=> HeardProof(a)
                                  /\ HeardCancellation(a)' <=> HeardCancellation(a)
           \/ \E a \in Nodes :
                 /\ UNCHANGED serviceVars
                 /\ \A b \in Nodes \ {a} : Heard(b)' = Heard(b)
                 /\ \/ /\ Delivers(a, "CommitmentProof")
                       /\ Heard(a)' = Heard(a) \cup {<<"proof", Offer>>}
                    \/ /\ Delivers(a, "CancellationProof")
                       /\ Heard(a)' = Heard(a) \cup {<<"cancellation", Offer>>}
<1>1. ASSUME UNCHANGED <<m_heard, t_heard>>
      PROVE  \A a \in Nodes : /\ HeardProof(a)' <=> HeardProof(a)
                              /\ HeardCancellation(a)' <=> HeardCancellation(a)
  BY <1>1 DEF HeardProof, HeardCancellation, Heard
<1>2. CASE MakerHandsOn \/ MakerStep \/ TakerHandsOn \/ TakerStep
  BY <1>1, <1>2, MakerAlone, TakerAlone DEF makerVars, takerVars
<1>3. ASSUME NEW from, MakerIsPaid(from) \/ TakerIsPaid(from)
      PROVE  UNCHANGED <<topic, m_heard, t_heard>>
  BY <1>3 DEF MakerIsPaid, TakerIsPaid, Maker!PollPayment, Taker!PollPayment, makerVars, takerVars
<1>4. CASE MakerReads
  <2>1. Heard(MakerNode) = m_heard /\ Heard(MakerNode)' = m_heard' /\ MakerNode \in Nodes
        /\ UNCHANGED serviceVars
        /\ \A b \in Nodes \ {MakerNode} : Heard(b)' = Heard(b)
    BY <1>4 DEF MakerReads, Heard, Nodes, takerVars
  <2>2. CASE Maker!HearOwnOffer(Offer) /\ UNCHANGED topic
    BY <2>1, <2>2 DEF Maker!HearOwnOffer, Maker!Hear, HeardProof, HeardCancellation
  <2>3. CASE Maker!HearTaker(Offer, TakerNode) /\ UNCHANGED topic
    BY <2>1, <2>3 DEF Maker!HearTaker, Maker!outside, HeardProof, HeardCancellation
  <2>4. CASE /\ Delivers(MakerNode, "CommitmentProof")
             /\ Maker!Hear("proof", Offer, Maker!CommitmentProof(Offer))
    BY <2>1, <2>4 DEF Maker!Hear
  <2>5. CASE /\ Delivers(MakerNode, "CancellationProof")
             /\ Maker!Hear("cancellation", Offer, Maker!CancellationProof(Offer))
    BY <2>1, <2>5 DEF Maker!Hear
  <2> QED BY <1>4, <2>2, <2>3, <2>4, <2>5 DEF MakerReads
<1>5. CASE TakerReads
  <2>1. Heard(TakerNode) = t_heard /\ Heard(TakerNode)' = t_heard' /\ TakerNode \in Nodes
        /\ UNCHANGED serviceVars
        /\ \A b \in Nodes \ {TakerNode} : Heard(b)' = Heard(b)
    BY <1>5, NodesAssumption DEF TakerReads, Heard, Nodes, makerVars
  <2>2. CASE Taker!HearOffer(Offer, MakerNode) /\ UNCHANGED topic
    BY <2>1, <2>2 DEF Taker!HearOffer, Taker!Hear, HeardProof, HeardCancellation
  <2>3. CASE /\ Delivers(TakerNode, "CommitmentProof")
             /\ Taker!Hear("proof", Offer, Taker!CommitmentProof(Offer))
    BY <2>1, <2>3 DEF Taker!Hear
  <2>4. CASE /\ Delivers(TakerNode, "CancellationProof")
             /\ Taker!Hear("cancellation", Offer, Taker!CancellationProof(Offer))
    BY <2>1, <2>4 DEF Taker!Hear
  <2> QED BY <1>5, <2>2, <2>3, <2>4 DEF TakerReads
<1>6. ASSUME NEW a, ServiceStep \/ DepositArrives(a) \/ ServiceReads(a) \/ ServiceSends
      PROVE  /\ topic' = topic \/ ServiceSends
             /\ UNCHANGED <<m_heard, t_heard>>
  BY <1>6 DEF ServiceStep, DepositArrives, ServiceReads, ServiceSends, makerVars, takerVars
<1>7. CASE UNCHANGED vars
  BY <1>1, <1>7 DEF vars, makerVars, takerVars
<1> QED BY <1>1, <1>2, <1>3, <1>4, <1>5, <1>6, <1>7 DEF Next

\* No refund less the fee appears.
FeesKept ==
    \A a \in Nodes : ServiceT!RefundsOf(ServiceT!LessFee(Receipt(a)))' =
                     ServiceT!RefundsOf(ServiceT!LessFee(Receipt(a)))

\* Only the second confirmation of a swap takes a fee.
LEMMA UnclaimedKeepsFees ==
    ASSUME ServiceT!TypeOK, Unclaimed
    PROVE  FeesKept
<1>1. ASSUME NEW a \in Nodes PROVE Receipt(a) \in ServiceT!TransferReceipt
  BY <1>1 DEF Receipt, ServiceT!TransferReceipt
<1>2. \/ UNCHANGED ServiceT!refunds
      \/ \E x \in ServiceT!TransferReceipt :
            /\ refund_queue' = ServiceT!QueueRefund(refund_queue, x, FALSE)
            /\ UNCHANGED <<in_flight, refunded, lost>>
      \/ \E r \in ServiceT!Refund : ServiceT!StartRefund(r) \/ ServiceT!RefundSucceeds(r)
                                    \/ ServiceT!RefundFails(r) \/ ServiceT!RefundRaises(r)
  BY DEF Unclaimed, Service!refunds, ServiceT!refunds, Service!TransferReceipt,
     ServiceT!TransferReceipt, Service!QueueRefund, ServiceT!QueueRefund, Service!Refund,
     ServiceT!Refund, Service!StartRefund, ServiceT!StartRefund, Service!RefundSucceeds,
     ServiceT!RefundSucceeds, Service!RefundFails, ServiceT!RefundFails, Service!RefundRaises,
     ServiceT!RefundRaises
<1>3. ASSUME NEW a \in Nodes
      PROVE  ServiceT!RefundsOf(ServiceT!LessFee(Receipt(a)))' =
             ServiceT!RefundsOf(ServiceT!LessFee(Receipt(a)))
  BY <1>1, <1>2, ServiceT!LessFeeKept, Assumptions
<1> QED BY <1>3 DEF FeesKept

\* What a step does to the swap, the deposits and the messages of the service.
LEMMA Effects ==
    ASSUME XInv, [Next]_vars,
           NEW s, s = swaps[Offer], NEW t, t = swaps'[Offer]
    PROVE  \/ UNCHANGED <<swaps, deposits, message_queue>> /\ FeesKept
           \/ /\ \E b \in Nodes : /\ TransfersOf(b)[Deposit] > 0
                                  /\ deposits' = [deposits EXCEPT ![Receipt(b)] = Amount]
              /\ UNCHANGED <<swaps, message_queue>> /\ FeesKept
           \/ /\ \E b \in Nodes :
                    /\ Signed(Commitment, b) \in read'
                    /\ \/ t.state = "wait_for_maker" /\ t.maker = b /\ t.taker_commitment_pool = {}
                       \/ /\ t.state = "wait_for_taker" /\ t.maker = s.maker /\ s.state = t.state
                          /\ t.taker_commitment_pool = s.taker_commitment_pool \cup {b}
              /\ UNCHANGED <<deposits, message_queue>> /\ FeesKept
           \/ /\ t.maker = s.maker /\ t.taker_commitment_pool = s.taker_commitment_pool
              /\ \E b \in Nodes :
                    /\ Accepts(b) /\ Party(b) /\ deposits[Receipt(b)] > 0
                    /\ \/ /\ t.state = "wait_for_taker" /\ t.maker = b
                          /\ message_queue' = Append(message_queue, Proof(b))
                       \/ /\ t.state = "wait_for_execution"
                          /\ message_queue' =
                                Append(Append(message_queue, Service!OfferTaken(Offer)), Proof(b))
              /\ UNCHANGED deposits /\ FeesKept
           \/ /\ t.maker = s.maker /\ t.taker_commitment_pool = s.taker_commitment_pool
              /\ t.taker = s.taker /\ s.state = "wait_for_execution"
              /\ \E b \in Nodes : /\ Signed(SwapExecution, b) \in read'
                                  /\ \/ t.state = "wait_for_taker_execution" /\ b = s.maker
                                     \/ t.state = "wait_for_maker_execution" /\ b = s.taker
              /\ UNCHANGED <<deposits, message_queue>> /\ FeesKept
           \/ /\ t.state = "absent" /\ t.maker = None /\ t.taker_commitment_pool = {}
              /\ \E b \in Nodes : /\ Signed(SwapExecution, b) \in read'
                                  /\ \/ s.state = "wait_for_taker_execution" /\ b = s.taker
                                     \/ s.state = "wait_for_maker_execution" /\ b = s.maker
              /\ message_queue' = Append(message_queue, Service!SwapCompleted(Offer))
              /\ UNCHANGED deposits
           \/ /\ t.state = "absent" /\ t.maker = None /\ t.taker_commitment_pool = {}
              /\ \/ message_queue' = message_queue
                 \/ /\ s.state = "wait_for_taker"
                    /\ message_queue' = Append(message_queue, Cancel(s.maker))
              /\ UNCHANGED deposits /\ FeesKept
           \/ ServiceSends /\ UNCHANGED <<swaps, deposits>> /\ FeesKept
<1>1. ServiceT!IInv /\ ServiceT!TypeOK
  BY DEF XInv, Processes, ServiceT!RInv, ServiceT!IInv
<1>2. /\ swaps \in [{Offer} -> ServiceT!SwapCommitment] /\ message_queue \in Seq(ServiceT!Message)
      /\ s \in ServiceT!SwapCommitment
  BY <1>1 DEF ServiceT!TypeOK
<1>3. ASSUME NEW rc \in Service!TransferReceipt
      PROVE  rc.identifier = Offer /\ rc.initiator \in Nodes /\ rc = Receipt(rc.initiator)
  BY <1>3 DEF Service!TransferReceipt, Receipt
<1>4. ASSUME UNCHANGED Service!refunds PROVE FeesKept
  BY <1>1, <1>4, UnclaimedKeepsFees DEF Unclaimed
<1>5. CASE UNCHANGED <<swaps, deposits, message_queue>> /\ Unclaimed
  BY <1>1, <1>5, UnclaimedKeepsFees
<1>6. ASSUME NEW b \in Nodes, DepositArrives(b)
      PROVE  /\ TransfersOf(b)[Deposit] > 0 /\ deposits' = [deposits EXCEPT ![Receipt(b)] = Amount]
             /\ UNCHANGED <<swaps, message_queue>> /\ FeesKept
  BY <1>4, <1>6 DEF DepositArrives, Service!Pay
<1>7. ASSUME NEW b \in Nodes, Reads(Commitment, b), Service!MakerCommitment(b, Offer)
      PROVE  /\ Signed(Commitment, b) \in read'
             /\ t.state = "wait_for_maker" /\ t.maker = b /\ t.taker_commitment_pool = {}
             /\ UNCHANGED <<deposits, message_queue>> /\ FeesKept
  BY <1>2, <1>4, <1>7 DEF Reads, Service!MakerCommitment, Service!Absent
<1>8. ASSUME NEW b \in Nodes, Reads(Commitment, b), Service!TakerCommitment(b, Offer)
      PROVE  /\ Signed(Commitment, b) \in read'
             /\ t.state = "wait_for_taker" /\ t.maker = s.maker /\ s.state = t.state
             /\ t.taker_commitment_pool = s.taker_commitment_pool \cup {b}
             /\ UNCHANGED <<deposits, message_queue>> /\ FeesKept
  BY <1>2, <1>4, <1>8 DEF Reads, Service!TakerCommitment, ServiceT!SwapCommitment
<1>9. ASSUME NEW rc \in Service!TransferReceipt, Service!MakerTransfer(rc)
      PROVE  /\ t.maker = s.maker /\ t.taker_commitment_pool = s.taker_commitment_pool
             /\ Party(rc.initiator) /\ deposits[Receipt(rc.initiator)] > 0
             /\ t.state = "wait_for_taker" /\ t.maker = rc.initiator
             /\ message_queue' = Append(message_queue, Proof(rc.initiator))
             /\ UNCHANGED deposits /\ FeesKept
  BY <1>2, <1>3, <1>4, <1>9 DEF Service!MakerTransfer, Service!DeliverOnce, Party, Proof,
     ServiceT!SwapCommitment
<1>10. ASSUME NEW rc \in Service!TransferReceipt, Service!TakerTransfer(rc)
       PROVE  /\ t.maker = s.maker /\ t.taker_commitment_pool = s.taker_commitment_pool
              /\ Party(rc.initiator) /\ deposits[Receipt(rc.initiator)] > 0
              /\ t.state = "wait_for_execution"
              /\ message_queue' = Append(Append(message_queue, Service!OfferTaken(Offer)),
                                         Proof(rc.initiator))
              /\ UNCHANGED deposits /\ FeesKept
  <2>1. message_queue' = message_queue \o <<Service!OfferTaken(Offer), Proof(rc.initiator)>>
    BY <1>3, <1>10 DEF Service!TakerTransfer, Proof
  <2>2. ASSUME NEW S, NEW q \in Seq(S), NEW x, NEW y PROVE q \o <<x, y>> = Append(Append(q, x), y)
    OBVIOUS
  <2>3. message_queue' = Append(Append(message_queue, Service!OfferTaken(Offer)),
                                Proof(rc.initiator))
    BY <1>2, <2>1, <2>2
  <2> QED BY <1>2, <1>3, <1>4, <1>10, <2>3 DEF Service!TakerTransfer, Service!DeliverOnce, Party,
             ServiceT!SwapCommitment
<1>11. ASSUME NEW b \in Nodes, Reads(SwapExecution, b), Service!FirstExecution(b, Offer)
       PROVE  /\ t.maker = s.maker /\ t.taker_commitment_pool = s.taker_commitment_pool
              /\ t.taker = s.taker /\ s.state = "wait_for_execution"
              /\ Signed(SwapExecution, b) \in read'
              /\ \/ t.state = "wait_for_taker_execution" /\ b = s.maker
                 \/ t.state = "wait_for_maker_execution" /\ b = s.taker
              /\ UNCHANGED <<deposits, message_queue>> /\ FeesKept
  BY <1>2, <1>4, <1>11 DEF Reads, Service!FirstExecution, ServiceT!SwapCommitment
<1>12. ASSUME NEW b \in Nodes, Reads(SwapExecution, b), Service!SecondExecution(b, Offer)
       PROVE  /\ t.state = "absent" /\ t.maker = None /\ t.taker_commitment_pool = {}
              /\ Signed(SwapExecution, b) \in read'
              /\ \/ s.state = "wait_for_taker_execution" /\ b = s.taker
                 \/ s.state = "wait_for_maker_execution" /\ b = s.maker
              /\ message_queue' = Append(message_queue, Service!SwapCompleted(Offer))
              /\ UNCHANGED deposits
  BY <1>2, <1>12 DEF Reads, Service!SecondExecution, Service!Absent
<1>13. CASE Service!Timeout(Offer)
  <2>1. t.state = "absent" /\ t.maker = None /\ t.taker_commitment_pool = {} /\ UNCHANGED deposits
    <3>1. swaps' = [swaps EXCEPT ![Offer] = Service!Absent] /\ UNCHANGED deposits
      BY <1>13 DEF Service!Timeout, Service!TimeoutUncommitted, Service!TimeoutUntraded,
             Service!TimeoutFailed
    <3>2. t = Service!Absent
      BY <1>2, <3>1
    <3> QED BY <3>1, <3>2 DEF Service!Absent
  <2>2. CASE Service!TimeoutUncommitted(Offer) \/ Service!TimeoutFailed(Offer)
    BY <1>4, <2>1, <2>2 DEF Service!TimeoutUncommitted, Service!TimeoutFailed
  <2>3. CASE Service!TimeoutUntraded(Offer)
    <3>1. s.state = "wait_for_taker" /\ message_queue' = Append(message_queue, Cancel(s.maker))
      BY <2>3 DEF Service!TimeoutUntraded, Cancel
    <3>2. s.maker_transfer_receipt \in Service!TransferReceipt
      <4>1. /\ s.maker \in Nodes
            /\ s.maker_transfer_receipt = ServiceT!Key(s.maker, Offer)
        BY <1>1, <3>1, ServiceT!CollateralReceipts, Assumptions
      <4> QED BY <4>1 DEF ServiceT!Key, Service!TransferReceipt
    <3>3. Unclaimed
      BY <2>3, <3>2 DEF Service!TimeoutUntraded, Unclaimed
    <3> QED BY <1>1, <2>1, <3>1, <3>3, UnclaimedKeepsFees
  <2> QED BY <1>13, <2>2, <2>3 DEF Service!Timeout
<1>14. CASE ServiceSends
  BY <1>4, <1>14 DEF ServiceSends, Service!SendMessage
<1> HIDE DEF FeesKept
<1>15. CASE \E b \in Nodes : DepositArrives(b)
  <2>1. PICK b \in Nodes : DepositArrives(b)
    BY <1>15
  <2> QED BY <1>6, <2>1
<1>16. CASE \E b \in Nodes : /\ Reads(Commitment, b)
                             /\ Service!MakerCommitment(b, Offer) \/ Service!TakerCommitment(b, Offer)
  <2>1. PICK b \in Nodes : /\ Reads(Commitment, b)
                           /\ Service!MakerCommitment(b, Offer) \/ Service!TakerCommitment(b, Offer)
    BY <1>16
  <2> QED BY <1>7, <1>8, <2>1
<1>17. CASE \E rc \in Service!TransferReceipt :
               /\ Service!MakerTransfer(rc) \/ Service!TakerTransfer(rc)
               /\ UNCHANGED <<makerVars, takerVars, topic, read>>
  <2>1. PICK rc \in Service!TransferReceipt :
               /\ Service!MakerTransfer(rc) \/ Service!TakerTransfer(rc)
               /\ UNCHANGED <<makerVars, takerVars, topic, read>>
    BY <1>17
  <2>2. PICK b \in Nodes : b = rc.initiator
    BY <1>3
  <2>3. Accepts(b)
    BY <1>3, <2>1, <2>2 DEF Accepts
  <2> QED BY <1>9, <1>10, <2>1, <2>2, <2>3
<1>18. CASE \E b \in Nodes : /\ Reads(SwapExecution, b)
                             /\ Service!FirstExecution(b, Offer) \/ Service!SecondExecution(b, Offer)
  <2>1. PICK b \in Nodes : /\ Reads(SwapExecution, b)
                           /\ Service!FirstExecution(b, Offer) \/ Service!SecondExecution(b, Offer)
    BY <1>18
  <2> QED BY <1>11, <1>12, <2>1
<1> QED BY <1>5, <1>13, <1>14, <1>15, <1>16, <1>17, <1>18, ServiceCases

-----------------------------------------------------------------------------
(* The messages of the service on their way.                               *)

\* The messages the service queues.
LEMMA QueuedLetters ==
    /\ \A b \in Nodes : Proof(b) \in ServiceT!Message
    /\ \A b \in Nodes \cup {None} : Cancel(b) \in ServiceT!Message
    /\ Service!OfferTaken(Offer) \in ServiceT!Message
    /\ Service!SwapCompleted(Offer) \in ServiceT!Message
    /\ \A a : /\ Service!OfferTaken(Offer) \notin {Proof(a), Cancel(a)}
              /\ Service!SwapCompleted(Offer) \notin {Proof(a), Cancel(a)}
    /\ \A a \in Nodes : \A m \in ServiceT!Message : m.recipient = a => m \in Inbox(a)
    /\ \A a, b : a # b => Proof(a) # Proof(b) /\ Cancel(a) # Cancel(b)
<1>1. /\ \A b \in Nodes : Proof(b) \in ServiceT!Message
      /\ \A b \in Nodes \cup {None} : Cancel(b) \in ServiceT!Message
      /\ Service!OfferTaken(Offer) \in ServiceT!Message
      /\ Service!SwapCompleted(Offer) \in ServiceT!Message
  BY DEF Proof, Cancel, Service!CommitmentProof, Service!CancellationProof, Service!OfferTaken,
         Service!SwapCompleted, ServiceT!Message, ServiceT!MessageTypes
<1>2. /\ Service!OfferTaken(Offer).type = "OfferTaken"
      /\ Service!SwapCompleted(Offer).type = "SwapCompleted"
  BY DEF Service!OfferTaken, Service!SwapCompleted
<1>3. \A a \in Nodes : \A m \in ServiceT!Message : m.recipient = a => m \in Inbox(a)
  BY DEF ServiceT!Message, Inbox
<1> QED BY <1>1, <1>2, <1>3, Letters

\* A message the service sends moves from its queue to the topic of its recipient.
LEMMA Sending ==
    ASSUME ServiceT!TypeOK, NEW a \in Nodes, Delivery(a), ServiceSends
    PROVE  /\ Items(message_queue) = Items(message_queue') \cup {Head(message_queue)}
           /\ \A p, c : Follows(message_queue, p, c) =>
                  /\ Head(message_queue) # c
                  /\ Head(message_queue) = p \/ Follows(message_queue', p, c)
           /\ topic'[a] \in Seq(Inbox(a)) /\ a \in DOMAIN topic'
           /\ \/ /\ Head(message_queue).recipient # a
                 /\ topic'[a] = topic[a]
              \/ /\ Head(message_queue).recipient = a
                 /\ Items(topic'[a]) = Items(topic[a]) \cup {Head(message_queue)}
                 /\ \A p, c : Follows(topic[a], p, c)
                              /\ (Head(message_queue) # c \/ p \in Items(topic[a])) =>
                                   Follows(topic'[a], p, c)
<1> DEFINE h == Head(message_queue)
<1>1. message_queue \in Seq(ServiceT!Message) /\ message_queue # <<>>
      /\ message_queue' = Tail(message_queue)
  BY DEF ServiceT!TypeOK, ServiceSends, Service!SendMessage
<1>2. /\ h \in ServiceT!Message
      /\ Items(message_queue) = Items(message_queue') \cup {h}
      /\ \A p, c : Follows(message_queue, p, c) => h # c /\ (h = p \/ Follows(message_queue', p, c))
  BY <1>1, Popped
<1>3. topic' = [b \in Nodes |-> IF h.recipient = b THEN Append(topic[b], h) ELSE topic[b]]
  BY DEF ServiceSends
<1>4. topic[a] \in Seq(Inbox(a)) /\ a \in DOMAIN topic'
      /\ topic'[a] = IF h.recipient = a THEN Append(topic[a], h) ELSE topic[a]
  BY <1>3 DEF Delivery
<1> HIDE DEF h
<1>5. CASE h.recipient # a
  BY <1>2, <1>4, <1>5 DEF h
<1>6. CASE h.recipient = a
  <2>1. h \in Inbox(a) /\ topic'[a] = Append(topic[a], h)
    BY <1>2, <1>4, <1>6, QueuedLetters
  <2>2. /\ topic'[a] \in Seq(Inbox(a)) /\ Items(topic'[a]) = Items(topic[a]) \cup {h}
        /\ \A p, c : Follows(topic[a], p, c) /\ (h # c \/ p \in Items(topic[a])) =>
               Follows(topic'[a], p, c)
    BY <1>4, <2>1, Appended
  <2> QED BY <1>2, <1>4, <1>6, <2>2 DEF h
<1> QED BY <1>5, <1>6

\* What the queue of the service holds after a step that is not a sending.
LEMMA Queueing ==
    ASSUME XInv, [Next]_vars, ~ ServiceSends, NEW a \in Nodes
    PROVE  /\ Items(message_queue) \subseteq Items(message_queue')
           /\ Proof(a) \in Items(message_queue') =>
                  \/ Proof(a) \in Items(message_queue)
                  \/ Accepts(a) /\ Party(a) /\ deposits[Receipt(a)] > 0
           /\ Follows(message_queue, Proof(a), Cancel(a)) =>
                  \/ Follows(message_queue', Proof(a), Cancel(a))
                  \/ /\ swaps[Offer].state = "wait_for_taker" /\ a = swaps[Offer].maker
                     /\ Proof(a) \notin Items(message_queue)
<1>1. message_queue \in Seq(ServiceT!Message) /\ swaps[Offer].maker \in Nodes \cup {None}
  BY DEF XInv, Processes, ServiceT!RInv, ServiceT!IInv, ServiceT!TypeOK, ServiceT!SwapCommitment
<1>2. ASSUME NEW m \in ServiceT!Message, message_queue' = Append(message_queue, m)
      PROVE  /\ Items(message_queue') = Items(message_queue) \cup {m}
             /\ \A p, c : Follows(message_queue, p, c) /\ (m # c \/ p \in Items(message_queue)) =>
                    Follows(message_queue', p, c)
  BY <1>1, <1>2, Appended
<1>3. CASE message_queue' = message_queue
  BY <1>3
<1>4. ASSUME NEW b \in Nodes, Party(b), deposits[Receipt(b)] > 0,
             message_queue' = Append(message_queue, Proof(b))
      PROVE  /\ Items(message_queue') = Items(message_queue) \cup {Proof(b)}
             /\ Follows(message_queue, Proof(a), Cancel(a)) =>
                    Follows(message_queue', Proof(a), Cancel(a))
  BY <1>2, <1>4, QueuedLetters, Letters
<1>5. ASSUME NEW b \in Nodes, Party(b), deposits[Receipt(b)] > 0,
             message_queue' = Append(Append(message_queue, Service!OfferTaken(Offer)), Proof(b))
      PROVE  /\ Items(message_queue') =
                   Items(message_queue) \cup {Service!OfferTaken(Offer), Proof(b)}
             /\ Follows(message_queue, Proof(a), Cancel(a)) =>
                    Follows(message_queue', Proof(a), Cancel(a))
  <2>1. PICK q : q = Append(message_queue, Service!OfferTaken(Offer))
    OBVIOUS
  <2>2. /\ q \in Seq(ServiceT!Message)
        /\ Items(q) = Items(message_queue) \cup {Service!OfferTaken(Offer)}
        /\ Follows(message_queue, Proof(a), Cancel(a)) => Follows(q, Proof(a), Cancel(a))
    BY <1>1, <2>1, Appended, QueuedLetters
  <2>3. /\ Items(message_queue') = Items(q) \cup {Proof(b)}
        /\ Follows(q, Proof(a), Cancel(a)) => Follows(message_queue', Proof(a), Cancel(a))
    <3>1. message_queue' = Append(q, Proof(b)) /\ Proof(b) \in ServiceT!Message
      BY <1>5, <2>1, QueuedLetters
    <3>2. Proof(b) # Cancel(a)
      BY Letters
    <3> QED BY <2>2, <3>1, <3>2, Appended
  <2> QED BY <2>2, <2>3
<1>6. ASSUME message_queue' = Append(message_queue, Service!SwapCompleted(Offer))
      PROVE  /\ Items(message_queue') = Items(message_queue) \cup {Service!SwapCompleted(Offer)}
             /\ Follows(message_queue, Proof(a), Cancel(a)) =>
                    Follows(message_queue', Proof(a), Cancel(a))
  BY <1>2, <1>6, QueuedLetters
<1>7. ASSUME swaps[Offer].state = "wait_for_taker",
             message_queue' = Append(message_queue, Cancel(swaps[Offer].maker))
      PROVE  /\ Items(message_queue') = Items(message_queue) \cup {Cancel(swaps[Offer].maker)}
             /\ Follows(message_queue, Proof(a), Cancel(a)) =>
                    \/ Follows(message_queue', Proof(a), Cancel(a))
                    \/ a = swaps[Offer].maker /\ Proof(a) \notin Items(message_queue)
  <2>1. Cancel(swaps[Offer].maker) \in ServiceT!Message
    BY <1>1, QueuedLetters
  <2> QED BY <1>2, <1>7, <2>1, QueuedLetters
<1>8. \/ message_queue' = message_queue
      \/ \E b \in Nodes :
            /\ Accepts(b) /\ Party(b) /\ deposits[Receipt(b)] > 0
            /\ \/ message_queue' = Append(message_queue, Proof(b))
               \/ message_queue' =
                     Append(Append(message_queue, Service!OfferTaken(Offer)), Proof(b))
      \/ message_queue' = Append(message_queue, Service!SwapCompleted(Offer))
      \/ /\ swaps[Offer].state = "wait_for_taker"
         /\ message_queue' = Append(message_queue, Cancel(swaps[Offer].maker))
  BY Effects
<1>9. CASE \E b \in Nodes :
              /\ Accepts(b) /\ Party(b) /\ deposits[Receipt(b)] > 0
              /\ \/ message_queue' = Append(message_queue, Proof(b))
                 \/ message_queue' =
                       Append(Append(message_queue, Service!OfferTaken(Offer)), Proof(b))
  <2>1. PICK b \in Nodes :
              /\ Accepts(b) /\ Party(b) /\ deposits[Receipt(b)] > 0
              /\ \/ message_queue' = Append(message_queue, Proof(b))
                 \/ message_queue' =
                       Append(Append(message_queue, Service!OfferTaken(Offer)), Proof(b))
    BY <1>9
  <2>2. /\ Items(message_queue) \subseteq Items(message_queue')
        /\ Items(message_queue') \subseteq
              Items(message_queue) \cup {Service!OfferTaken(Offer), Proof(b)}
        /\ Follows(message_queue, Proof(a), Cancel(a)) =>
               Follows(message_queue', Proof(a), Cancel(a))
    BY <1>4, <1>5, <2>1
  <2>3. Proof(a) = Proof(b) => a = b
    BY QueuedLetters
  <2> QED BY <2>1, <2>2, <2>3, QueuedLetters
<1>10. CASE message_queue' = Append(message_queue, Service!SwapCompleted(Offer))
  BY <1>6, <1>10, QueuedLetters
<1>11. CASE /\ swaps[Offer].state = "wait_for_taker"
            /\ message_queue' = Append(message_queue, Cancel(swaps[Offer].maker))
  BY <1>7, <1>11, Letters
<1> QED BY <1>3, <1>8, <1>9, <1>10, <1>11

-----------------------------------------------------------------------------
(* Every step keeps what holds between the processes.                      *)

\* What was read was sent, and topics hold messages for their nodes.
LEMMA DeliveryStep ==
    ASSUME XInv, [Next]_vars, NEW a \in Nodes
    PROVE  Delivery(a)'
<1>1. Delivery(a) /\ ServiceT!TypeOK
  BY DEF XInv, Between, Processes, ServiceT!RInv, ServiceT!IInv
<1>2. a \in DOMAIN topic' /\ topic'[a] \in Seq(Inbox(a))
  <2>1. CASE topic' = topic
    BY <1>1, <2>1 DEF Delivery
  <2>2. CASE ServiceSends
    BY <1>1, <2>2, Sending
  <2>3. ASSUME NEW b \in Nodes, NEW type, Delivers(b, type)
        PROVE  a \in DOMAIN topic' /\ topic'[a] \in Seq(Inbox(a))
    <3>1. Delivery(b)
      BY DEF XInv, Between
    <3> QED BY <1>1, <2>3, <3>1, Delivered DEF Delivery
  <2> QED BY <2>1, <2>2, <2>3, BrokerCases
<1>3. ASSUME NEW x \in read', x.sender = a PROVE x.message \in Sent(a)'
  <2>1. CASE x \in read
    BY <1>1, <1>3, <2>1, Stays DEF Delivery
  <2>2. CASE x \notin read
    <3>1. PICK m, b : Reads(m, b)
      <4>1. (\E b \in Nodes : ServiceReads(b)) \/ (MakerReads /\ UNCHANGED read)
            \/ Reads(ProvenOffer(MakerNode), TakerNode)
        BY <2>2 DEF Next, vars, MakerHandsOn, TakerHandsOn, MakerStep, TakerStep, ServiceStep,
               DepositArrives, MakerIsPaid, TakerIsPaid, ServiceSends, MakerReads, TakerReads
      <4>2. ASSUME NEW b, ServiceReads(b) PROVE (\E m : Reads(m, b)) \/ UNCHANGED read
        BY <4>2 DEF ServiceReads
      <4> QED BY <2>2, <4>1, <4>2
    <3>2. x = Signed(m, b)
      BY <2>2, <3>1 DEF Reads
    <3>3. x.sender = b /\ x.message = m
      BY <3>2 DEF Signed
    <3> QED BY <1>3, <3>1, <3>3, Stays DEF Reads
  <2> QED BY <2>1, <2>2
<1> QED BY <1>2, <1>3 DEF Delivery

\* A proof on its way stays on it until it is heard, and a new one is for a node that has
\* committed and deposited.
LEMMA ToldStep ==
    ASSUME XInv, [Next]_vars, NEW a \in Nodes
    PROVE  /\ Told(a) => Told(a)'
           /\ Told(a)' => Told(a) \/ (Accepts(a) /\ Party(a) /\ deposits[Receipt(a)] > 0)
<1>1. Delivery(a) /\ ServiceT!TypeOK
  BY DEF XInv, Between, Processes, ServiceT!RInv, ServiceT!IInv
<1>2. HeardProof(a) => HeardProof(a)'
  BY Stays DEF HeardProof, Heard
<1>3. CASE ServiceSends
  <2>1. HeardProof(a)' <=> HeardProof(a)
    BY <1>3 DEF ServiceSends, HeardProof, Heard, makerVars, takerVars
  <2>2. Proof(a).recipient = a
    BY Letters
  <2>3. Proof(a) \in Items(message_queue') \cup Items(topic'[a])
          <=> Proof(a) \in Items(message_queue) \cup Items(topic[a])
    BY <1>1, <1>3, <2>2, Sending
  <2> QED BY <2>1, <2>3 DEF Told, Proof
<1>4. ASSUME topic' = topic, HeardProof(a)' <=> HeardProof(a), ~ ServiceSends
      PROVE  /\ Told(a) => Told(a)'
             /\ Told(a)' => Told(a) \/ (Accepts(a) /\ Party(a) /\ deposits[Receipt(a)] > 0)
  BY <1>4, Queueing DEF Told, Proof
<1>5. ASSUME NEW b \in Nodes, UNCHANGED serviceVars, NEW type, Delivers(b, type),
             type = "CommitmentProof" => HeardProof(b)',
             a # b \/ type # "CommitmentProof" => (HeardProof(a)' <=> HeardProof(a))
      PROVE  /\ Told(a) => Told(a)'
             /\ Told(a)' => Told(a)
  <2>1. Delivery(b) /\ message_queue' = message_queue
    BY <1>5 DEF XInv, Between, serviceVars
  <2>2. CASE a # b
    <3>1. topic'[a] = topic[a]
      BY <1>1, <1>5, <2>1, <2>2, Delivered DEF Delivery
    <3> QED BY <1>5, <2>1, <2>2, <3>1 DEF Told, Proof
  <2>3. CASE a = b
    <3>1. /\ Head(topic[a]).type = type
          /\ type = "CommitmentProof" => Head(topic[a]) = Proof(a)
          /\ Items(topic[a]) = Items(topic'[a]) \cup {Head(topic[a])}
      BY <1>5, <2>1, <2>3, Delivered
    <3>2. CASE type = "CommitmentProof"
      BY <1>5, <2>3, <3>1, <3>2 DEF Told, Proof
    <3>3. CASE type # "CommitmentProof"
      <4>1. Head(topic[a]) # Proof(a)
        BY <3>1, <3>3, Letters
      <4> QED BY <1>5, <2>1, <3>1, <3>3, <4>1 DEF Told, Proof
    <3> QED BY <3>2, <3>3
  <2> QED BY <2>2, <2>3
<1>6. ASSUME NEW b \in Nodes, UNCHANGED serviceVars,
             \A c \in Nodes \ {b} : Heard(c)' = Heard(c),
             Delivers(b, "CommitmentProof"), Heard(b)' = Heard(b) \cup {<<"proof", Offer>>}
      PROVE  /\ Told(a) => Told(a)'
             /\ Told(a)' => Told(a)
  <2>1. HeardProof(b)' /\ (a # b => (HeardProof(a)' <=> HeardProof(a)))
    BY <1>6 DEF HeardProof
  <2> QED BY <1>5, <1>6, <2>1
<1>7. ASSUME NEW b \in Nodes, UNCHANGED serviceVars,
             \A c \in Nodes \ {b} : Heard(c)' = Heard(c),
             Delivers(b, "CancellationProof"), Heard(b)' = Heard(b) \cup {<<"cancellation", Offer>>}
      PROVE  /\ Told(a) => Told(a)'
             /\ Told(a)' => Told(a)
  <2>1. HeardProof(a)' <=> HeardProof(a)
    BY <1>7 DEF HeardProof
  <2> QED BY <1>5, <1>7, <2>1
<1> QED BY <1>3, <1>4, <1>6, <1>7, BrokerCases

\* The word of the service stays what the nodes have done.
LEMMA WordStep ==
    ASSUME XInv, [Next]_vars, NEW a \in Nodes
    PROVE  Word(a)'
<1>1. Word(a) /\ ServiceT!TypeOK
  BY DEF XInv, Between, Processes, ServiceT!RInv, ServiceT!IInv
<1>2. Receipt(a) \in DOMAIN deposits /\ deposits \in [ServiceT!TransferReceipt -> Nat]
  <2>1. Receipt(a) \in ServiceT!TransferReceipt
    BY DEF Receipt, ServiceT!TransferReceipt
  <2> QED BY <1>1, <2>1 DEF ServiceT!TypeOK
<1>3. \A b, c : Receipt(b) = Receipt(c) => b = c
  <2>1. \A b : Receipt(b).initiator = b
    BY DEF Receipt
  <2> QED BY <2>1
<1>4. Party(a)' => Signed(Commitment, a) \in read'
  <2>1. Party(a) => Signed(Commitment, a) \in read'
    BY <1>1, Stays DEF Word
  <2>2. ASSUME swaps' = swaps PROVE Party(a)' <=> Party(a)
    BY <2>2 DEF Party
  <2>3. PICK s, t : s = swaps[Offer] /\ t = swaps'[Offer]
    OBVIOUS
  <2>4. /\ Party(a) <=> a = s.maker \/ a \in s.taker_commitment_pool
        /\ Party(a)' <=> a = t.maker \/ a \in t.taker_commitment_pool
    BY <2>3 DEF Party
  <2>5. \/ swaps' = swaps
        \/ \E b \in Nodes :
              /\ Signed(Commitment, b) \in read'
              /\ \/ t.maker = b /\ t.taker_commitment_pool = {}
                 \/ /\ t.maker = s.maker
                    /\ t.taker_commitment_pool = s.taker_commitment_pool \cup {b}
        \/ t.maker = s.maker /\ t.taker_commitment_pool = s.taker_commitment_pool
        \/ t.maker = None /\ t.taker_commitment_pool = {}
    BY <2>3, Effects
  <2>6. a # None
    BY NodesAssumption
  <2> QED BY <2>1, <2>2, <2>4, <2>5, <2>6
<1>5. deposits'[Receipt(a)] > 0 => TransfersOf(a)'[Deposit] > 0
  <2>1. \/ UNCHANGED deposits
        \/ \E b \in Nodes : /\ TransfersOf(b)[Deposit] > 0
                            /\ deposits' = [deposits EXCEPT ![Receipt(b)] = Amount]
    BY Effects
  <2>2. deposits'[Receipt(a)] > 0 => deposits[Receipt(a)] > 0 \/ TransfersOf(a)[Deposit] > 0
    BY <1>2, <1>3, <2>1
  <2> QED BY <1>1, <2>2, Stays DEF Word
<1>6. deposits[Receipt(a)] > 0 => deposits'[Receipt(a)] > 0
  <2>1. UNCHANGED deposits \/ \E b \in Nodes : deposits' = [deposits EXCEPT ![Receipt(b)] = Amount]
    BY Effects
  <2>2. Amount > 0
    BY DepositAssumption
  <2> QED BY <1>2, <1>3, <2>1, <2>2
<1>7. Told(a)' => Signed(Commitment, a) \in read' /\ deposits'[Receipt(a)] > 0
  BY <1>1, <1>6, ToldStep, Stays DEF Word
<1> QED BY <1>4, <1>5, <1>7 DEF Word, Receipt, Signed, Commitment, Deposit, Maker!Message, Maker!Deposit

\* A cancellation stays behind the proof.
LEMMA OrderStep ==
    ASSUME XInv, [Next]_vars, NEW a \in Nodes
    PROVE  Order(a)'
<1>1. Delivery(a) /\ Word(a) /\ Order(a) /\ ServiceT!TypeOK
  BY DEF XInv, Between, Processes, ServiceT!RInv, ServiceT!IInv
<1> DEFINE P == Proof(a)  C == Cancel(a)
<1>2. HeardProof(a) => HeardProof(a)'
  BY Stays DEF HeardProof, Heard
<1>3. P # C /\ P.type = "CommitmentProof" /\ P.recipient = a
      /\ C.type = "CancellationProof" /\ C.recipient = a
  BY Letters
<1> HIDE DEF P, C
<1>4. CASE ServiceSends
  <2>1. /\ HeardProof(a)' <=> HeardProof(a)
        /\ HeardCancellation(a)' <=> HeardCancellation(a)
    BY <1>4 DEF ServiceSends, HeardProof, HeardCancellation, Heard, makerVars, takerVars
  <2>2. HeardProof(a) \/ Follows(topic'[a], P, C)
    <3>1. Head(message_queue) = C => HeardProof(a) \/ P \in Items(topic[a])
      BY <1>1, <1>4, Sending DEF Order, P, C
    <3> QED BY <1>1, <1>4, <3>1, Sending DEF Order, P, C
  <2>3. HeardProof(a) \/ P \in Items(topic'[a]) \/ Follows(message_queue', P, C)
    <3>1. P \in Items(topic[a]) \/ Head(message_queue) = P => P \in Items(topic'[a])
      BY <1>1, <1>3, <1>4, Sending
    <3> QED BY <1>1, <1>4, <3>1, Sending DEF Order, P, C
  <2>4. swaps' = swaps
    BY <1>4 DEF ServiceSends, Service!SendMessage
  <2> QED BY <1>1, <2>1, <2>2, <2>3, <2>4, ToldStep DEF Order, P, C, Proof, Cancel
<1>5. swaps'[Offer].state = "wait_for_taker" /\ a = swaps'[Offer].maker => Told(a)'
  <2>1. PICK s, t : s = swaps[Offer] /\ t = swaps'[Offer]
    OBVIOUS
  <2>2. \/ swaps' = swaps
        \/ t.state # "wait_for_taker"
        \/ t.state = s.state /\ t.maker = s.maker
        \/ message_queue' = Append(message_queue, Proof(t.maker)) /\ t.maker \in Nodes
    BY <2>1, Effects
  <2>3. CASE message_queue' = Append(message_queue, Proof(t.maker)) /\ a = t.maker
    <3>1. Items(message_queue') = Items(message_queue) \cup {P}
      BY <2>3, Appended, QueuedLetters DEF ServiceT!TypeOK, XInv, Processes, ServiceT!RInv,
         ServiceT!IInv, P
    <3> QED BY <3>1 DEF Told, Proof, P
  <2> QED BY <1>1, <2>1, <2>2, <2>3, ToldStep DEF Order
<1>6. HeardProof(a) \/ P \in Items(topic[a])
      \/ (~ ServiceSends => Follows(message_queue', P, C))
  <2>1. ASSUME ~ ServiceSends, swaps[Offer].state = "wait_for_taker", a = swaps[Offer].maker,
               P \notin Items(message_queue)
        PROVE  HeardProof(a) \/ P \in Items(topic[a])
    BY <1>1, <2>1 DEF Order, Told, P
  <2> QED BY <1>1, <2>1, Queueing DEF Order, P, C
<1>7. ASSUME ~ ServiceSends, topic' = topic, HeardProof(a)' <=> HeardProof(a),
             HeardCancellation(a)' <=> HeardCancellation(a)
      PROVE  Order(a)'
  BY <1>1, <1>5, <1>6, <1>7 DEF Order, P, C, Proof, Cancel
<1>8. ASSUME NEW b \in Nodes, UNCHANGED serviceVars,
             \A c \in Nodes \ {b} : Heard(c)' = Heard(c),
             \/ /\ Delivers(b, "CommitmentProof")
                /\ Heard(b)' = Heard(b) \cup {<<"proof", Offer>>}
             \/ /\ Delivers(b, "CancellationProof")
                /\ Heard(b)' = Heard(b) \cup {<<"cancellation", Offer>>}
      PROVE  Order(a)'
  <2>1. message_queue' = message_queue
    BY <1>8 DEF serviceVars
  <2>2. Delivery(b)
    BY DEF XInv, Between
  <2>3. CASE a # b
    <3>1. topic'[a] = topic[a]
      BY <1>1, <1>8, <2>2, <2>3, Delivered DEF Delivery
    <3>2. /\ HeardProof(a)' <=> HeardProof(a)
          /\ HeardCancellation(a)' <=> HeardCancellation(a)
      BY <1>8, <2>3 DEF HeardProof, HeardCancellation
    <3> QED BY <1>1, <1>5, <2>1, <3>1, <3>2 DEF Order, P, C, Proof, Cancel
  <2>4. CASE a = b /\ Delivers(b, "CommitmentProof") /\ Heard(b)' = Heard(b) \cup {<<"proof", Offer>>}
    <3>1. HeardProof(a)'
      BY <2>4 DEF HeardProof
    <3> QED BY <1>5, <3>1 DEF Order
  <2>5. CASE a = b /\ Delivers(b, "CancellationProof")
    <3>1. HeardProof(a)
      BY <2>5, GuardsHold DEF XInv
    <3> QED BY <1>2, <1>5, <3>1 DEF Order
  <2> QED BY <1>8, <2>3, <2>4, <2>5
<1> QED BY <1>4, <1>7, <1>8, BrokerCases

\* The fee stays on the word of both nodes.
LEMMA FeesStep ==
    ASSUME XInv, [Next]_vars
    PROVE  Fees'
<1>1. Fees /\ ServiceT!IInv /\ ServiceT!TypeOK
  BY DEF XInv, Between, Processes, ServiceT!RInv, ServiceT!IInv
<1>2. PICK s, t : s = swaps[Offer] /\ t = swaps'[Offer]
  OBVIOUS
<1>3. \A m, b : Signed(m, b) \in read => Signed(m, b) \in read'
  BY Stays
<1>4. CASE /\ t.state = "absent"
           /\ \E b \in Nodes : /\ Signed(SwapExecution, b) \in read'
                               /\ \/ s.state = "wait_for_taker_execution" /\ b = s.taker
                                  \/ s.state = "wait_for_maker_execution" /\ b = s.maker
  <2>1. /\ s.maker \in Nodes /\ s.taker \in Nodes /\ s.maker # s.taker
    BY <1>1, <1>2, <1>4, ServiceT!CollateralReceipts, Assumptions DEF ServiceT!ExecutionStates
  <2>2. Signed(SwapExecution, s.maker) \in read' /\ Signed(SwapExecution, s.taker) \in read'
    BY <1>1, <1>2, <1>3, <1>4 DEF Fees
  <2>3. \A b \in Nodes : Signed(SwapExecution, b) \in read'
    BY <2>1, <2>2 DEF Nodes
  <2> QED BY <1>2, <1>4, <2>3 DEF Fees, Signed, SwapExecution, Maker!Message
<1>5. ASSUME FeesKept,
             \/ UNCHANGED swaps
             \/ t.state \in {"absent", "wait_for_maker", "wait_for_taker", "wait_for_execution"}
             \/ \E b \in Nodes : /\ Signed(SwapExecution, b) \in read'
                                 /\ t.maker = s.maker /\ t.taker = s.taker
                                 /\ \/ t.state = "wait_for_taker_execution" /\ b = s.maker
                                    \/ t.state = "wait_for_maker_execution" /\ b = s.taker
      PROVE  Fees'
  <2>1. \A a \in Nodes : ServiceT!RefundsOf(ServiceT!LessFee(Receipt(a)))' > 0 =>
            \A b \in Nodes : Signed(SwapExecution, b) \in read'
    BY <1>1, <1>3, <1>5 DEF Fees, FeesKept
  <2>2. /\ t.state = "wait_for_taker_execution" => Signed(SwapExecution, t.maker) \in read'
        /\ t.state = "wait_for_maker_execution" => Signed(SwapExecution, t.taker) \in read'
    BY <1>1, <1>2, <1>3, <1>5 DEF Fees
  <2> QED BY <1>2, <2>1, <2>2 DEF Fees, Signed, SwapExecution, Maker!Message
<1> QED BY <1>2, <1>4, <1>5, Effects

\* Payments are seen after they were started.
LEMMA PaymentsStep ==
    ASSUME XInv, [Next]_vars
    PROVE  Payments'
<1>1. Payments
  BY DEF XInv, Between
<1>2. CS # TakerNode /\ CS # MakerNode
  BY NodesAssumption DEF Nodes
<1>3. ASSUME NEW from \in {TakerNode, CS}, MakerIsPaid(from)
      PROVE  Payments'
  <2>1. /\ m_raiden_events' = m_raiden_events \cup {<<from, Offer>>}
        /\ UNCHANGED <<t_raiden_events, t_transfers>>
    BY <1>3 DEF MakerIsPaid, Maker!PollPayment, takerVars
  <2>2. from = TakerNode => t_transfers[PaymentTo(MakerNode)] > 0
    BY <1>2, <1>3, SameNames DEF MakerIsPaid, PaidTo
  <2>3. <<TakerNode, Offer>> \in m_raiden_events' =>
            <<TakerNode, Offer>> \in m_raiden_events \/ from = TakerNode
    BY <2>1
  <2> QED BY <1>1, <2>1, <2>2, <2>3, Stays DEF Payments, PaymentTo, Maker!SwapInit
<1>4. ASSUME NEW from \in {MakerNode, CS}, TakerIsPaid(from)
      PROVE  Payments'
  <2>1. /\ t_raiden_events' = t_raiden_events \cup {<<from, Offer>>}
        /\ UNCHANGED <<m_raiden_events, m_transfers>>
    BY <1>4 DEF TakerIsPaid, Taker!PollPayment, makerVars
  <2>2. from = MakerNode => m_transfers[PaymentTo(TakerNode)] > 0
    BY <1>2, <1>4, SameNames DEF TakerIsPaid, PaidTo
  <2>3. <<MakerNode, Offer>> \in t_raiden_events' =>
            <<MakerNode, Offer>> \in t_raiden_events \/ from = MakerNode
    BY <2>1
  <2> QED BY <1>1, <2>1, <2>2, <2>3, Stays DEF Payments, PaymentTo, Maker!SwapInit
<1>5. CASE UNCHANGED <<m_raiden_events, t_raiden_events>>
  BY <1>1, <1>5, Stays DEF Payments, PaymentTo, Maker!SwapInit
<1>6. CASE MakerHandsOn \/ MakerStep \/ TakerHandsOn \/ TakerStep
  BY <1>5, <1>6, MakerAlone, TakerAlone DEF makerVars, takerVars
<1>7. ASSUME NEW a, ServiceStep \/ DepositArrives(a) \/ ServiceReads(a) \/ ServiceSends
                    \/ MakerReads \/ TakerReads \/ UNCHANGED vars
      PROVE  UNCHANGED <<m_raiden_events, t_raiden_events>>
  BY <1>7 DEF ServiceStep, DepositArrives, ServiceReads, ServiceSends, MakerReads, TakerReads,
         Maker!Hear, Maker!HearOwnOffer, Maker!HearTaker, Maker!outside, Taker!Hear,
         Taker!HearOffer, makerVars, takerVars, vars
<1> QED BY <1>3, <1>4, <1>5, <1>6, <1>7 DEF Next

\* The maker hears of the taker only by the taker's message.
LEMMA CalledStep ==
    ASSUME XInv, [Next]_vars
    PROVE  Called'
<1> DEFINE call == MakerT!TakerCall(Offer, TakerNode)
           word == Signed(ProvenOffer(MakerNode), TakerNode)
<1>1. /\ MakerT!IInv /\ MakerT!QueueTypes /\ MakerT!Linked /\ [MakerT!Next]_(MakerT!vars)
      /\ (call \in MakerT!In(m_state_changes) \/ m_offers[Offer] \in MakerT!Exchanged
             => word \in read)
  BY ProcessesStep DEF XInv, Between, Called, Processes, MakerT!IInv
<1>2. read \subseteq read'
  BY Stays
<1>3. ASSUME call \notin MakerT!In(m_state_changes), call \in MakerT!In(m_state_changes')
      PROVE  word \in read'
  <2>1. call.type = "TakerCall" /\ \A o : call # MakerT!CommitmentProof(o)
    BY DEF MakerT!TakerCall, MakerT!CommitmentProof
  <2>2. PICK o \in {Offer}, p \in {TakerNode} : MakerT!HearTaker(o, p)
    BY <1>1, <1>3, <2>1, MakerT!Arrives, Assumptions
  <2>3. ~ (m_taker_listeners \subseteq m_taker_listeners')
    BY <2>2 DEF MakerT!HearTaker
  <2>4. ASSUME MakerHandsOn \/ MakerStep
        PROVE  m_taker_listeners \subseteq m_taker_listeners'
    <3>1. ASSUME Maker!HandleStateChange
          PROVE  UNCHANGED m_taker_listeners
      BY <3>1
         DEF Maker!HandleStateChange, Maker!Done, Maker!Raise, Maker!HandleNewLimitOrder,
             Maker!HandleNewLimitOrderRaises, Maker!HandleCancelLimitOrder,
             Maker!HandleCancelClosedOrder, Maker!HandleOfferTimeout,
             Maker!HandleOfferTimeoutRaises, Maker!HandleEntryTimeout,
             Maker!HandleOwnOfferPublished, Maker!HandleOwnOfferPublishedRaises,
             Maker!HandleOfferPublished, Maker!HandleMakerProof, Maker!HandleTakerProof,
             Maker!HandleProofRaises, Maker!HandleCancellationProof,
             Maker!HandleCancellationProofRaises, Maker!HandleTakerCall,
             Maker!HandleTakerCallRaises, Maker!HandleInbound, Maker!HandleRefund,
             Maker!HandleMakeChannel
    <3> QED BY <2>4, <3>1 DEF MakerStep, Maker!TransportSend, Maker!TimerFires, Maker!PlaceOrder,
               MakerHandsOn, Maker!CsClient, Maker!ClientCommit, Maker!ClientWaitForTaker,
               Maker!ClientReceivedInbound, Maker!ClientCancellation, Maker!StartTransfer,
               Maker!RaidenListener, Maker!ListenerExpect, Maker!ListenerPayment
  <2>5. ASSUME NEW from, MakerIsPaid(from) PROVE UNCHANGED m_taker_listeners
    BY <2>5 DEF MakerIsPaid, Maker!PollPayment
  <2>6. MakerReads
    BY <2>3, <2>4, <2>5 DEF Next, vars, makerVars, TakerHandsOn, TakerStep, ServiceStep,
       DepositArrives, ServiceReads, TakerIsPaid, ServiceSends, TakerReads
  <2>7. Reads(ProvenOffer(MakerNode), TakerNode)
    BY <2>3, <2>6 DEF MakerReads, Maker!Hear, Maker!HearOwnOffer
  <2> QED BY <2>7 DEF Reads
<1>4. ASSUME m_offers[Offer] \notin MakerT!Exchanged, m_offers'[Offer] \in MakerT!Exchanged
      PROVE  word \in read'
  <2>1. call \in MakerT!In(m_state_changes)
    BY <1>1, <1>4, MakerT!OwnExchange, Assumptions
  <2> QED BY <1>1, <1>2, <2>1
<1>5. call \in MakerT!In(m_state_changes') \/ m_offers'[Offer] \in MakerT!Exchanged =>
          word \in read'
  BY <1>1, <1>2, <1>3, <1>4
<1> QED BY <1>5 DEF Called, Signed, ProvenOffer, Maker!Message, MakerT!TakerCall, MakerT!In

-----------------------------------------------------------------------------
(* The invariant.                                                          *)

\* It holds at the start.
LEMMA XInvInit == Init => XInv
<1> SUFFICES ASSUME Init PROVE XInv
  OBVIOUS
<1>1. Service!Init /\ Maker!Init /\ Taker!Init
  BY DEF Init
<1>2. ServiceT!RInv
  <2>1. ServiceT!Init
    BY <1>1, ServiceIsService
  <2>2. ServiceT!IInv
    BY <2>1, ServiceT!InvInit, Assumptions
  <2>3. ServiceT!NoEarlyReceipt
    BY <2>1, ServiceT!ReceiptsInit, Assumptions
  <2> QED BY <2>2, <2>3 DEF ServiceT!RInv
<1>3. MakerT!IInv /\ MakerT!Linked
  BY <1>1, MakerIsNode, MakerT!IInvInit, MakerT!LinksInit, Assumptions
<1>4. TakerT!IInv /\ TakerT!Linked
  BY <1>1, TakerIsNode, TakerT!IInvInit, TakerT!LinksInit, Assumptions
<1>5. ASSUME NEW a \in Nodes
      PROVE  Delivery(a) /\ Word(a) /\ Order(a)
  <2>1. topic[a] = <<>> /\ a \in DOMAIN topic /\ message_queue = <<>> /\ read = {} /\ Heard(a) = {}
    BY <1>1 DEF Init, Service!Init, Maker!Init, Taker!Init, Heard
  <2>2. Items(topic[a]) = {} /\ Items(message_queue) = {}
    BY <2>1 DEF Items
  <2>3. swaps[Offer] = Service!Absent
    BY <1>1 DEF Service!Init
  <2>4. ~ Party(a) /\ swaps[Offer].state = "absent"
    BY <2>3, NodesAssumption DEF Party, Service!Absent
  <2>5. deposits[Receipt(a)] = 0
    BY <1>1 DEF Service!Init, Service!TransferReceipt, Receipt
  <2>6. ~ HeardProof(a) /\ ~ HeardCancellation(a) /\ ~ Told(a)
    BY <2>1, <2>2 DEF HeardProof, HeardCancellation, Told
  <2>7. /\ Follows(topic[a], Proof(a), Cancel(a))
        /\ Follows(message_queue, Proof(a), Cancel(a))
    BY <2>2, NothingFollows
  <2>8. Delivery(a)
    BY <2>1 DEF Delivery
  <2>9. Word(a)
    BY <2>4, <2>5, <2>6 DEF Word
  <2> QED BY <2>4, <2>6, <2>7, <2>8, <2>9 DEF Order
<1>6. Fees
  <2>1. swaps[Offer].state = "absent"
    BY <1>1 DEF Service!Init, Service!Absent
  <2>2. ASSUME NEW a \in Nodes PROVE ServiceT!RefundsOf(ServiceT!LessFee(Receipt(a))) = 0
    BY <1>1 DEF Service!Init, Service!Refund, Service!TransferReceipt, ServiceT!RefundsOf,
       ServiceT!LessFee, Receipt
  <2> QED BY <2>1, <2>2 DEF Fees
<1>7. Payments /\ Called
  <2>1. /\ m_raiden_events = {} /\ t_raiden_events = {} /\ m_state_changes = <<>>
        /\ m_offers[Offer] = "absent"
    BY <1>1 DEF Maker!Init, Taker!Init, Maker!Ids
  <2> QED BY <2>1 DEF Payments, Called, MakerT!In, MakerT!Exchanged, MakerT!Pending
<1> QED BY <1>2, <1>3, <1>4, <1>5, <1>6, <1>7 DEF XInv, Processes, Between

\* The processes keep their invariants, and what holds between them holds, in every state
\* the system can reach.
THEOREM SystemInvariant == Spec => []XInv
<1>1. XInv /\ [Next]_vars => XInv'
  <2> SUFFICES ASSUME XInv, [Next]_vars PROVE XInv'
    OBVIOUS
  <2>1. \A a \in Nodes : Delivery(a)' /\ Word(a)' /\ Order(a)'
    BY DeliveryStep, WordStep, OrderStep
  <2>2. Between'
    BY <2>1, FeesStep, PaymentsStep, CalledStep DEF Between, Nodes
  <2> QED BY <2>2, ProcessesStep DEF XInv
<1> QED BY <1>1, XInvInit, PTL DEF Spec

-----------------------------------------------------------------------------
(* The properties.                                                         *)

\* What was read of a node, the node has sent.
LEMMA WhatIsRead ==
    ASSUME XInv, NEW a \in Nodes, NEW m, Signed(m, a) \in read
    PROVE  m \in Sent(a)
<1>1. Signed(m, a).sender = a /\ Signed(m, a).message = m
  BY DEF Signed
<1> QED BY <1>1 DEF XInv, Between, Delivery

\* The service is what each node takes it for: the guards under which RaidexNode lets a
\* proof and a cancellation arrive hold whenever the service has sent them.
THEOREM NodesFitTheService == Spec => []NodesFit
<1>1. XInv => NodesFit
  <2> SUFFICES ASSUME XInv PROVE NodesFit
    OBVIOUS
  <2>1. ASSUME NEW a \in Nodes PROVE Fits(Heard(a), Sent(a), TransfersOf(a))
    <3>1. Word(a) /\ Order(a)
      BY DEF XInv, Between
    <3>2. HeardProof(a) => Commitment \in Sent(a) /\ TransfersOf(a)[Deposit] > 0
      BY <3>1, WhatIsRead DEF Word, Told
    <3>3. HeardCancellation(a) => HeardProof(a)
      BY <3>1 DEF Order
    <3> QED BY <3>2, <3>3 DEF Fits, HeardProof, HeardCancellation
  <2> QED BY <2>1, SameNames DEF NodesFit
<1> QED BY <1>1, SystemInvariant, PTL

\* Each process of the system runs as it does alone, so that what is proved of the service
\* and of a node holds in the system: the service never sees an input it does not expect,
\* and neither does a node.
THEOREM ComponentsRun == Spec => ServiceT!Spec /\ MakerT!Spec /\ TakerT!Spec
<1>1. Init => ServiceT!Init /\ MakerT!Init /\ TakerT!Init
  BY ServiceIsService, MakerIsNode, TakerIsNode DEF Init
<1>2. XInv /\ [Next]_vars => /\ [ServiceT!Next]_(ServiceT!vars) /\ [MakerT!Next]_(MakerT!vars)
                             /\ [TakerT!Next]_(TakerT!vars)
  BY ProcessesStep
<1> QED BY <1>1, <1>2, SystemInvariant, PTL DEF Spec, ServiceT!Spec, MakerT!Spec, TakerT!Spec

\* A node that has confirmed the swap has received the payment of the other.
LEMMA ConfirmedIsPaid ==
    ASSUME XInv
    PROVE  /\ SwapExecution \in m_sent => <<TakerNode, Offer>> \in m_raiden_events
           /\ SwapExecution \in t_sent => <<MakerNode, Offer>> \in t_raiden_events
<1>1. SwapExecution \in m_sent => <<TakerNode, Offer>> \in m_raiden_events
  <2>1. MakerT!Watch(Offer) /\ MakerT!Progress(Offer)
    BY DEF XInv, Processes, MakerT!IInv, MakerT!Offers, MakerT!Ids
  <2>2. SwapExecution = MakerT!Message("SwapExecution", Offer, CS)
    BY DEF SwapExecution, Maker!Message, MakerT!Message
  <2>3. SwapExecution \in m_sent => m_offers[Offer] \in MakerT!Confirmed /\ MakerT!Paid(Offer)
    BY <2>1, <2>2 DEF MakerT!Watch
  <2>4. m_offers[Offer] \in MakerT!Confirmed => m_matches[Offer] = TakerNode
    BY <2>1 DEF MakerT!Progress, MakerT!Confirmed, MakerT!Exchanged, MakerT!Pending
  <2> QED BY <2>3, <2>4 DEF MakerT!Paid
<1>2. SwapExecution \in t_sent => <<MakerNode, Offer>> \in t_raiden_events
  <2>1. TakerT!Watch(Offer) /\ TakerT!Progress(Offer)
    BY DEF XInv, Processes, TakerT!IInv, TakerT!Offers, TakerT!Ids
  <2>2. SwapExecution = TakerT!Message("SwapExecution", Offer, CS)
    BY DEF SwapExecution, Maker!Message, TakerT!Message
  <2>3. SwapExecution \in t_sent => t_offers[Offer] \in TakerT!Confirmed /\ TakerT!Paid(Offer)
    BY <2>1, <2>2 DEF TakerT!Watch
  <2>4. t_offers[Offer] \in TakerT!Confirmed => t_matches[Offer] = MakerNode
    BY <2>1 DEF TakerT!Progress, TakerT!Confirmed, TakerT!Exchanged, TakerT!Pending
  <2> QED BY <2>3, <2>4 DEF TakerT!Paid
<1> QED BY <1>1, <1>2

\* The refunds of the service under its two names.
LEMMA SameRefunds ==
    ASSUME NEW a
    PROVE  /\ Service!RefundsOf(Service!LessFee(Receipt(a))) = ServiceT!RefundsOf(ServiceT!LessFee(Receipt(a)))
           /\ Service!FateOf(Receipt(a)) = ServiceT!FateOf(Receipt(a))
BY DEF Service!RefundsOf, ServiceT!RefundsOf, Service!LessFee, ServiceT!LessFee, Service!FateOf,
       ServiceT!FateOf, Service!Held, ServiceT!Held, Service!Settled, ServiceT!Settled,
       Service!Due, ServiceT!Due, Service!Full, ServiceT!Full

\* Once a fee is claimed, each node has received the payment of the other.
LEMMA FeeIsEarned == XInv => FeeMeansSwapped
<1> SUFFICES ASSUME XInv, NEW a \in Nodes, Service!RefundsOf(Service!LessFee(Receipt(a))) > 0
             PROVE  <<TakerNode, Offer>> \in m_raiden_events /\ <<MakerNode, Offer>> \in t_raiden_events
  BY DEF FeeMeansSwapped
<1>1. \A b \in Nodes : Signed(SwapExecution, b) \in read
  BY SameRefunds DEF XInv, Between, Fees
<1>2. SwapExecution \in m_sent /\ SwapExecution \in t_sent
  BY <1>1, WhatIsRead, SameNames
<1> QED BY <1>2, ConfirmedIsPaid

\* A fee is claimed only for an exchange that took place, although the service sees no
\* payment of the swap: both nodes have told it, and each of them tells it only after the
\* payment of the other has arrived.
THEOREM FeeOnlyForExchange == Spec => []FeeMeansSwapped
BY FeeIsEarned, SystemInvariant, PTL

\* The nodes agree on the match: the maker is in the exchange only because the taker, in
\* the exchange with this maker, has shown its proof.
THEOREM NodesAgree == Spec => []MatchedTogether
<1>1. XInv => MatchedTogether
  <2> SUFFICES ASSUME XInv, m_offers[Offer] \in InExchange
               PROVE  /\ m_matches[Offer] = TakerNode /\ t_matches[Offer] = MakerNode
                      /\ t_offers[Offer] \in InExchange /\ Offer \in t_proofs
    BY DEF MatchedTogether
  <2>1. InExchange = MakerT!Exchanged /\ InExchange = TakerT!Exchanged
    BY DEF InExchange, Maker!Pending, MakerT!Exchanged, MakerT!Pending, TakerT!Exchanged,
           TakerT!Pending
  <2>2. MakerT!Progress(Offer) /\ TakerT!Progress(Offer) /\ TakerT!Links(Offer)
    BY DEF XInv, Processes, MakerT!IInv, MakerT!Offers, MakerT!Ids, TakerT!IInv, TakerT!Offers,
           TakerT!Ids, TakerT!Linked
  <2>3. m_matches[Offer] = TakerNode
    BY <2>1, <2>2 DEF MakerT!Progress
  <2>4. ProvenOffer(MakerNode) \in t_sent
    BY <2>1, WhatIsRead, SameNames DEF XInv, Between, Called
  <2>5. ProvenOffer(MakerNode) = TakerT!Message("ProvenOffer", Offer, MakerNode)
    BY DEF ProvenOffer, Maker!Message, TakerT!Message
  <2>6. t_offers[Offer] \in TakerT!Exchanged
    BY <2>2, <2>4, <2>5 DEF TakerT!Links
  <2>7. t_matches[Offer] = MakerNode /\ Offer \in t_proofs
    BY <2>2, <2>6 DEF TakerT!Progress
  <2> QED BY <2>1, <2>3, <2>6, <2>7
<1> QED BY <1>1, SystemInvariant, PTL

-----------------------------------------------------------------------------
(* The refinement: two nodes and the service are a secured exchange.       *)

\* The variables of the abstract specification, read off the state.
Deposits == {Receipt(a) : a \in Nodes}
Fate == [rc \in Deposits |-> Service!FateOf(rc)]
Secured == {Receipt(a) : a \in Proved}
PaidFor == {Receipt(a) : a \in HavePaid}

\* The fates of the deposits as the theorems about the service write them.
ServiceFate == [rc \in ServiceT!TransferReceipt |-> ServiceT!FateOf(rc)]

\* The two names of the deposits and of what has become of them.
LEMMA SameDeposits == Deposits = ServiceT!TransferReceipt /\ Fate = ServiceFate
<1>1. \A rc \in ServiceT!TransferReceipt : rc.initiator \in Nodes /\ rc = Receipt(rc.initiator)
  BY DEF ServiceT!TransferReceipt, Receipt
<1>2. \A a \in Nodes : Receipt(a) \in ServiceT!TransferReceipt
  BY DEF ServiceT!TransferReceipt, Receipt
<1>3. Deposits = ServiceT!TransferReceipt
  BY <1>1, <1>2 DEF Deposits
<1>4. \A rc \in Deposits : Service!FateOf(rc) = ServiceT!FateOf(rc)
  BY SameRefunds DEF Deposits
<1> QED BY <1>3, <1>4 DEF Fate, ServiceFate

\* Two names are one deposit only for one node.
LEMMA OneDepositEach == \A a, b : Receipt(a) = Receipt(b) => a = b
<1>1. \A a : Receipt(a).initiator = a
  BY DEF Receipt
<1> QED BY <1>1

\* A step of an escrow of the deposits D that accepts one, and one that moves one it has
\* accepted or does not accept, from the fates f to the fates g.
Accepting(D, f, g, rc) ==
    /\ f[rc] = "outside"
    /\ \A x, y \in {r \in D : r.identifier = rc.identifier /\ f[r] = "security"} : x = y
    /\ g = [r \in D |-> IF r \in {rc} THEN "security" ELSE f[r]]
Moving(D, f, g, rc) ==
    \/ f[rc] = "outside" /\ g = [r \in D |-> IF r \in {rc} THEN "owed" ELSE f[r]]
    \/ f[rc] = "outside" /\ g = [r \in D |-> IF r \in {rc} THEN "kept" ELSE f[r]]
    \/ /\ {r \in D : r.identifier = rc.identifier /\ f[r] = "security"} = {rc}
       /\ g = [r \in D |-> IF r \in {rc} THEN "owed" ELSE f[r]]
    \/ f[rc] = "owed" /\ g = [r \in D |-> IF r \in {rc} THEN "returned" ELSE f[r]]
    \/ f[rc] = "owed_less_fee" /\ g = [r \in D |-> IF r \in {rc} THEN "returned_less_fee" ELSE f[r]]
    \/ f[rc] \in {"owed", "owed_less_fee"} /\ g = [r \in D |-> IF r \in {rc} THEN "kept" ELSE f[r]]
    \/ \E other \in D :
          /\ rc # other
          /\ {r \in D : r.identifier = rc.identifier /\ f[r] = "security"} = {rc, other}
          /\ \E e \in {"owed_less_fee", "kept"} :
                 g = [r \in D |-> IF r \in {rc, other} THEN e ELSE f[r]]

\* The escrow in the service takes such steps.
LEMMA EscrowAccepting ==
    ASSUME NEW rc, ServiceT!Escrow!Accept(rc)
    PROVE  Accepting(Deposits, Fate, Fate', rc)
<1>1. Accepting(ServiceT!TransferReceipt, ServiceFate, ServiceFate', rc)
  BY Zenon DEF ServiceT!Escrow!Accept, ServiceT!Escrow!Securing, ServiceT!Escrow!Become, Accepting,
               ServiceFate
<1>2. (Deposits = ServiceT!TransferReceipt /\ Fate = ServiceFate)'
  BY SameDeposits, PTL
<1> QED BY <1>1, <1>2, SameDeposits, Zenon

\* It moves deposits by such steps.
LEMMA EscrowMoving ==
    ASSUME NEW rc,
           \/ ServiceT!Escrow!Refuse(rc) \/ ServiceT!Escrow!Ignore(rc) \/ ServiceT!Escrow!Release(rc)
           \/ ServiceT!Escrow!PayBack(rc) \/ ServiceT!Escrow!Lose(rc)
           \/ \E other \in ServiceT!TransferReceipt : ServiceT!Escrow!Settle(rc, other)
    PROVE  Moving(Deposits, Fate, Fate', rc)
<1>1. Moving(ServiceT!TransferReceipt, ServiceFate, ServiceFate', rc)
  BY Zenon DEF ServiceT!Escrow!Refuse, ServiceT!Escrow!Ignore, ServiceT!Escrow!Release,
               ServiceT!Escrow!PayBack, ServiceT!Escrow!Lose, ServiceT!Escrow!Settle,
               ServiceT!Escrow!Securing, ServiceT!Escrow!Become, Moving, ServiceFate
<1>2. (Deposits = ServiceT!TransferReceipt /\ Fate = ServiceFate)'
  BY SameDeposits, PTL
<1> QED BY <1>1, <1>2, SameDeposits, Zenon

\* The steps of the abstract specification, from what becomes of its variables: a deposit
\* becomes security,
LEMMA AbstractLock ==
    ASSUME NEW rc \in Deposits, Accepting(Deposits, Fate, Fate', rc),
           Secured' = Secured \cup {rc}, PaidFor' = PaidFor
    PROVE  Abstract!Next
<1>1. Abstract!Lock(rc)
  BY Zenon DEF Abstract!Lock, Abstract!Escrow!Accept, Abstract!Escrow!Securing,
               Abstract!Escrow!Become, Accepting, Deposits, Fate, Secured, PaidFor
<1> QED BY <1>1, Zenon DEF Abstract!Next, Deposits

\* a node pays the other,
LEMMA AbstractPay ==
    ASSUME NEW rc \in Deposits, rc \in Secured \ PaidFor, PaidFor' = PaidFor \cup {rc},
           Fate' = Fate, Secured' = Secured
    PROVE  Abstract!Next
<1>1. Abstract!PaySwap(rc)
  BY Zenon DEF Abstract!PaySwap, Deposits, Fate, Secured, PaidFor
<1> QED BY <1>1, Zenon DEF Abstract!Next, Deposits

\* deposits move, and a fee is taken only when the exchange is done,
LEMMA AbstractMove ==
    ASSUME NEW rc \in Deposits, Moving(Deposits, Fate, Fate', rc),
           \A r \in Deposits : Fate'[r] = "owed_less_fee" => r \in PaidFor,
           Secured' = Secured, PaidFor' = PaidFor
    PROVE  Abstract!Next
<1>1. \/ Abstract!Escrow!Refuse(rc) \/ Abstract!Escrow!Ignore(rc) \/ Abstract!Escrow!Release(rc)
      \/ Abstract!Escrow!PayBack(rc) \/ Abstract!Escrow!Lose(rc)
      \/ \E other \in Deposits : Abstract!Escrow!Settle(rc, other)
  BY Zenon DEF Abstract!Escrow!Refuse, Abstract!Escrow!Ignore, Abstract!Escrow!Release,
               Abstract!Escrow!PayBack, Abstract!Escrow!Lose, Abstract!Escrow!Settle,
               Abstract!Escrow!Securing, Abstract!Escrow!Become, Moving, Fate, Deposits
<1>2. Abstract!Move(rc)
  BY <1>1, Zenon DEF Abstract!Move, Deposits, Fate, Secured, PaidFor
<1> QED BY <1>2, Zenon DEF Abstract!Next, Deposits

\* or nothing happens that it speaks of.
LEMMA AbstractStutter ==
    ASSUME Fate' = Fate, Secured' = Secured, PaidFor' = PaidFor
    PROVE  Abstract!Next
BY Zenon DEF Abstract!Next, Abstract!vars, Deposits, Fate, Secured, PaidFor

\* Who is secured, and who has paid.
LEMMA WhoIs ==
    /\ \A a : a \in Proved <=> a \in Nodes /\ Told(a)
    /\ HavePaid \subseteq Nodes
    /\ MakerNode \in HavePaid <=> m_transfers[PaymentTo(TakerNode)] > 0
    /\ TakerNode \in HavePaid <=> t_transfers[PaymentTo(MakerNode)] > 0
<1>1. \A a : a \in Proved <=> a \in Nodes /\ Told(a)
  BY DEF Proved, Told, HeardProof, Heard, Items, Proof, Maker!Queued
<1>2. Nodes \ {MakerNode} = {TakerNode} /\ Nodes \ {TakerNode} = {MakerNode}
  BY NodesAssumption DEF Nodes
<1>3. HavePaid \subseteq Nodes
  BY DEF HavePaid
<1>4. /\ MakerNode \in HavePaid <=> m_transfers[PaymentTo(TakerNode)] > 0
      /\ TakerNode \in HavePaid <=> t_transfers[PaymentTo(MakerNode)] > 0
  BY <1>2, SameNames DEF HavePaid
<1> QED BY <1>1, <1>3, <1>4

\* Only one process moves, or the service reads a message or a payment of a node.
LEMMA OneMoves ==
    ASSUME [Next]_vars
    PROVE  \/ UNCHANGED <<makerVars, takerVars>>
           \/ UNCHANGED <<serviceVars, makerVars>>
           \/ UNCHANGED <<serviceVars, takerVars>>
BY DEF Next, vars, MakerHandsOn, TakerHandsOn, MakerStep, TakerStep, ServiceStep, DepositArrives,
       ServiceReads, MakerIsPaid, TakerIsPaid, ServiceSends, MakerReads, TakerReads

\* A node that has paid the other was told before that its deposit is accepted.
LEMMA PayerIsTold == XInv => \A x \in HavePaid : Told(x)
<1> SUFFICES ASSUME XInv, NEW a \in HavePaid PROVE Told(a)
  OBVIOUS
<1>1. CASE a = MakerNode
  <2>1. /\ MakerT!SwapOnce(Offer) /\ MakerT!Progress(Offer) /\ MakerT!Links(Offer)
    BY DEF XInv, Processes, MakerT!IInv, MakerT!Offers, MakerT!Ids, MakerT!Linked
  <2>2. PaymentTo(TakerNode) = MakerT!SwapInit(Offer, TakerNode)
    BY DEF PaymentTo, Maker!SwapInit, MakerT!SwapInit
  <2>3. m_offers[Offer] \in MakerT!Exchanged
    BY <1>1, <2>1, <2>2, WhoIs DEF MakerT!SwapOnce
  <2>4. <<"proof", Offer>> \in m_heard
    BY <2>1, <2>3 DEF MakerT!Progress, MakerT!Links
  <2> QED BY <1>1, <2>4, SameNames DEF Told, HeardProof
<1>2. CASE a = TakerNode
  <2>1. /\ TakerT!SwapOnce(Offer) /\ TakerT!Progress(Offer) /\ TakerT!Links(Offer)
    BY DEF XInv, Processes, TakerT!IInv, TakerT!Offers, TakerT!Ids, TakerT!Linked
  <2>2. PaymentTo(MakerNode) = TakerT!SwapInit(Offer, MakerNode)
    BY DEF PaymentTo, Maker!SwapInit, TakerT!SwapInit
  <2>3. t_offers[Offer] \in TakerT!Exchanged
    BY <1>2, <2>1, <2>2, WhoIs DEF TakerT!SwapOnce
  <2>4. <<"proof", Offer>> \in t_heard
    BY <2>1, <2>3 DEF TakerT!Progress, TakerT!Links
  <2> QED BY <1>2, <2>4, SameNames DEF Told, HeardProof
<1> QED BY <1>1, <1>2, WhoIs DEF Nodes

\* What becomes of the deposits when the service does nothing.
LEMMA FateStays ==
    ASSUME UNCHANGED serviceVars
    PROVE  Fate' = Fate
<1>1. \A rc \in Deposits : Service!FateOf(rc)' = Service!FateOf(rc)
  BY DEF serviceVars, Service!FateOf, Service!Held, Service!Settled, Service!Due
<1>2. Deposits' = Deposits
  BY DEF Deposits, Nodes, Receipt
<1> QED BY <1>1, <1>2 DEF Fate

\* A deposit that is owed less the fee was a deposit for an exchange both have paid for.
LEMMA FeeIsPaidFor ==
    XInv => \A r \in Deposits : Fate[r] = "owed_less_fee" => PaidFor = Deposits
<1> SUFFICES ASSUME XInv, NEW rc \in Deposits, Fate[rc] = "owed_less_fee"
             PROVE  PaidFor = Deposits
  OBVIOUS
<1>1. PICK a \in Nodes : rc = Receipt(a)
  BY DEF Deposits
<1>2. Service!Settled(rc) = "owed_less_fee"
  <2>1. Service!FateOf(rc) = "owed_less_fee"
    BY DEF Fate
  <2> QED BY <2>1 DEF Service!FateOf
<1>3. Service!Due(Service!LessFee(rc))
  BY <1>2 DEF Service!Settled
<1>4. Service!RefundsOf(Service!LessFee(rc)) > 0
  <2>1. ServiceT!TypeOK
    BY DEF XInv, Processes, ServiceT!RInv, ServiceT!IInv
  <2>2. PICK r \in ServiceT!Refund : r = Service!LessFee(rc)
    BY <1>1 DEF Service!LessFee, ServiceT!Refund, ServiceT!TransferReceipt, Receipt
  <2> QED BY <1>3, <2>1, <2>2 DEF ServiceT!TypeOK, Service!Due, Service!RefundsOf
<1>5. <<TakerNode, Offer>> \in m_raiden_events /\ <<MakerNode, Offer>> \in t_raiden_events
  BY <1>1, <1>4, FeeIsEarned DEF FeeMeansSwapped
<1>6. m_transfers[PaymentTo(TakerNode)] > 0 /\ t_transfers[PaymentTo(MakerNode)] > 0
  BY <1>5 DEF XInv, Between, Payments
<1>7. HavePaid = Nodes
  BY <1>6, WhoIs DEF Nodes
<1> QED BY <1>7 DEF PaidFor, Deposits

\* The service accepts a deposit only on its own: no other step adds a payment to its list.
LEMMA TransferIsAccepted ==
    ASSUME [Next]_vars, NEW rc \in ServiceT!TransferReceipt,
           ServiceT!MakerTransfer(rc) \/ ServiceT!TakerTransfer(rc)
    PROVE  Accepts(rc.initiator) /\ rc.initiator \in Nodes /\ rc = Receipt(rc.initiator)
<1>1. rc.initiator \in Nodes /\ rc = Receipt(rc.initiator)
  BY DEF ServiceT!TransferReceipt, Receipt
<1>2. Service!MakerTransfer(rc) \/ Service!TakerTransfer(rc)
  BY Zenon DEF ServiceT!MakerTransfer, Service!MakerTransfer, ServiceT!TakerTransfer,
               Service!TakerTransfer, ServiceT!DeliverOnce, Service!DeliverOnce,
               ServiceT!CommitmentProof, Service!CommitmentProof, ServiceT!OfferTaken,
               Service!OfferTaken, ServiceT!refunds, Service!refunds
<1>3. events' # events
  BY <1>2 DEF Service!MakerTransfer, Service!TakerTransfer, Service!DeliverOnce
<1>4. ASSUME NEW a, DepositArrives(a) \/ ServiceReads(a) \/ ServiceSends \/ UNCHANGED serviceVars
      PROVE  events' = events
  BY <1>4 DEF DepositArrives, Service!Pay, ServiceReads, Service!MakerCommitment,
         Service!TakerCommitment, Service!UnexpectedCommitment, Service!FirstExecution,
         Service!SecondExecution, Service!IgnoredExecution, Service!UnreadExecution,
         Service!UnexpectedExecution, Service!Timeout, Service!TimeoutUncommitted,
         Service!TimeoutUntraded, Service!TimeoutFailed, Service!IgnoredCancellation,
         Service!vars, ServiceSends, Service!SendMessage, serviceVars
<1>5. ServiceStep
  BY <1>3, <1>4 DEF Next, vars, MakerHandsOn, TakerHandsOn, MakerStep, TakerStep, MakerIsPaid,
         TakerIsPaid, MakerReads, TakerReads
<1> QED BY <1>1, <1>2, <1>5 DEF Accepts, ServiceStep

\* A node is told that its deposit is accepted in the step that accepts it.
LEMMA AcceptTells ==
    ASSUME XInv, NEW b \in Nodes, Accepts(b)
    PROVE  Proved' = Proved \cup {b} /\ HavePaid' = HavePaid
<1>1. message_queue \in Seq(ServiceT!Message) /\ Proof(b) \in ServiceT!Message
      /\ Service!OfferTaken(Offer) \in ServiceT!Message
      /\ \A a \in Nodes : Service!OfferTaken(Offer) # Proof(a) /\ (a # b => Proof(a) # Proof(b))
  BY QueuedLetters DEF XInv, Processes, ServiceT!RInv, ServiceT!IInv, ServiceT!TypeOK
<1>2. Receipt(b).identifier = Offer /\ Receipt(b).initiator = b
  BY DEF Receipt
<1>3. Items(message_queue') \in {Items(message_queue) \cup {Proof(b)},
                                 Items(message_queue) \cup {Service!OfferTaken(Offer), Proof(b)}}
  <2>1. CASE Service!MakerTransfer(Receipt(b))
    <3>1. message_queue' = Append(message_queue, Proof(b))
      BY <1>2, <2>1 DEF Service!MakerTransfer, Proof
    <3> QED BY <1>1, <3>1, Appended
  <2>2. CASE Service!TakerTransfer(Receipt(b))
    <3>1. message_queue' = message_queue \o <<Service!OfferTaken(Offer), Proof(b)>>
      BY <1>2, <2>2 DEF Service!TakerTransfer, Proof
    <3>2. ASSUME NEW S, NEW q \in Seq(S), NEW x, NEW y PROVE q \o <<x, y>> = Append(Append(q, x), y)
      OBVIOUS
    <3>3. PICK q : q = Append(message_queue, Service!OfferTaken(Offer))
      OBVIOUS
    <3>4. message_queue' = Append(q, Proof(b))
      BY <1>1, <3>1, <3>2, <3>3
    <3>5. q \in Seq(ServiceT!Message)
          /\ Items(q) = Items(message_queue) \cup {Service!OfferTaken(Offer)}
      BY <1>1, <3>3, Appended
    <3>6. Items(message_queue') = Items(q) \cup {Proof(b)}
      BY <1>1, <3>4, <3>5, Appended
    <3> QED BY <3>5, <3>6
  <2> QED BY <2>1, <2>2 DEF Accepts
<1>4. \A a \in Nodes : topic'[a] = topic[a] /\ (HeardProof(a)' <=> HeardProof(a))
  BY DEF Accepts, makerVars, takerVars, HeardProof, Heard
<1>5. \A a \in Nodes : Told(a)' <=> Told(a) \/ a = b
  BY <1>1, <1>3, <1>4 DEF Told, Proof
<1>6. HavePaid' = HavePaid
  BY DEF Accepts, HavePaid, TransfersOf, makerVars, takerVars, PaymentTo, Maker!SwapInit, Nodes
<1>7. \A a : a \in Proved' <=> a \in Nodes /\ Told(a)'
  <2>1. (\A a : a \in Proved <=> a \in Nodes /\ Told(a))'
    BY WhoIs, PTL
  <2> QED BY <2>1 DEF Nodes
<1> QED BY <1>5, <1>6, <1>7, WhoIs

\* Every step of the system is one of the abstract specification.
LEMMA ExchangeStep ==
    ASSUME XInv, XInv', [Next]_vars
    PROVE  Abstract!Next
<1>1. CASE \E b \in Nodes : Accepts(b)
  <2>1. PICK b \in Nodes : Accepts(b)
    BY <1>1
  <2>2. Receipt(b) \in ServiceT!TransferReceipt /\ Receipt(b) \in Deposits
    BY DEF Receipt, ServiceT!TransferReceipt, Deposits
  <2>3. ServiceT!MakerTransfer(Receipt(b)) \/ ServiceT!TakerTransfer(Receipt(b))
    BY <2>1, Zenon
       DEF Accepts, ServiceT!MakerTransfer, Service!MakerTransfer, ServiceT!TakerTransfer,
           Service!TakerTransfer, ServiceT!DeliverOnce, Service!DeliverOnce,
           ServiceT!CommitmentProof, Service!CommitmentProof, ServiceT!OfferTaken,
           Service!OfferTaken, ServiceT!refunds, Service!refunds
  <2>4. ServiceT!Escrow!Accept(Receipt(b))
    BY <2>2, <2>3, ServiceT!MakerTransferAccepts, ServiceT!TakerTransferAccepts, Assumptions
       DEF XInv, Processes
  <2>5. Accepting(Deposits, Fate, Fate', Receipt(b))
    BY <2>4, EscrowAccepting
  <2>6. Secured' = Secured \cup {Receipt(b)} /\ PaidFor' = PaidFor
    BY <2>1, AcceptTells DEF Secured, PaidFor, Receipt
  <2> QED BY <2>2, <2>5, <2>6, AbstractLock
<1>2. CASE ~ \E b \in Nodes : Accepts(b)
  <2>1. Secured' = Secured
    <3>1. \A a \in Nodes : Told(a)' <=> Told(a)
      BY <1>2, ToldStep
    <3>2. (\A a : a \in Proved <=> a \in Nodes /\ Told(a))'
      BY WhoIs, PTL
    <3>3. Proved' = Proved
      BY <3>1, <3>2, WhoIs DEF Nodes
    <3> QED BY <3>3 DEF Secured, Receipt
  <2>2. CASE UNCHANGED <<makerVars, takerVars>>
    <3>1. PaidFor' = PaidFor
      BY <2>2 DEF PaidFor, HavePaid, TransfersOf, makerVars, takerVars, PaymentTo, Maker!SwapInit,
             Nodes, Receipt
    <3>2. \/ \E rc \in ServiceT!TransferReceipt :
               \/ ServiceT!Escrow!Refuse(rc) \/ ServiceT!Escrow!Ignore(rc)
               \/ ServiceT!Escrow!Release(rc)
               \/ ServiceT!Escrow!PayBack(rc) \/ ServiceT!Escrow!Lose(rc)
               \/ \E other \in ServiceT!TransferReceipt : ServiceT!Escrow!Settle(rc, other)
          \/ \A x \in ServiceT!TransferReceipt : ServiceT!FateOf(x)' = ServiceT!FateOf(x)
      BY <1>2, ProcessesStep, TransferIsAccepted, ServiceT!EscrowMoves, Assumptions
         DEF XInv, Processes
    <3>3. ASSUME NEW rc \in ServiceT!TransferReceipt,
                 \/ ServiceT!Escrow!Refuse(rc) \/ ServiceT!Escrow!Ignore(rc)
                 \/ ServiceT!Escrow!Release(rc)
                 \/ ServiceT!Escrow!PayBack(rc) \/ ServiceT!Escrow!Lose(rc)
                 \/ \E other \in ServiceT!TransferReceipt : ServiceT!Escrow!Settle(rc, other)
          PROVE  Abstract!Next
      <4>1. Moving(Deposits, Fate, Fate', rc)
        BY <3>3, EscrowMoving
      <4>2. \A r \in Deposits : Fate'[r] = "owed_less_fee" => r \in PaidFor
        <5>1. (\A r \in Deposits : Fate[r] = "owed_less_fee" => PaidFor = Deposits)'
          BY FeeIsPaidFor, PTL
        <5> QED BY <3>1, <5>1 DEF Deposits, Nodes, Receipt
      <4> QED BY <2>1, <3>1, <3>3, <4>1, <4>2, SameDeposits, AbstractMove
    <3>4. ASSUME \A x \in ServiceT!TransferReceipt : ServiceT!FateOf(x)' = ServiceT!FateOf(x)
          PROVE  Abstract!Next
      <4>1. (Fate = ServiceFate)'
        BY SameDeposits, PTL
      <4>2. Fate' = Fate
        BY <3>4, <4>1, SameDeposits DEF ServiceFate
      <4> QED BY <2>1, <3>1, <4>2, AbstractStutter
    <3> QED BY <3>2, <3>3, <3>4
  <2>3. CASE UNCHANGED serviceVars
    <3>1. Fate' = Fate
      BY <2>3, FateStays
    <3>2. \/ HavePaid' = HavePaid
          \/ \E a \in Nodes \ HavePaid : HavePaid' = HavePaid \cup {a}
      <4>1. (/\ HavePaid \subseteq Nodes
             /\ MakerNode \in HavePaid <=> m_transfers[PaymentTo(TakerNode)] > 0
             /\ TakerNode \in HavePaid <=> t_transfers[PaymentTo(MakerNode)] > 0)'
        BY WhoIs, PTL
      <4>2. HavePaid \subseteq HavePaid'
        BY <4>1, WhoIs, Stays DEF Nodes, PaymentTo, Maker!SwapInit
      <4>3. /\ UNCHANGED makerVars => (MakerNode \in HavePaid' <=> MakerNode \in HavePaid)
            /\ UNCHANGED takerVars => (TakerNode \in HavePaid' <=> TakerNode \in HavePaid)
        BY <4>1, WhoIs DEF makerVars, takerVars, PaymentTo, Maker!SwapInit
      <4>4. UNCHANGED makerVars \/ UNCHANGED takerVars
        BY OneMoves
      <4> QED BY <4>1, <4>2, <4>3, <4>4, WhoIs DEF Nodes
    <3>3. CASE HavePaid' = HavePaid
      <4>1. PaidFor' = PaidFor
        BY <3>3 DEF PaidFor, Receipt
      <4> QED BY <2>1, <3>1, <4>1, AbstractStutter
    <3>4. (\A x \in HavePaid : Told(x))'
      BY PayerIsTold, PTL
    <3>5. ASSUME NEW a \in Nodes \ HavePaid, HavePaid' = HavePaid \cup {a}
          PROVE  Abstract!Next
      <4>1. Told(a)
        <5>1. Told(a)'
          BY <3>4, <3>5
        <5> QED BY <1>2, <5>1, ToldStep
      <4>2. Receipt(a) \in Secured \ PaidFor
        BY <3>5, <4>1, WhoIs, OneDepositEach DEF Secured, PaidFor
      <4>3. PaidFor' = PaidFor \cup {Receipt(a)} /\ Receipt(a) \in Deposits
        BY <3>5 DEF PaidFor, Deposits, Receipt
      <4> QED BY <2>1, <3>1, <4>2, <4>3, AbstractPay
    <3> QED BY <3>2, <3>3, <3>5
  <2> QED BY <2>2, <2>3, OneMoves
<1> QED BY <1>1, <1>2

\* The start of the system is a start of the abstract specification.
LEMMA ExchangeInit == Init => Abstract!Init
<1> SUFFICES ASSUME Init PROVE Abstract!Init
  OBVIOUS
<1>1. Service!Init /\ Maker!Init /\ Taker!Init /\ XInv
  BY XInvInit DEF Init
<1>2. Fate = [rc \in Deposits |-> "outside"]
  BY <1>1 DEF Fate, Service!Init, Service!FateOf
<1>3. Proved = {}
  <2>1. ASSUME NEW a \in Nodes PROVE ~ Told(a)
    <3>1. Word(a) /\ read = {}
      BY <1>1 DEF XInv, Between, Init
    <3> QED BY <3>1 DEF Word
  <2> QED BY <2>1, WhoIs
<1>4. HavePaid = {}
  <2>1. \A a \in Nodes : a \in HavePaid => a \in Proved
    BY <1>1, PayerIsTold, WhoIs
  <2> QED BY <1>3, <2>1, WhoIs
<1> QED BY <1>2, <1>3, <1>4, Zenon DEF Abstract!Init, Abstract!Escrow!Init, Fate, Deposits

\* Two nodes and the service, whatever is delayed and whatever times out, are a secured
\* exchange: a node pays only after the service has accepted its own deposit, and the
\* deposits are returned less the fee together, and only after both nodes have paid.
THEOREM ImplementsSecuredExchange == Spec => RefinesSecuredExchange
<1>1. XInv /\ XInv' /\ [Next]_vars => [Abstract!Next]_(Abstract!vars)
  BY ExchangeStep
<1> QED BY <1>1, ExchangeInit, SystemInvariant, PTL DEF Spec, RefinesSecuredExchange, Abstract!Spec

=============================================================================
