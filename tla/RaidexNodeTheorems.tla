------------------------- MODULE RaidexNodeTheorems -------------------------
(***************************************************************************)
(* Every step of a raidEX node keeps the invariant of RaidexNodeProofs, and*)
(* what follows from it: the safety properties of the node for any offers, *)
(* peers and orders and for every combination of faults.                   *)
(***************************************************************************)
EXTENDS RaidexNodeProofs

\* What the step of a handler does to the queue of the node: the state change it handles
\* is taken, and only an exception takes others.
LEMMA Taken ==
    ASSUME QueueTypes, HandleStateChange
    PROVE  /\ Alive /\ sc \in In(state_changes)
           /\ UNCHANGED <<event_filters, taker_listeners, raiden_events, transfers, sent, asked>>
           /\ In(state_changes') \subseteq In(state_changes)
           /\ \A x : Once(state_changes, x) => Once(state_changes', x)
           /\ Once(state_changes, sc) => sc \notin In(state_changes')
           /\ Alive' => \A x \in In(state_changes) : x = sc \/ x \in In(state_changes')
<1>1. /\ In(state_changes) = In(Tail(state_changes)) \cup {sc}
      /\ \A x : Once(state_changes, x) => Once(Tail(state_changes), x)
      /\ Once(state_changes, sc) => sc \notin In(Tail(state_changes))
  BY Handler, Popped DEF QueueTypes, sc
<1>2. CASE state_changes' = Tail(state_changes) /\ consumers' = consumers
  BY <1>1, <1>2, Handler
<1>3. CASE state_changes' = <<>> /\ consumers' = consumers \ {"node"}
  BY <1>1, <1>3, Handler, RaiseClears DEF Alive
<1> QED BY <1>2, <1>3, Handler

-----------------------------------------------------------------------------
(* Each step keeps what the invariant says of the offers.                  *)

\* What an event for the client of the commitment service is to the other events.
LEMMA CsKindAdds ==
    ASSUME QueueTypes, NEW r \in Ids,
           NEW kind \in {"CommitmentProved", "ReceivedInbound", "CancellationRequest"},
           CsEvent(kind, r)
    PROVE  /\ <<kind, r>> \in In(cs_events')
           /\ \A k, o : k # kind \/ o # r =>
                  /\ <<k, o>> \in In(cs_events') <=> <<k, o>> \in In(cs_events)
                  /\ Once(cs_events, <<k, o>>) => Once(cs_events', <<k, o>>)
           /\ Once(cs_events, <<kind, r>>) /\ <<kind, r>> \notin In(cs_events) =>
                  Once(cs_events', <<kind, r>>)
           /\ UNCHANGED <<trader_events, transport_events, listener_events>>
<1>1. \A k, o : <<k, o>> = <<kind, r>> => k = kind /\ o = r
  OBVIOUS
<1> DEFINE e == <<kind, r>>
<1>2. /\ In(cs_events') = In(cs_events) \cup {e}
      /\ \A x : Once(cs_events, x) /\ (x # e \/ x \notin In(cs_events)) => Once(cs_events', x)
      /\ UNCHANGED <<trader_events, transport_events, listener_events>>
  BY CsEventAdds DEF CsEvents
<1>3. \A k, o : k # kind \/ o # r => <<k, o>> # e
  BY <1>1
<1> HIDE DEF e
<1>4. ASSUME NEW k, NEW o, k # kind \/ o # r
      PROVE  /\ <<k, o>> \in In(cs_events') <=> <<k, o>> \in In(cs_events)
             /\ Once(cs_events, <<k, o>>) => Once(cs_events', <<k, o>>)
  <2>1. <<k, o>> # e
    BY <1>3, <1>4
  <2> QED BY <1>2, <2>1
<1>5. e \in In(cs_events') /\ (Once(cs_events, e) /\ e \notin In(cs_events) => Once(cs_events', e))
  BY <1>2
<1> QED BY <1>2, <1>4, <1>5 DEF e

\* A step that starts nothing for an offer or an order: it gives the queues no event that
\* an offer acts on, except a proof of a deposit that was paid and a new order.
LEMMA QuietStep ==
    ASSUME Offers,
           UNCHANGED <<offers, proofs, matches, orders, listener_events, event_filters,
                       taker_listeners, raiden_events, transfers>>,
           consumers' \subseteq consumers, asked \subseteq asked',
           In(cs_events') \subseteq In(cs_events),
           \A x : Once(cs_events, x) => Once(cs_events', x),
           \A o \in Ids : <<"ReceivedInbound", o>> \in In(cs_events) =>
                              <<"ReceivedInbound", o>> \in In(cs_events'),
           \A t \in Transfers : /\ t \in In(trader_events') => t \in In(trader_events)
                                /\ Once(trader_events, t) => Once(trader_events', t),
           \A o \in Ids : Message("SwapExecution", o, CS) \in In(transport_events') \cup sent' =>
                              Message("SwapExecution", o, CS) \in In(transport_events) \cup sent,
           \A o \in Ids, p \in Peers :
               /\ TakerCall(o, p) \in In(state_changes') => TakerCall(o, p) \in In(state_changes)
               /\ Once(state_changes, TakerCall(o, p)) => Once(state_changes', TakerCall(o, p)),
           \A key \in Keys :
               /\ TransferReceived(key) \in In(state_changes') => TransferReceived(key) \in In(state_changes)
               /\ Once(state_changes, TransferReceived(key)) => Once(state_changes', TransferReceived(key)),
           \A o \in Ids : CommitmentProof(o) \in In(state_changes') =>
               CommitmentProof(o) \in In(state_changes) \/ transfers[Deposit(o)] > 0,
           \A x \in OrderIds :
               /\ Once(state_changes', NewLimitOrder(x))
               /\ NewLimitOrder(x) \in In(state_changes') =>
                      NewLimitOrder(x) \in In(state_changes) \/ (x \notin asked /\ x \in asked')
    PROVE  Offers'
<1>1. ASSUME NEW o \in Ids PROVE Progress(o)'
  BY DEF Offers, Progress, Alive
<1>2. ASSUME NEW o \in Ids PROVE DepositOnce(o)'
  BY EventTypes DEF Offers, DepositOnce
<1>3. ASSUME NEW o \in Ids PROVE SwapOnce(o)'
  BY EventTypes DEF Offers, SwapOnce
<1>4. ASSUME NEW o \in Ids PROVE TakerOnce(o)'
  BY DEF Offers, TakerOnce
<1>5. ASSUME NEW o \in Ids PROVE Watch(o)'
  <2>1. ASSUME NEW a \in Peers \cup {CS}, Noticed(a, o)' PROVE Noticed(a, o)
    BY <2>1 DEF Noticed, Keys
  <2>2. Paid(o)' = Paid(o)
    BY DEF Paid
  <2>3. offers[o] \in Confirmed => <<matches[o], o>> \in Keys
    BY DEF Offers, Progress, Confirmed, Exchanged, Pending, Keys
  <2> QED BY <2>1, <2>2, <2>3 DEF Offers, Watch, Expected, Queued
<1>6. ASSUME NEW key \in Keys PROVE PaymentOnce(key)'
  BY DEF Offers, PaymentOnce
<1>7. ASSUME NEW x \in OrderIds PROVE OrderOnce(x)'
  BY DEF Offers, OrderOnce
<1> QED BY <1>1, <1>2, <1>3, <1>4, <1>5, <1>6, <1>7 DEF Offers

\* An open offer for which the cancellation is requested.
LEMMA RequestStep ==
    ASSUME TypeOK, QueueTypes, Offers, HandleStateChange, NEW r \in Ids,
           offers[r] \in Open, offers' = [offers EXCEPT ![r] = "cancellation_requested"],
           CsEvent("CancellationRequest", r),
           UNCHANGED <<proofs, orders, matches>>
    PROVE  Offers'
<1>1. /\ UNCHANGED <<event_filters, taker_listeners, raiden_events, transfers, sent, asked>>
      /\ UNCHANGED <<trader_events, transport_events, listener_events>>
      /\ In(state_changes') \subseteq In(state_changes)
      /\ \A x : Once(state_changes, x) => Once(state_changes', x)
      /\ Alive /\ (Alive' => Alive)
  BY Taken, CsEventAdds, EventTypes
<1>2. /\ \A k, o : k # "CancellationRequest" /\ Once(cs_events, <<k, o>>) => Once(cs_events', <<k, o>>)
      /\ \A k, o : k # "CancellationRequest" =>
             (<<k, o>> \in In(cs_events') <=> <<k, o>> \in In(cs_events))
  BY CsKindAdds, EventTypes
<1>3. /\ offers'[r] = "cancellation_requested" /\ \A o \in Ids \ {r} : offers'[o] = offers[o]
      /\ offers[r] # "absent" /\ offers[r] # "created" /\ offers[r] \notin Exchanged
  BY <1>1 DEF TypeOK, Open, Waiting, Exchanged, Pending, Offers, Progress
<1>4. ASSUME NEW o \in Ids PROVE Progress(o)'
  BY <1>1, <1>3 DEF Offers, Progress, Exchanged, Pending
<1>5. ASSUME NEW o \in Ids PROVE DepositOnce(o)'
  BY <1>1, <1>2, <1>3 DEF Offers, DepositOnce
<1>6. ASSUME NEW o \in Ids PROVE SwapOnce(o)'
  BY <1>1, <1>3 DEF Offers, SwapOnce
<1>7. ASSUME NEW o \in Ids PROVE TakerOnce(o)'
  BY <1>1, <1>2, <1>3 DEF Offers, TakerOnce
<1>8. ASSUME NEW o \in Ids PROVE Watch(o)'
  <2>1. ASSUME NEW a, Noticed(a, o)' PROVE Noticed(a, o)
    BY <1>1, <2>1 DEF Noticed
  <2>2. Paid(o)' = Paid(o)
    BY <1>1 DEF Paid
  <2> QED BY <1>1, <1>2, <1>3, <2>1, <2>2
          DEF Offers, Watch, Expected, Queued, Confirmed, Exchanged, Pending
<1>9. ASSUME NEW key \in Keys PROVE PaymentOnce(key)'
  BY <1>1 DEF Offers, PaymentOnce
<1>10. ASSUME NEW x \in OrderIds PROVE OrderOnce(x)'
  BY <1>1, <1>3, QueuesTyped DEF Offers, OrderOnce
<1> QED BY <1>4, <1>5, <1>6, <1>7, <1>8, <1>9, <1>10 DEF Offers

\* What the start of an exchange gives to the trader and to the listener.
LEMMA ExchangeAdds ==
    ASSUME QueueTypes, NEW r \in Ids, NEW p \in Peers, Exchange(r, p)
    PROVE  /\ \A t : t # SwapInit(r, p) =>
                  /\ t \in In(trader_events') <=> t \in In(trader_events)
                  /\ Once(trader_events, t) => Once(trader_events', t)
           /\ Once(trader_events, SwapInit(r, p)) /\ SwapInit(r, p) \notin In(trader_events) =>
                  Once(trader_events', SwapInit(r, p))
           /\ In(listener_events') = In(listener_events) \cup {ExpectInbound(p, r)}
           /\ \A key : Once(listener_events, PaymentReceived(key)) =>
                           Once(listener_events', PaymentReceived(key))
<1>1. /\ In(trader_events') = In(trader_events) \cup {SwapInit(r, p)}
      /\ \A t : Once(trader_events, t) /\ (t # SwapInit(r, p) \/ SwapInit(r, p) \notin In(trader_events))
                => Once(trader_events', t)
  <2>1. /\ trader_events \in Seq(Transfers \cup {OpenChannel})
        /\ SwapInit(r, p) \in Transfers \cup {OpenChannel}
        /\ trader_events' = Append(trader_events, SwapInit(r, p))
    BY EventTypes DEF QueueTypes, Exchange
  <2> QED BY <2>1, Appended
<1>2. /\ In(listener_events') = In(listener_events) \cup {ExpectInbound(p, r)}
      /\ \A e : Once(listener_events, e) /\ e # ExpectInbound(p, r) => Once(listener_events', e)
  BY Appended, EventTypes DEF QueueTypes, Exchange
<1> QED BY <1>1, <1>2, ListenerEventsDiffer

\* The echo of the node's own offer is handled: the taker is waited for.
LEMMA PublishStep ==
    ASSUME TypeOK, QueueTypes, Offers, HandleStateChange, HandleOwnOfferPublished
    PROVE  Offers'
<1>1. PICK r \in Ids : sc.offer = r
  BY Handler, Handled, Fields DEF HandleOwnOfferPublished, Handling, sc
<1>2. /\ offers[r] = "proved" /\ r \in OwnIds /\ offers'[r] = "published"
      /\ \A o \in Ids \ {r} : offers'[o] = offers[o]
  BY <1>1 DEF HandleOwnOfferPublished, TypeOK, Offers, Progress
<1>3. /\ UNCHANGED <<event_filters, taker_listeners, raiden_events, transfers, sent, asked>>
      /\ UNCHANGED <<proofs, orders, matches>>
      /\ In(state_changes') \subseteq In(state_changes)
      /\ \A x : Once(state_changes, x) => Once(state_changes', x)
      /\ Alive
  BY Taken DEF HandleOwnOfferPublished
<1>4. /\ UNCHANGED <<trader_events, transport_events, listener_events>>
      /\ \A k, o : k # "CommitmentProved" \/ o # r =>
             /\ <<k, o>> \in In(cs_events') <=> <<k, o>> \in In(cs_events)
             /\ Once(cs_events, <<k, o>>) => Once(cs_events', <<k, o>>)
      /\ Once(cs_events, <<"CommitmentProved", r>>) /\ <<"CommitmentProved", r>> \notin In(cs_events)
         => Once(cs_events', <<"CommitmentProved", r>>)
  <2>1. CsEvent("CommitmentProved", r)
    BY <1>1 DEF HandleOwnOfferPublished
  <2> QED BY <2>1, CsKindAdds
<1>5. ASSUME NEW o \in Ids PROVE Progress(o)'
  BY <1>2, <1>3 DEF Offers, Progress, Exchanged, Pending
<1>6. ASSUME NEW o \in Ids PROVE DepositOnce(o)'
  BY <1>2, <1>3, <1>4 DEF Offers, DepositOnce
<1>7. ASSUME NEW o \in Ids PROVE SwapOnce(o)'
  BY <1>2, <1>3, <1>4 DEF Offers, SwapOnce, Exchanged, Pending
<1>8. ASSUME NEW o \in Ids PROVE TakerOnce(o)'
  BY <1>2, <1>3, <1>4 DEF Offers, TakerOnce
<1>9. ASSUME NEW o \in Ids PROVE Watch(o)'
  <2>1. ASSUME NEW a, Noticed(a, o)' PROVE Noticed(a, o)
    BY <1>3, <1>4, <2>1 DEF Noticed
  <2>2. Paid(o)' = Paid(o)
    BY <1>3 DEF Paid
  <2> QED BY <1>2, <1>3, <1>4, <2>1, <2>2
          DEF Offers, Watch, Expected, Queued, Confirmed, Exchanged, Pending
<1>10. ASSUME NEW key \in Keys PROVE PaymentOnce(key)'
  BY <1>3, <1>4 DEF Offers, PaymentOnce
<1>11. ASSUME NEW x \in OrderIds PROVE OrderOnce(x)'
  BY <1>2, <1>3, QueuesTyped DEF Offers, OrderOnce
<1> QED BY <1>5, <1>6, <1>7, <1>8, <1>9, <1>10, <1>11 DEF Offers

\* The commitment of an offer of the node is proved: the offer is published.
LEMMA MakerProofStep ==
    ASSUME TypeOK, QueueTypes, Offers, HandleStateChange, HandleMakerProof
    PROVE  Offers'
<1>1. PICK r \in Ids : sc = CommitmentProof(r) /\ sc.offer = r
  BY Handler, Handled, Fields DEF HandleMakerProof, Handling, sc
<1>2. /\ UNCHANGED <<event_filters, taker_listeners, raiden_events, transfers, sent, asked>>
      /\ UNCHANGED <<cs_events, trader_events, listener_events, orders, matches>>
      /\ In(state_changes') \subseteq In(state_changes)
      /\ \A x : Once(state_changes, x) => Once(state_changes', x)
      /\ Alive /\ CommitmentProof(r) \in In(state_changes)
  BY <1>1, Taken DEF HandleMakerProof
<1>3. /\ offers[r] = "unproved" /\ offers'[r] = "proved"
      /\ \A o \in Ids \ {r} : offers'[o] = offers[o]
      /\ proofs' = proofs \cup {r} /\ transfers[Deposit(r)] > 0
  BY <1>1, <1>2 DEF HandleMakerProof, TypeOK, Offers, Progress
<1>4. r \in OwnIds
  <2>1. matches[r] \notin Peers
    BY <1>1, AddressAssumption DEF HandleMakerProof
  <2> QED BY <1>3, <2>1 DEF Offers, Progress, Ids
<1>5. In(transport_events') = In(transport_events) \cup {Message("ProvenOffer", r, "broadcast")}
  BY <1>1, Appended, EventTypes DEF HandleMakerProof, QueueTypes
<1>6. ASSUME NEW o \in Ids PROVE Progress(o)'
  BY <1>2, <1>3, <1>4 DEF Offers, Progress, Exchanged, Pending
<1>7. ASSUME NEW o \in Ids PROVE DepositOnce(o)'
  BY <1>2, <1>3 DEF Offers, DepositOnce
<1>8. ASSUME NEW o \in Ids PROVE SwapOnce(o)'
  BY <1>2, <1>3 DEF Offers, SwapOnce, Exchanged, Pending
<1>9. ASSUME NEW o \in Ids PROVE TakerOnce(o)'
  BY <1>2, <1>3 DEF Offers, TakerOnce
<1>10. ASSUME NEW o \in Ids PROVE Watch(o)'
  <2>1. ASSUME NEW a, Noticed(a, o)' PROVE Noticed(a, o)
    BY <1>2, <2>1 DEF Noticed
  <2>2. Paid(o)' = Paid(o)
    BY <1>2 DEF Paid
  <2>3. Message("SwapExecution", o, CS) \in In(transport_events') =>
            Message("SwapExecution", o, CS) \in In(transport_events)
    BY <1>5, MessagesDiffer
  <2> QED BY <1>2, <1>3, <2>1, <2>2, <2>3
          DEF Offers, Watch, Expected, Queued, Confirmed, Exchanged, Pending
<1>11. ASSUME NEW key \in Keys PROVE PaymentOnce(key)'
  BY <1>2 DEF Offers, PaymentOnce
<1>12. ASSUME NEW x \in OrderIds PROVE OrderOnce(x)'
  BY <1>2, <1>3, QueuesTyped DEF Offers, OrderOnce
<1> QED BY <1>6, <1>7, <1>8, <1>9, <1>10, <1>11, <1>12 DEF Offers

\* The exchange of an offer starts.  The offer was waiting, its commitment is proved and
\* the deposit paid, and nothing waits for another taker.
LEMMA ExchangeStep ==
    ASSUME TypeOK, QueueTypes, Offers, Alive, NEW r \in Ids, NEW p \in Peers,
           offers[r] \in Waiting, offers' = [offers EXCEPT ![r] = "exchanging"],
           matches' = [matches EXCEPT ![r] = p],
           proofs' = proofs \cup {r}, transfers[Deposit(r)] > 0,
           Exchange(r, p),
           UNCHANGED <<event_filters, taker_listeners, raiden_events, transfers, sent, asked>>,
           UNCHANGED <<cs_events, orders>>,
           In(state_changes') \subseteq In(state_changes),
           \A x : Once(state_changes, x) => Once(state_changes', x),
           \A o \in Ids : Message("SwapExecution", o, CS) \in In(transport_events') =>
                              Message("SwapExecution", o, CS) \in In(transport_events),
           <<"CommitmentProved", r>> \notin In(cs_events), r \notin taker_listeners,
           \A q \in Peers : TakerCall(r, q) \notin In(state_changes')
    PROVE  Offers'
<1>1. /\ offers'[r] = "exchanging" /\ \A o \in Ids \ {r} : offers'[o] = offers[o]
      /\ matches'[r] = p /\ \A o \in Ids \ {r} : matches'[o] = matches[o]
      /\ offers[r] \notin Exchanged /\ offers[r] # "absent" /\ offers[r] # "created"
  BY DEF TypeOK, Waiting, Exchanged, Pending
<1>2. /\ \A t : t # SwapInit(r, p) =>
             /\ t \in In(trader_events') <=> t \in In(trader_events)
             /\ Once(trader_events, t) => Once(trader_events', t)
      /\ Once(trader_events, SwapInit(r, p)) /\ SwapInit(r, p) \notin In(trader_events) =>
             Once(trader_events', SwapInit(r, p))
      /\ In(listener_events') = In(listener_events) \cup {ExpectInbound(p, r)}
      /\ \A key : Once(listener_events, PaymentReceived(key)) =>
                      Once(listener_events', PaymentReceived(key))
  BY ExchangeAdds
<1>3. ASSUME NEW o \in Ids PROVE Progress(o)'
  BY <1>1 DEF Offers, Progress, Exchanged, Pending
<1>4. ASSUME NEW o \in Ids PROVE DepositOnce(o)'
  BY <1>1, <1>2, TransfersDiffer DEF Offers, DepositOnce
<1>5. ASSUME NEW o \in Ids PROVE SwapOnce(o)'
  <2>1. ASSUME NEW q \in Peers, o # r \/ q # p PROVE SwapInit(o, q) # SwapInit(r, p)
    BY <2>1, TransfersDiffer
  <2>2. ASSUME NEW q \in Peers
        PROVE  /\ SwapInit(r, q) \notin In(trader_events) /\ ~ (transfers[SwapInit(r, q)] > 0)
               /\ Once(trader_events, SwapInit(r, q))
               /\ transfers[SwapInit(r, q)] \in Nat /\ transfers[SwapInit(r, q)] <= 1
    BY <1>1, EventTypes DEF Offers, SwapOnce, TypeOK
  <2>3. CASE o = r
    BY <1>1, <1>2, <2>1, <2>2, <2>3 DEF SwapOnce, Exchanged, Pending
  <2>4. CASE o # r
    BY <1>1, <1>2, <2>1, <2>4 DEF Offers, SwapOnce
  <2> QED BY <2>3, <2>4
<1>6. ASSUME NEW o \in Ids PROVE TakerOnce(o)'
  BY <1>1, <1>2 DEF Offers, TakerOnce
<1>7. ASSUME NEW o \in Ids PROVE Watch(o)'
  <2>1. CASE o = r
    <3>1. ASSUME NEW a, Noticed(a, r)' PROVE Noticed(a, r) \/ a = p
      BY <1>2, <3>1, ListenerEventsDiffer DEF Noticed
    <3>2. ASSUME NEW a \in Peers \cup {CS} PROVE ~ Noticed(a, r)
      BY <1>1 DEF Offers, Watch, Exchanged, Confirmed, Pending
    <3>3. Expected(<<p, r>>)'
      <4>1. ExpectInbound(p, r) \in In(listener_events')
        BY <1>2
      <4> QED BY <4>1 DEF Expected, Queued, In
    <3> QED BY <1>1, <2>1, <3>1, <3>2, <3>3, AddressAssumption
            DEF Offers, Watch, Exchanged, Confirmed, Pending
  <2>2. CASE o # r
    <3>1. ASSUME NEW a PROVE Noticed(a, o)' => Noticed(a, o)
      BY <1>2, <2>2, ListenerEventsDiffer DEF Noticed
    <3>2. Paid(o)' = Paid(o)
      BY <1>1, <2>2 DEF Paid
    <3>3. ASSUME NEW a, Expected(<<a, o>>) PROVE Expected(<<a, o>>)'
      <4>1. \A e : Queued(listener_events, e) => Queued(listener_events', e)
        BY <1>2 DEF Queued, In
      <4> QED BY <3>3, <4>1 DEF Expected
    <3>4. \A key : PaymentReceived(key) \in In(listener_events') => PaymentReceived(key) \in In(listener_events)
      BY <1>2, ListenerEventsDiffer
    <3> QED BY <1>1, <2>2, <3>1, <3>2, <3>3, <3>4 DEF Offers, Watch
  <2> QED BY <2>1, <2>2
<1>8. ASSUME NEW key \in Keys PROVE PaymentOnce(key)'
  BY <1>2, ListenerEventsDiffer DEF Offers, PaymentOnce
<1>9. ASSUME NEW x \in OrderIds PROVE OrderOnce(x)'
  BY <1>1, QueuesTyped DEF Offers, OrderOnce
<1> QED BY <1>3, <1>4, <1>5, <1>6, <1>7, <1>8, <1>9 DEF Offers

\* The commitment of an offer the node takes is proved.
LEMMA TakerProofStep ==
    ASSUME TypeOK, QueueTypes, Offers, HandleStateChange, HandleTakerProof
    PROVE  Offers'
<1>1. PICK r \in Ids : sc = CommitmentProof(r) /\ sc.offer = r
  BY Handler, Handled, Fields DEF HandleTakerProof, Handling, sc
<1>2. /\ UNCHANGED <<event_filters, taker_listeners, raiden_events, transfers, sent, asked>>
      /\ UNCHANGED <<cs_events, orders>>
      /\ In(state_changes') \subseteq In(state_changes)
      /\ \A x : Once(state_changes, x) => Once(state_changes', x)
      /\ Alive /\ CommitmentProof(r) \in In(state_changes)
  BY <1>1, Taken DEF HandleTakerProof
<1>3. PICK p \in Peers : matches[r] = p
  BY <1>1 DEF HandleTakerProof, TypeOK
<1>4. /\ offers[r] = "unproved" /\ offers' = [offers EXCEPT ![r] = "exchanging"]
      /\ proofs' = proofs \cup {r} /\ Exchange(r, p)
      /\ matches' = [matches EXCEPT ![r] = p]
      /\ transfers[Deposit(r)] > 0
  BY <1>1, <1>2, <1>3 DEF HandleTakerProof, TypeOK, Offers, Progress
<1>5. In(transport_events') = In(transport_events) \cup {Message("ProvenOffer", r, p)}
  BY <1>1, <1>3, Appended, EventTypes DEF HandleTakerProof, QueueTypes
<1>6. \A o \in Ids : Message("SwapExecution", o, CS) \in In(transport_events') =>
                         Message("SwapExecution", o, CS) \in In(transport_events)
  BY <1>5, MessagesDiffer
<1>7. /\ <<"CommitmentProved", r>> \notin In(cs_events) /\ r \notin taker_listeners
      /\ \A q \in Peers : TakerCall(r, q) \notin In(state_changes)
  BY <1>4 DEF Offers, TakerOnce
<1> QED BY <1>2, <1>4, <1>6, <1>7, ExchangeStep DEF Waiting

\* A taker calls for an offer of the node.
LEMMA TakerCallStep ==
    ASSUME TypeOK, QueueTypes, Offers, HandleStateChange, HandleTakerCall
    PROVE  Offers'
<1>1. PICK r \in OwnIds, p \in Peers : sc = TakerCall(r, p) /\ sc.offer = r /\ sc.initiator = p
  BY Handler, Handled, Fields DEF HandleTakerCall, Handling, sc
<1>2. /\ UNCHANGED <<event_filters, taker_listeners, raiden_events, transfers, sent, asked>>
      /\ UNCHANGED <<cs_events, orders, transport_events, proofs>>
      /\ In(state_changes') \subseteq In(state_changes)
      /\ \A x : Once(state_changes, x) => Once(state_changes', x)
      /\ Alive /\ TakerCall(r, p) \in In(state_changes)
      /\ Once(state_changes, TakerCall(r, p)) => TakerCall(r, p) \notin In(state_changes')
  BY <1>1, Taken DEF HandleTakerCall
<1>3. r \in Ids
  BY DEF Ids
<1>4. /\ offers[r] \in {"proved", "published"} /\ offers' = [offers EXCEPT ![r] = "exchanging"]
      /\ Exchange(r, p) /\ matches' = [matches EXCEPT ![r] = p]
  BY <1>1 DEF HandleTakerCall
<1>5. proofs' = proofs \cup {r} /\ transfers[Deposit(r)] > 0
  BY <1>2, <1>3, <1>4 DEF Offers, Progress
<1>6. /\ <<"CommitmentProved", r>> \notin In(cs_events) /\ r \notin taker_listeners
      /\ \A q \in Peers : TakerCall(r, q) \notin In(state_changes')
  BY <1>2, <1>3 DEF Offers, TakerOnce
<1> QED BY <1>2, <1>3, <1>4, <1>5, <1>6, ExchangeStep DEF Waiting

\* A taker calls for an offer that is not open to it: the match is stored, nothing starts.
LEMMA TakerCallRaisesStep ==
    ASSUME TypeOK, QueueTypes, Offers, HandleStateChange, HandleTakerCallRaises
    PROVE  Offers'
<1>1. PICK r \in OwnIds, p \in Peers : sc = TakerCall(r, p) /\ sc.offer = r /\ sc.initiator = p
  BY Handler, Handled, Fields DEF HandleTakerCallRaises, Handling, sc
<1>2. /\ UNCHANGED <<event_filters, taker_listeners, raiden_events, transfers, sent, asked>>
      /\ UNCHANGED <<offers, proofs, orders, cs_events, trader_events, transport_events, listener_events>>
      /\ In(state_changes') \subseteq In(state_changes)
      /\ \A x : Once(state_changes, x) => Once(state_changes', x)
      /\ Alive /\ TakerCall(r, p) \in In(state_changes)
  BY <1>1, Taken DEF HandleTakerCallRaises, NoEvents
<1>3. r \in Ids
  BY DEF Ids
<1>4. /\ matches'[r] = p /\ \A o \in Ids \ {r} : matches'[o] = matches[o]
      /\ offers[r] \in {"published", "cancellation_requested", "canceled"}
  <2>1. matches'[r] = p /\ \A o \in Ids \ {r} : matches'[o] = matches[o]
    BY <1>1, <1>3 DEF HandleTakerCallRaises, TypeOK
  <2>2. offers[r] \in {"published", "cancellation_requested", "canceled"}
    BY <1>2, <1>3 DEF Offers, TakerOnce
  <2> QED BY <2>1, <2>2
<1>5. ASSUME NEW o \in Ids PROVE Progress(o)'
  BY <1>2, <1>4 DEF Offers, Progress
<1>6. ASSUME NEW o \in Ids PROVE DepositOnce(o)'
  BY <1>2 DEF Offers, DepositOnce
<1>7. ASSUME NEW o \in Ids PROVE SwapOnce(o)'
  BY <1>2, <1>4 DEF Offers, SwapOnce, Exchanged, Pending
<1>8. ASSUME NEW o \in Ids PROVE TakerOnce(o)'
  BY <1>2 DEF Offers, TakerOnce
<1>9. ASSUME NEW o \in Ids PROVE Watch(o)'
  <2>1. ASSUME NEW a, Noticed(a, o)' PROVE Noticed(a, o)
    BY <1>2, <2>1 DEF Noticed
  <2>2. CASE o = r
    BY <1>2, <1>4, <2>1, <2>2 DEF Offers, Watch, Exchanged, Confirmed, Pending
  <2>3. CASE o # r
    BY <1>2, <1>4, <2>1, <2>3 DEF Offers, Watch, Paid, Expected, Queued
  <2> QED BY <2>2, <2>3
<1>10. ASSUME NEW key \in Keys PROVE PaymentOnce(key)'
  BY <1>2 DEF Offers, PaymentOnce
<1>11. ASSUME NEW x \in OrderIds PROVE OrderOnce(x)'
  BY <1>2 DEF Offers, OrderOnce
<1> QED BY <1>5, <1>6, <1>7, <1>8, <1>9, <1>10, <1>11 DEF Offers

\* An offer is cancelled.
LEMMA CancellationProofStep ==
    ASSUME TypeOK, QueueTypes, Offers, HandleStateChange, HandleCancellationProof
    PROVE  Offers'
<1>1. PICK r \in Ids : sc.offer = r
  BY Handler, Handled, Fields DEF HandleCancellationProof, Handling, sc
<1>2. /\ UNCHANGED <<event_filters, taker_listeners, raiden_events, transfers, sent, asked>>
      /\ UNCHANGED <<proofs, orders, matches>>
      /\ UNCHANGED <<cs_events, trader_events, transport_events, listener_events>>
      /\ In(state_changes') \subseteq In(state_changes)
      /\ \A x : Once(state_changes, x) => Once(state_changes', x)
      /\ Alive
  BY Taken DEF HandleCancellationProof, NoEvents
<1>3. /\ offers'[r] = "canceled" /\ \A o \in Ids \ {r} : offers'[o] = offers[o]
      /\ offers[r] # "absent" /\ offers[r] # "created" /\ offers[r] \notin Exchanged
  BY <1>1, <1>2 DEF HandleCancellationProof, TypeOK, Open, Waiting, Exchanged, Pending, Offers, Progress
<1>4. ASSUME NEW o \in Ids PROVE Progress(o)'
  BY <1>2, <1>3 DEF Offers, Progress, Exchanged, Pending
<1>5. ASSUME NEW o \in Ids PROVE DepositOnce(o)'
  BY <1>2, <1>3 DEF Offers, DepositOnce
<1>6. ASSUME NEW o \in Ids PROVE SwapOnce(o)'
  BY <1>2, <1>3 DEF Offers, SwapOnce
<1>7. ASSUME NEW o \in Ids PROVE TakerOnce(o)'
  BY <1>2, <1>3 DEF Offers, TakerOnce
<1>8. ASSUME NEW o \in Ids PROVE Watch(o)'
  <2>1. ASSUME NEW a, Noticed(a, o)' PROVE Noticed(a, o)
    BY <1>2, <2>1 DEF Noticed
  <2>2. Paid(o)' = Paid(o)
    BY <1>2 DEF Paid
  <2> QED BY <1>2, <1>3, <2>1, <2>2
          DEF Offers, Watch, Expected, Queued, Confirmed, Exchanged, Pending
<1>9. ASSUME NEW key \in Keys PROVE PaymentOnce(key)'
  BY <1>2 DEF Offers, PaymentOnce
<1>10. ASSUME NEW x \in OrderIds PROVE OrderOnce(x)'
  BY <1>2, <1>3, QueuesTyped DEF Offers, OrderOnce
<1> QED BY <1>4, <1>5, <1>6, <1>7, <1>8, <1>9, <1>10 DEF Offers

\* The payment of the counterparty is handled: only it can be what was noticed.
LEMMA InboundStep ==
    ASSUME TypeOK, QueueTypes, Offers, HandleStateChange, HandleInbound
    PROVE  Offers'
<1>1. PICK key \in Keys : sc = TransferReceived(key) /\ sc.offer = key[2]
  BY Handler, Handled, Fields DEF HandleInbound, Handling, sc
<1>2. PICK a \in Peers \cup {CS}, r \in Ids : key = <<a, r>>
  BY DEF Keys
<1>3. /\ UNCHANGED <<event_filters, taker_listeners, raiden_events, transfers, sent, asked>>
      /\ UNCHANGED <<proofs, orders, matches>>
      /\ In(state_changes') \subseteq In(state_changes)
      /\ \A x : Once(state_changes, x) => Once(state_changes', x)
      /\ Once(state_changes, TransferReceived(key)) => TransferReceived(key) \notin In(state_changes')
      /\ Alive /\ TransferReceived(key) \in In(state_changes)
  BY <1>1, Taken DEF HandleInbound
<1>4. /\ offers[r] = "exchanging" /\ offers'[r] = "wait_for_refund"
      /\ \A o \in Ids \ {r} : offers'[o] = offers[o]
  BY <1>1, <1>2 DEF HandleInbound, TypeOK
<1>5. a \in Peers /\ matches[r] = a
  <2>1. Noticed(a, r)
    BY <1>2, <1>3 DEF Noticed
  <2> QED BY <1>4, <2>1 DEF Offers, Watch, Confirmed
<1>6. /\ key \in raiden_events /\ PaymentReceived(key) \notin In(listener_events)
      /\ TransferReceived(key) \notin In(state_changes')
  BY <1>3 DEF Offers, PaymentOnce
<1>7. /\ UNCHANGED <<trader_events, transport_events, listener_events>>
      /\ <<"ReceivedInbound", r>> \in In(cs_events')
      /\ \A k, o : k # "ReceivedInbound" \/ o # r =>
             /\ <<k, o>> \in In(cs_events') <=> <<k, o>> \in In(cs_events)
             /\ Once(cs_events, <<k, o>>) => Once(cs_events', <<k, o>>)
  <2>1. CsEvent("ReceivedInbound", r)
    BY <1>1, <1>2 DEF HandleInbound
  <2> QED BY <2>1, CsKindAdds
<1>8. ASSUME NEW o \in Ids PROVE Progress(o)'
  BY <1>3, <1>4 DEF Offers, Progress, Exchanged, Pending
<1>9. ASSUME NEW o \in Ids PROVE DepositOnce(o)'
  BY <1>3, <1>4, <1>7 DEF Offers, DepositOnce
<1>10. ASSUME NEW o \in Ids PROVE SwapOnce(o)'
  BY <1>3, <1>4, <1>7 DEF Offers, SwapOnce, Exchanged, Pending
<1>11. ASSUME NEW o \in Ids PROVE TakerOnce(o)'
  BY <1>3, <1>4, <1>7 DEF Offers, TakerOnce
<1>12. ASSUME NEW o \in Ids PROVE Watch(o)'
  <2>1. ASSUME NEW b, Noticed(b, o)' PROVE Noticed(b, o)
    BY <1>3, <1>7, <2>1 DEF Noticed
  <2>2. Paid(o)' = Paid(o)
    BY <1>3 DEF Paid
  <2>3. CASE o = r
    <3>1. Paid(r)
      BY <1>2, <1>5, <1>6 DEF Paid
    <3> QED BY <1>2, <1>3, <1>4, <1>5, <1>6, <1>7, <2>1, <2>2, <2>3, <3>1
            DEF Offers, Watch, Confirmed, Exchanged, Pending
  <2>4. CASE o # r
    BY <1>3, <1>4, <1>7, <2>1, <2>2, <2>4 DEF Offers, Watch, Expected, Queued
  <2> QED BY <2>3, <2>4
<1>13. ASSUME NEW k \in Keys PROVE PaymentOnce(k)'
  BY <1>3, <1>7 DEF Offers, PaymentOnce
<1>14. ASSUME NEW x \in OrderIds PROVE OrderOnce(x)'
  BY <1>3, <1>4, QueuesTyped DEF Offers, OrderOnce
<1> QED BY <1>8, <1>9, <1>10, <1>11, <1>12, <1>13, <1>14 DEF Offers

\* The refund is handled: the payment of the counterparty cannot come a second time.
LEMMA RefundStep ==
    ASSUME TypeOK, QueueTypes, Offers, HandleStateChange, HandleRefund
    PROVE  Offers'
<1>1. PICK key \in Keys : sc = TransferReceived(key) /\ sc.offer = key[2]
  BY Handler, Handled, Fields DEF HandleRefund, Handling, sc
<1>2. PICK a \in Peers \cup {CS}, r \in Ids : key = <<a, r>>
  BY DEF Keys
<1>3. /\ UNCHANGED <<event_filters, taker_listeners, raiden_events, transfers, sent, asked>>
      /\ UNCHANGED <<proofs, orders, matches>>
      /\ UNCHANGED <<cs_events, trader_events, transport_events, listener_events>>
      /\ In(state_changes') \subseteq In(state_changes)
      /\ \A x : Once(state_changes, x) => Once(state_changes', x)
      /\ Alive /\ TransferReceived(key) \in In(state_changes)
  BY <1>1, Taken DEF HandleRefund, NoEvents
<1>4. /\ offers[r] = "wait_for_refund" /\ offers'[r] = "completed"
      /\ \A o \in Ids \ {r} : offers'[o] = offers[o]
  BY <1>1, <1>2 DEF HandleRefund, TypeOK
<1>5. a = CS
  <2>1. Noticed(a, r)
    BY <1>2, <1>3 DEF Noticed
  <2> QED BY <1>2, <1>3, <1>4, <2>1 DEF Offers, Watch, Confirmed
<1>6. <<CS, r>> \in raiden_events
  BY <1>2, <1>3, <1>5 DEF Offers, PaymentOnce
<1>7. ASSUME NEW o \in Ids PROVE Progress(o)'
  BY <1>3, <1>4 DEF Offers, Progress, Exchanged, Pending
<1>8. ASSUME NEW o \in Ids PROVE DepositOnce(o)'
  BY <1>3, <1>4 DEF Offers, DepositOnce
<1>9. ASSUME NEW o \in Ids PROVE SwapOnce(o)'
  BY <1>3, <1>4 DEF Offers, SwapOnce, Exchanged, Pending
<1>10. ASSUME NEW o \in Ids PROVE TakerOnce(o)'
  BY <1>3, <1>4 DEF Offers, TakerOnce
<1>11. ASSUME NEW o \in Ids PROVE Watch(o)'
  <2>1. ASSUME NEW b, Noticed(b, o)' PROVE Noticed(b, o)
    BY <1>3, <2>1 DEF Noticed
  <2>2. Paid(o)' = Paid(o)
    BY <1>3 DEF Paid
  <2>3. CASE o = r
    BY <1>3, <1>4, <1>6, <2>1, <2>2, <2>3 DEF Offers, Watch, Confirmed, Exchanged, Pending
  <2>4. CASE o # r
    BY <1>3, <1>4, <2>1, <2>2, <2>4 DEF Offers, Watch, Expected, Queued
  <2> QED BY <2>3, <2>4
<1>12. ASSUME NEW k \in Keys PROVE PaymentOnce(k)'
  BY <1>3 DEF Offers, PaymentOnce
<1>13. ASSUME NEW x \in OrderIds PROVE OrderOnce(x)'
  BY <1>3, <1>4, QueuesTyped DEF Offers, OrderOnce
<1> QED BY <1>7, <1>8, <1>9, <1>10, <1>11, <1>12, <1>13 DEF Offers

\* The offers of an order are initiated; those in broken were created only, because the
\* exception of a timeout ended the node.  An offer that is taken or made is new.
LEMMA InitiateStep ==
    ASSUME TypeOK, QueueTypes, Offers, EverythingTimesOut, HandleStateChange,
           NEW x \in OrderIds, sc = NewLimitOrder(x),
           NEW take \in Takes, NEW make \in Makes, Initiate(x, take, make),
           NEW broken \in SUBSET RemoteIds, \A o \in broken : offer_book[o] # None,
           Alive' => broken = {},
           offers' = [o \in Ids |-> IF o \in In(take) \cup In(make) THEN "unproved"
                                    ELSE IF o \in broken THEN "created" ELSE offers[o]]
    PROVE  Offers'
<1> DEFINE all == In(take) \cup In(make)
<1>1. /\ UNCHANGED <<event_filters, taker_listeners, raiden_events, transfers, sent, asked>>
      /\ In(state_changes') \subseteq In(state_changes)
      /\ \A e : Once(state_changes, e) => Once(state_changes', e)
      /\ Once(state_changes, NewLimitOrder(x)) => NewLimitOrder(x) \notin In(state_changes')
      /\ Alive /\ NewLimitOrder(x) \in In(state_changes)
  BY Taken
<1>2. /\ In(take) \subseteq RemoteIds /\ In(make) \subseteq OwnIds
      /\ \A o \in In(take) : offer_book[o] # None
      /\ \A o \in In(make) : offers[o] = "absent"
  BY TakenAndMade
<1>3. /\ all \subseteq Ids /\ broken \subseteq Ids /\ \A o \in all \cup broken : offers[o] = "absent"
  BY <1>1, <1>2 DEF EverythingTimesOut, Ids
<1>4. /\ orders' = [orders EXCEPT ![x] = take \o make] /\ In(take \o make) = all
      /\ matches' = [o \in Ids |-> IF o \in In(take) THEN offer_book[o] ELSE matches[o]]
      /\ In(cs_events') = In(cs_events) \cup {<<"Commit", o>> : o \in all}
      /\ \A e : /\ Once(cs_events, e)
                /\ \A o \in all : e = <<"Commit", o>> => e \notin In(cs_events)
                => Once(cs_events', e)
      /\ UNCHANGED <<proofs, trader_events, transport_events, listener_events>>
  BY Initiated
<1>5. /\ \A o \in all : offers'[o] = "unproved"
      /\ \A o \in Ids \ all : \/ offers'[o] = offers[o]
                              \/ o \in broken /\ offers'[o] = "created"
      /\ \A o \in Ids \ (all \cup broken) : offers'[o] = offers[o]
  BY <1>3
<1>6. /\ \A o \in In(take) : matches'[o] \in Peers
      /\ \A o \in Ids \ In(take) : matches'[o] = matches[o]
  BY <1>2, <1>3, <1>4 DEF TypeOK
<1>7. /\ \A k, o : k # "Commit" \/ o \notin all =>
             /\ <<k, o>> \in In(cs_events') <=> <<k, o>> \in In(cs_events)
             /\ Once(cs_events, <<k, o>>) => Once(cs_events', <<k, o>>)
      /\ \A o \in all : Once(cs_events, <<"Commit", o>>) /\ <<"Commit", o>> \notin In(cs_events)
             => Once(cs_events', <<"Commit", o>>)
  <2> HIDE DEF all
  <2>1. ASSUME NEW k, NEW o, NEW p, <<k, o>> = <<"Commit", p>> PROVE k = "Commit" /\ o = p
    BY <2>1
  <2>2. ASSUME NEW k, NEW o, k # "Commit" \/ o \notin all
        PROVE  /\ <<k, o>> \in In(cs_events') <=> <<k, o>> \in In(cs_events)
               /\ Once(cs_events, <<k, o>>) => Once(cs_events', <<k, o>>)
    <3>1. \A p \in all : <<k, o>> # <<"Commit", p>>
      BY <2>1, <2>2
    <3> DEFINE e == <<k, o>>
    <3> HIDE DEF e
    <3>2. \A p \in all : e # <<"Commit", p>>
      BY <3>1 DEF e
    <3>3. (e \in In(cs_events') <=> e \in In(cs_events)) /\ (Once(cs_events, e) => Once(cs_events', e))
      BY <1>4, <3>2
    <3> QED BY <3>3 DEF e
  <2> QED BY <1>4, <2>2
<1> HIDE DEF all
<1>8. ASSUME NEW o \in Ids PROVE Progress(o)'
  <2>1. CASE o \in all
    BY <1>1, <1>2, <1>4, <1>5, <1>6, <2>1, IdsAssumption DEF Offers, Progress, Exchanged, Pending, all
  <2>2. CASE o \in broken /\ o \notin all
    BY <1>1, <1>3, <1>4, <1>5, <2>2 DEF Offers, Progress, Exchanged, Pending
  <2>3. CASE o \notin all \cup broken
    BY <1>1, <1>4, <1>5, <1>6, <2>3 DEF Offers, Progress, all
  <2> QED BY <2>1, <2>2, <2>3
<1>9. ASSUME NEW o \in Ids PROVE DepositOnce(o)'
  <2>1. CASE o \in all
    BY <1>1, <1>3, <1>4, <1>5, <1>7, <2>1 DEF Offers, DepositOnce
  <2>2. CASE o \notin all
    BY <1>1, <1>3, <1>4, <1>5, <1>7, <2>2 DEF Offers, DepositOnce
  <2> QED BY <2>1, <2>2
<1>10. ASSUME NEW o \in Ids PROVE SwapOnce(o)'
  <2>1. CASE o \in all \cup broken
    BY <1>1, <1>3, <1>4, <2>1 DEF Offers, SwapOnce, Exchanged, Pending
  <2>2. CASE o \notin all \cup broken
    BY <1>1, <1>4, <1>5, <1>6, <2>2 DEF Offers, SwapOnce, all
  <2> QED BY <2>1, <2>2
<1>11. ASSUME NEW o \in Ids PROVE TakerOnce(o)'
  <2>1. CASE o \in all \cup broken
    BY <1>1, <1>3, <1>7, <2>1 DEF Offers, TakerOnce
  <2>2. CASE o \notin all \cup broken
    BY <1>1, <1>5, <1>7, <2>2 DEF Offers, TakerOnce
  <2> QED BY <2>1, <2>2
<1>12. ASSUME NEW o \in Ids PROVE Watch(o)'
  <2>1. ASSUME NEW a, Noticed(a, o)' PROVE Noticed(a, o)
    BY <1>1, <1>4, <2>1 DEF Noticed
  <2>2. CASE o \in all \cup broken
    BY <1>1, <1>3, <1>4, <1>5, <1>7, <2>1, <2>2
       DEF Offers, Watch, Confirmed, Exchanged, Pending
  <2>3. CASE o \notin all \cup broken
    <3>1. Paid(o)' = Paid(o) /\ matches'[o] = matches[o]
      BY <1>1, <1>6, <2>3 DEF Paid, all
    <3> QED BY <1>1, <1>4, <1>5, <1>7, <2>1, <2>3, <3>1 DEF Offers, Watch, Expected, Queued
  <2> QED BY <2>2, <2>3
<1>13. ASSUME NEW key \in Keys PROVE PaymentOnce(key)'
  BY <1>1, <1>4 DEF Offers, PaymentOnce
<1>14. ASSUME NEW y \in OrderIds PROVE OrderOnce(y)'
  <2>1. In(orders'[x]) = all /\ \A z \in OrderIds \ {x} : orders'[z] = orders[z]
    BY <1>4 DEF QueueTypes
  <2>2. \A z \in OrderIds : \A o \in In(orders[z]) : o \in Ids /\ offers[o] # "absent" /\ o \notin all
    BY <1>3, QueuesTyped DEF Offers, OrderOnce
  <2>3. x \in asked /\ NewLimitOrder(x) \notin In(state_changes')
    BY <1>1 DEF Offers, OrderOnce
  <2>4. \A z \in OrderIds : \A o \in In(orders'[z]) : o \in Ids /\ offers'[o] # "absent"
    BY <1>3, <1>5, <2>1, <2>2
  <2>5. \A z \in OrderIds \ {y} : In(orders'[y]) \cap In(orders'[z]) = {}
    BY <2>1, <2>2 DEF Offers, OrderOnce
  <2>6. \A z \in OrderIds \ {x} : OrderOnce(z)
    BY DEF Offers
  <2>7. Once(state_changes', NewLimitOrder(y))
    BY <1>1 DEF Offers, OrderOnce
  <2>8. y # x /\ NewLimitOrder(y) \in In(state_changes') => orders'[y] = <<>> /\ y \in asked'
    BY <1>1, <2>1, <2>6 DEF OrderOnce
  <2>9. orders'[y] # <<>> => y \in asked'
    BY <1>1, <2>1, <2>3, <2>6 DEF OrderOnce
  <2> QED BY <2>3, <2>4, <2>5, <2>7, <2>8, <2>9 DEF OrderOnce
<1> QED BY <1>8, <1>9, <1>10, <1>11, <1>12, <1>13, <1>14 DEF Offers

\* The client of the commitment service takes an event from its queue.
LEMMA ClientTakes ==
    ASSUME QueueTypes, cs_events # <<>>, cs_events' = Tail(cs_events),
           NEW kind, Head(cs_events)[1] = kind
    PROVE  \E r \in Ids :
             /\ Head(cs_events)[2] = r /\ <<kind, r>> \in In(cs_events)
             /\ In(cs_events') \subseteq In(cs_events)
             /\ \A e : Once(cs_events, e) => Once(cs_events', e)
             /\ Once(cs_events, <<kind, r>>) => <<kind, r>> \notin In(cs_events')
             /\ \A k, o : (k # kind \/ o # r) /\ <<k, o>> \in In(cs_events) => <<k, o>> \in In(cs_events')
<1> DEFINE h == Head(cs_events)
<1>1. /\ h \in CsEvents /\ In(cs_events) = In(cs_events') \cup {h}
      /\ \A e : Once(cs_events, e) => Once(cs_events', e)
      /\ Once(cs_events, h) => h \notin In(cs_events')
  BY Popped DEF QueueTypes
<1>2. PICK r \in Ids : h = <<kind, r>> /\ h[2] = r
  BY <1>1 DEF CsEvents
<1>3. \A k, o : <<k, o>> = <<kind, r>> => k = kind /\ o = r
  OBVIOUS
<1> HIDE DEF h
<1>4. ASSUME NEW k, NEW o, k # kind \/ o # r, <<k, o>> \in In(cs_events) PROVE <<k, o>> \in In(cs_events')
  <2>1. <<k, o>> # h
    BY <1>2, <1>3, <1>4
  <2> QED BY <1>1, <1>4, <2>1
<1>5. /\ h \in In(cs_events) /\ In(cs_events') \subseteq In(cs_events)
      /\ Once(cs_events, h) => h \notin In(cs_events')
  BY <1>1
<1> QED BY <1>1, <1>2, <1>4, <1>5 DEF h

\* A commitment is sent, and its deposit handed to the trader.
LEMMA CommitStep ==
    ASSUME TypeOK, QueueTypes, Offers, ClientCommit
    PROVE  Offers'
<1>1. PICK r \in Ids :
        /\ Head(cs_events)[2] = r /\ <<"Commit", r>> \in In(cs_events)
        /\ In(cs_events') \subseteq In(cs_events)
        /\ \A e : Once(cs_events, e) => Once(cs_events', e)
        /\ Once(cs_events, <<"Commit", r>>) => <<"Commit", r>> \notin In(cs_events')
        /\ \A k, o : (k # "Commit" \/ o # r) /\ <<k, o>> \in In(cs_events) => <<k, o>> \in In(cs_events')
  BY ClientTakes DEF ClientCommit
<1>2. /\ UNCHANGED <<offers, proofs, orders, matches, consumers, state_changes, listener_events,
                     event_filters, taker_listeners, raiden_events, transfers, sent, asked>>
      /\ transport_events' = Append(transport_events, Message("Commitment", r, CS))
      /\ trader_events' = Append(trader_events, Deposit(r))
  BY <1>1 DEF ClientCommit, node, outside
<1>3. In(transport_events') = In(transport_events) \cup {Message("Commitment", r, CS)}
  BY <1>2, Appended, EventTypes DEF QueueTypes
<1>4. /\ In(trader_events') = In(trader_events) \cup {Deposit(r)}
      /\ \A t : Once(trader_events, t) /\ (t # Deposit(r) \/ Deposit(r) \notin In(trader_events))
                => Once(trader_events', t)
  <2>1. /\ trader_events \in Seq(Transfers \cup {OpenChannel})
        /\ Deposit(r) \in Transfers \cup {OpenChannel}
    BY EventTypes DEF QueueTypes
  <2> QED BY <1>2, <2>1, Appended
<1>5. ASSUME NEW o \in Ids PROVE Progress(o)'
  BY <1>2 DEF Offers, Progress, Alive
<1>6. ASSUME NEW o \in Ids PROVE DepositOnce(o)'
  <2>1. CASE o = r
    BY <1>1, <1>2, <1>4, <2>1 DEF Offers, DepositOnce
  <2>2. CASE o # r
    <3>1. Deposit(o) # Deposit(r)
      BY <2>2, TransfersDiffer
    <3> QED BY <1>1, <1>2, <1>4, <2>2, <3>1 DEF Offers, DepositOnce
  <2> QED BY <2>1, <2>2
<1>7. ASSUME NEW o \in Ids PROVE SwapOnce(o)'
  BY <1>2, <1>4, TransfersDiffer DEF Offers, SwapOnce
<1>8. ASSUME NEW o \in Ids PROVE TakerOnce(o)'
  BY <1>1, <1>2 DEF Offers, TakerOnce
<1>9. ASSUME NEW o \in Ids PROVE Watch(o)'
  <2>1. ASSUME NEW a, Noticed(a, o)' PROVE Noticed(a, o)
    BY <1>2, <2>1 DEF Noticed
  <2>2. Paid(o)' = Paid(o)
    BY <1>2 DEF Paid
  <2>3. Message("SwapExecution", o, CS) \in In(transport_events') =>
            Message("SwapExecution", o, CS) \in In(transport_events)
    BY <1>3, MessagesDiffer
  <2> QED BY <1>1, <1>2, <2>1, <2>2, <2>3 DEF Offers, Watch, Expected, Queued
<1>10. ASSUME NEW key \in Keys PROVE PaymentOnce(key)'
  BY <1>2 DEF Offers, PaymentOnce
<1>11. ASSUME NEW x \in OrderIds PROVE OrderOnce(x)'
  BY <1>2 DEF Offers, OrderOnce
<1> QED BY <1>5, <1>6, <1>7, <1>8, <1>9, <1>10, <1>11 DEF Offers

\* The node listens for the taker of an offer it has published.
LEMMA WaitForTakerStep ==
    ASSUME TypeOK, QueueTypes, Offers, ClientWaitForTaker
    PROVE  Offers'
<1>1. PICK r \in Ids :
        /\ Head(cs_events)[2] = r /\ <<"CommitmentProved", r>> \in In(cs_events)
        /\ In(cs_events') \subseteq In(cs_events)
        /\ \A e : Once(cs_events, e) => Once(cs_events', e)
        /\ Once(cs_events, <<"CommitmentProved", r>>) => <<"CommitmentProved", r>> \notin In(cs_events')
        /\ \A k, o : (k # "CommitmentProved" \/ o # r) /\ <<k, o>> \in In(cs_events)
                     => <<k, o>> \in In(cs_events')
  BY ClientTakes DEF ClientWaitForTaker
<1>2. /\ UNCHANGED <<offers, proofs, orders, matches, consumers, state_changes, trader_events,
                     transport_events, listener_events, event_filters, raiden_events, transfers,
                     sent, asked>>
      /\ taker_listeners' = taker_listeners \cup {r}
  BY <1>1 DEF ClientWaitForTaker, node, outside
<1>3. ASSUME NEW o \in Ids PROVE Progress(o)'
  BY <1>2 DEF Offers, Progress, Alive
<1>4. ASSUME NEW o \in Ids PROVE DepositOnce(o)'
  BY <1>1, <1>2 DEF Offers, DepositOnce
<1>5. ASSUME NEW o \in Ids PROVE SwapOnce(o)'
  BY <1>2 DEF Offers, SwapOnce
<1>6. ASSUME NEW o \in Ids PROVE TakerOnce(o)'
  BY <1>1, <1>2 DEF Offers, TakerOnce
<1>7. ASSUME NEW o \in Ids PROVE Watch(o)'
  <2>1. ASSUME NEW a, Noticed(a, o)' PROVE Noticed(a, o)
    BY <1>2, <2>1 DEF Noticed
  <2>2. Paid(o)' = Paid(o)
    BY <1>2 DEF Paid
  <2> QED BY <1>1, <1>2, <2>1, <2>2 DEF Offers, Watch, Expected, Queued
<1>8. ASSUME NEW key \in Keys PROVE PaymentOnce(key)'
  BY <1>2 DEF Offers, PaymentOnce
<1>9. ASSUME NEW x \in OrderIds PROVE OrderOnce(x)'
  BY <1>2 DEF Offers, OrderOnce
<1> QED BY <1>3, <1>4, <1>5, <1>6, <1>7, <1>8, <1>9 DEF Offers

\* The swap is confirmed, and the deposit expected back.
LEMMA ReceivedInboundStep ==
    ASSUME TypeOK, QueueTypes, Offers, ClientReceivedInbound
    PROVE  Offers'
<1>1. PICK r \in Ids :
        /\ Head(cs_events)[2] = r /\ <<"ReceivedInbound", r>> \in In(cs_events)
        /\ In(cs_events') \subseteq In(cs_events)
        /\ \A e : Once(cs_events, e) => Once(cs_events', e)
        /\ \A k, o : (k # "ReceivedInbound" \/ o # r) /\ <<k, o>> \in In(cs_events)
                     => <<k, o>> \in In(cs_events')
  BY ClientTakes DEF ClientReceivedInbound
<1>2. /\ UNCHANGED <<offers, proofs, orders, matches, consumers, state_changes, trader_events,
                     taker_listeners, event_filters, raiden_events, transfers, sent, asked>>
      /\ transport_events' = Append(transport_events, Message("SwapExecution", r, CS))
      /\ listener_events' = Append(listener_events, ExpectInbound(CS, r))
  BY <1>1 DEF ClientReceivedInbound, node, outside
<1>3. In(transport_events') = In(transport_events) \cup {Message("SwapExecution", r, CS)}
  BY <1>2, Appended, EventTypes DEF QueueTypes
<1>4. /\ In(listener_events') = In(listener_events) \cup {ExpectInbound(CS, r)}
      /\ \A e : Once(listener_events, e) /\ e # ExpectInbound(CS, r) => Once(listener_events', e)
  BY <1>2, Appended, EventTypes DEF QueueTypes
<1>5. ASSUME NEW o \in Ids PROVE Progress(o)'
  BY <1>2 DEF Offers, Progress, Alive
<1>6. ASSUME NEW o \in Ids PROVE DepositOnce(o)'
  BY <1>1, <1>2 DEF Offers, DepositOnce
<1>7. ASSUME NEW o \in Ids PROVE SwapOnce(o)'
  BY <1>2 DEF Offers, SwapOnce
<1>8. ASSUME NEW o \in Ids PROVE TakerOnce(o)'
  BY <1>1, <1>2 DEF Offers, TakerOnce
<1>9. ASSUME NEW o \in Ids PROVE Watch(o)'
  <2>1. ASSUME NEW a, Noticed(a, o)' PROVE Noticed(a, o) \/ (a = CS /\ o = r)
    BY <1>2, <1>4, <2>1, ListenerEventsDiffer DEF Noticed
  <2>2. Paid(o)' = Paid(o)
    BY <1>2 DEF Paid
  <2>3. Message("SwapExecution", o, CS) \in In(transport_events') =>
            Message("SwapExecution", o, CS) \in In(transport_events) \/ o = r
    BY <1>3, MessagesDiffer
  <2>4. ASSUME NEW key, Expected(key) PROVE Expected(key)'
    <3>1. \A e : Queued(listener_events, e) => Queued(listener_events', e)
      BY <1>4 DEF Queued, In
    <3> QED BY <1>2, <2>4, <3>1 DEF Expected
  <2>5. o = r => Expected(<<CS, o>>)' /\ offers[o] \in Confirmed
    <3>1. ExpectInbound(CS, r) \in In(listener_events')
      BY <1>4
    <3>2. Expected(<<CS, r>>)'
      BY <3>1 DEF Expected, Queued, In
    <3> QED BY <1>1, <3>2 DEF Offers, Watch
  <2>6. \A key : PaymentReceived(key) \in In(listener_events') => PaymentReceived(key) \in In(listener_events)
    BY <1>4, ListenerEventsDiffer
  <2>7. /\ \A a \in Peers : Noticed(a, o)' => offers[o] \in Exchanged /\ matches[o] = a
        /\ Noticed(CS, o)' => offers[o] \in Confirmed
    <3>1. ASSUME NEW a \in Peers, Noticed(a, o)' PROVE offers[o] \in Exchanged /\ matches[o] = a
      <4>1. Noticed(a, o)
        BY <2>1, <3>1, AddressAssumption
      <4> QED BY <4>1 DEF Offers, Watch
    <3>2. ASSUME Noticed(CS, o)' PROVE offers[o] \in Confirmed
      <4>1. Noticed(CS, o) \/ o = r
        BY <2>1, <3>2
      <4> QED BY <2>5, <4>1 DEF Offers, Watch
    <3> QED BY <3>1, <3>2
  <2>8. <<"ReceivedInbound", o>> \in In(cs_events) => <<"ReceivedInbound", o>> \in In(cs_events') \/ o = r
    BY <1>1
  <2>9. \/ <<"ReceivedInbound", o>> \in In(cs_events')
        \/ Message("SwapExecution", o, CS) \in In(transport_events') \cup sent'
        => offers[o] \in Confirmed
    BY <1>1, <1>2, <2>3, <2>5 DEF Offers, Watch
  <2>10. offers[o] = "wait_for_refund" /\ <<CS, o>> \notin raiden_events =>
             Expected(<<CS, o>>)' \/ <<"ReceivedInbound", o>> \in In(cs_events')
    BY <2>4, <2>5, <2>8 DEF Offers, Watch
  <2>11. offers[o] \in Confirmed =>
          /\ Paid(o)
          /\ TransferReceived(<<matches[o], o>>) \notin In(state_changes)
          /\ PaymentReceived(<<matches[o], o>>) \notin In(listener_events')
    BY <2>6 DEF Offers, Watch
  <2>12. /\ offers[o] = "completed" => <<CS, o>> \in raiden_events
         /\ offers[o] = "exchanging" /\ ~ Paid(o) => Expected(<<matches[o], o>>)'
    <3>1. PICK p : p = matches[o] /\ p = matches'[o]
      BY <1>2
    <3>2. Expected(<<p, o>>) => Expected(<<p, o>>)'
      BY <2>4
    <3> QED BY <3>1, <3>2 DEF Offers, Watch, Expected
  <2> QED BY <1>2, <2>2, <2>7, <2>9, <2>10, <2>11, <2>12 DEF Watch
<1>10. ASSUME NEW key \in Keys PROVE PaymentOnce(key)'
  BY <1>2, <1>4, ListenerEventsDiffer DEF Offers, PaymentOnce
<1>11. ASSUME NEW x \in OrderIds PROVE OrderOnce(x)'
  BY <1>2 DEF Offers, OrderOnce
<1> QED BY <1>5, <1>6, <1>7, <1>8, <1>9, <1>10, <1>11 DEF Offers

\* The trader starts a transfer: a deposit or a payment to the counterparty.
LEMMA TransferStep ==
    ASSUME TypeOK, QueueTypes, Offers, StartTransfer
    PROVE  Offers'
<1> DEFINE t == Head(trader_events)
<1>1. /\ t \in Transfers /\ t \in In(trader_events)
      /\ In(trader_events') \subseteq In(trader_events)
      /\ \A e : Once(trader_events, e) => Once(trader_events', e)
      /\ Once(trader_events, t) => t \notin In(trader_events')
  BY Popped DEF StartTransfer, QueueTypes
<1>2. /\ UNCHANGED <<offers, proofs, orders, matches, consumers, state_changes, cs_events,
                     transport_events, listener_events, event_filters, taker_listeners,
                     raiden_events, sent, asked>>
      /\ transfers'[t] = transfers[t] + 1 /\ transfers[t] \in Nat
      /\ \A u \in Transfers \ {t} : transfers'[u] = transfers[u]
  BY <1>1 DEF StartTransfer, node, TypeOK
<1> HIDE DEF t
<1>3. \A u \in Transfers : /\ transfers[u] \in Nat /\ transfers'[u] \in Nat
                           /\ transfers[u] > 0 => transfers'[u] > 0
  BY <1>1, <1>2 DEF TypeOK
<1>4. ASSUME NEW o \in Ids PROVE Progress(o)'
  BY <1>2, <1>3, EventTypes DEF Offers, Progress, Alive
<1>5. ASSUME NEW o \in Ids PROVE DepositOnce(o)'
  <2>1. Deposit(o) \in Transfers
    BY EventTypes
  <2>2. CASE t = Deposit(o)
    BY <1>1, <1>2, <2>1, <2>2 DEF Offers, DepositOnce
  <2>3. CASE t # Deposit(o)
    BY <1>1, <1>2, <2>1, <2>3 DEF Offers, DepositOnce
  <2> QED BY <2>2, <2>3
<1>6. ASSUME NEW o \in Ids PROVE SwapOnce(o)'
  <2> SUFFICES ASSUME NEW p \in Peers
               PROVE  /\ Once(trader_events', SwapInit(o, p)) /\ transfers'[SwapInit(o, p)] <= 1
                      /\ SwapInit(o, p) \in In(trader_events') => transfers'[SwapInit(o, p)] = 0
                      /\ SwapInit(o, p) \in In(trader_events') \/ transfers'[SwapInit(o, p)] > 0 =>
                            offers[o] \in Exchanged /\ matches[o] = p
    BY <1>2 DEF SwapOnce
  <2>1. SwapInit(o, p) \in Transfers
    BY EventTypes
  <2>2. /\ Once(trader_events, SwapInit(o, p)) /\ transfers[SwapInit(o, p)] <= 1
        /\ SwapInit(o, p) \in In(trader_events) => transfers[SwapInit(o, p)] = 0
        /\ SwapInit(o, p) \in In(trader_events) \/ transfers[SwapInit(o, p)] > 0 =>
              offers[o] \in Exchanged /\ matches[o] = p
    BY DEF Offers, SwapOnce
  <2>3. CASE t = SwapInit(o, p)
    BY <1>1, <1>2, <2>1, <2>2, <2>3
  <2>4. CASE t # SwapInit(o, p)
    BY <1>1, <1>2, <2>1, <2>2, <2>4
  <2> QED BY <2>3, <2>4
<1>7. ASSUME NEW o \in Ids PROVE TakerOnce(o)'
  BY <1>2 DEF Offers, TakerOnce
<1>8. ASSUME NEW o \in Ids PROVE Watch(o)'
  <2>1. ASSUME NEW a PROVE Noticed(a, o)' = Noticed(a, o)
    BY <1>2 DEF Noticed
  <2> QED BY <1>2, <2>1 DEF Offers, Watch, Expected, Queued, Paid
<1>9. ASSUME NEW key \in Keys PROVE PaymentOnce(key)'
  BY <1>2 DEF Offers, PaymentOnce
<1>10. ASSUME NEW x \in OrderIds PROVE OrderOnce(x)'
  BY <1>2 DEF Offers, OrderOnce
<1> QED BY <1>4, <1>5, <1>6, <1>7, <1>8, <1>9, <1>10 DEF Offers

\* The listener takes an event from its queue.
LEMMA ListenerTakes ==
    ASSUME QueueTypes, listener_events # <<>>, listener_events' = Tail(listener_events)
    PROVE  /\ Head(listener_events) \in ListenerEvents
           /\ In(listener_events) = In(listener_events') \cup {Head(listener_events)}
           /\ \A e : Once(listener_events, e) => Once(listener_events', e)
           /\ Once(listener_events, Head(listener_events)) =>
                  Head(listener_events) \notin In(listener_events')
BY Popped DEF QueueTypes

\* The listener stores what it is told to expect.
LEMMA ExpectStep ==
    ASSUME TypeOK, QueueTypes, Offers, ListenerExpect
    PROVE  Offers'
<1>1. PICK a \in Peers \cup {CS}, r \in Ids : Head(listener_events) = ExpectInbound(a, r)
  <2>1. \/ \E a \in Peers \cup {CS}, r \in Ids : Head(listener_events) = ExpectInbound(a, r)
        \/ \E key \in Keys : Head(listener_events) = PaymentReceived(key)
    <3>1. Head(listener_events) \in ListenerEvents
      BY ListenerTakes DEF ListenerExpect
    <3> QED BY <3>1 DEF ListenerEvents
  <2> QED BY <2>1, ListenerEventsDiffer DEF ListenerExpect
<1>2. /\ In(listener_events) = In(listener_events') \cup {ExpectInbound(a, r)}
      /\ \A e : Once(listener_events, e) => Once(listener_events', e)
      /\ event_filters' = event_filters \cup {<<a, r>>}
      /\ UNCHANGED <<offers, proofs, orders, matches, consumers, state_changes, cs_events,
                     trader_events, transport_events, taker_listeners, raiden_events, transfers,
                     sent, asked>>
  BY <1>1, ListenerTakes, ListenerEventsDiffer DEF ListenerExpect, node, outside
<1>3. ASSUME NEW o \in Ids PROVE Progress(o)' /\ DepositOnce(o)' /\ SwapOnce(o)' /\ TakerOnce(o)'
  BY <1>2 DEF Offers, Progress, DepositOnce, SwapOnce, TakerOnce, Alive
<1>4. ASSUME NEW o \in Ids PROVE Watch(o)'
  <2>1. ASSUME NEW b, Noticed(b, o)' PROVE Noticed(b, o)
    <3>1. \A c, p, d, q : <<c, p>> = <<d, q>> => c = d /\ p = q
      OBVIOUS
    <3> QED BY <1>2, <2>1, <3>1 DEF Noticed
  <2>2. Paid(o)' = Paid(o)
    BY <1>2 DEF Paid
  <2>3. ASSUME NEW b, Expected(<<b, o>>) PROVE Expected(<<b, o>>)'
    <3>1. <<b, o>> \in event_filters \/ ExpectInbound(b, o) \in In(listener_events)
      BY <2>3 DEF Expected, Queued, In
    <3>2. <<b, o>> \in event_filters' \/ ExpectInbound(b, o) \in In(listener_events')
      BY <1>2, <3>1, ListenerEventsDiffer
    <3> QED BY <3>2 DEF Expected, Queued, In
  <2>4. PICK p : p = matches[o] /\ p = matches'[o]
    BY <1>2
  <2>5. /\ Expected(<<p, o>>) => Expected(<<p, o>>)'
        /\ Expected(<<CS, o>>) => Expected(<<CS, o>>)'
    BY <2>3
  <2> QED BY <1>2, <2>1, <2>2, <2>4, <2>5 DEF Offers, Watch, Expected
<1>5. ASSUME NEW key \in Keys PROVE PaymentOnce(key)'
  BY <1>2 DEF Offers, PaymentOnce
<1>6. ASSUME NEW x \in OrderIds PROVE OrderOnce(x)'
  BY <1>2 DEF Offers, OrderOnce
<1> QED BY <1>3, <1>4, <1>5, <1>6 DEF Offers

\* The listener is told of a payment: an expected one goes to the node.
LEMMA PaymentStep ==
    ASSUME TypeOK, QueueTypes, Offers, ListenerPayment
    PROVE  Offers'
<1>1. PICK key \in Keys : Head(listener_events) = PaymentReceived(key) /\ Head(listener_events).key = key
  BY ListenerTakes, ListenerEventsDiffer DEF ListenerPayment, ListenerEvents
<1>2. /\ In(listener_events) = In(listener_events') \cup {PaymentReceived(key)}
      /\ \A e : Once(listener_events, e) => Once(listener_events', e)
      /\ Once(listener_events, PaymentReceived(key)) => PaymentReceived(key) \notin In(listener_events')
      /\ UNCHANGED <<offers, proofs, orders, matches, consumers, cs_events,
                     trader_events, transport_events, taker_listeners, raiden_events, transfers,
                     sent, asked>>
  BY <1>1, ListenerTakes DEF ListenerPayment, node, outside
<1>3. event_filters' = event_filters \ {key}
  <2>1. \A f \in Keys : Filter(f, key) <=> f = key
    BY DEF Filter, Keys
  <2> QED BY <1>1, <2>1 DEF ListenerPayment, TypeOK
<1>4. /\ In(state_changes) \subseteq In(state_changes')
      /\ In(state_changes') \subseteq In(state_changes) \cup {TransferReceived(key)}
      /\ TransferReceived(key) \in In(state_changes') =>
             TransferReceived(key) \in In(state_changes) \/ key \in event_filters
      /\ \A e : Once(state_changes, e) /\ (e # TransferReceived(key) \/ e \notin In(state_changes))
                => Once(state_changes', e)
      /\ TransferReceived(key) \notin In(state_changes)
  <2>1. TransferReceived(key) \notin In(state_changes)
    BY <1>2 DEF Offers, PaymentOnce
  <2>2. CASE {f \in event_filters : Filter(f, key)} # {}
    <3>1. key \in event_filters
      BY <2>2 DEF Filter, TypeOK, Keys
    <3>2. Dispatch(TransferReceived(key))
      BY <1>1, <2>2 DEF ListenerPayment
    <3> QED BY <2>1, <3>1, <3>2, Dispatched, StateChangeTypes
  <2>3. CASE {f \in event_filters : Filter(f, key)} = {}
    BY <1>1, <2>1, <2>3 DEF ListenerPayment
  <2> QED BY <2>2, <2>3
<1>5. key \in raiden_events
  BY <1>2 DEF Offers, PaymentOnce
<1>6. ASSUME NEW o \in Ids PROVE Progress(o)' /\ DepositOnce(o)' /\ SwapOnce(o)'
  BY <1>2, <1>4, Fields DEF Offers, Progress, DepositOnce, SwapOnce, Alive
<1>7. ASSUME NEW o \in Ids PROVE TakerOnce(o)'
  <2>1. \A p : TakerCall(o, p) # TransferReceived(key)
    BY Fields
  <2> QED BY <1>2, <1>4, <2>1 DEF Offers, TakerOnce
<1>8. ASSUME NEW o \in Ids PROVE Watch(o)'
  <2>1. \A b : TransferReceived(<<b, o>>) = TransferReceived(key) => <<b, o>> = key
    BY Fields DEF Keys
  <2>2. ASSUME NEW b, Noticed(b, o)' PROVE Noticed(b, o)
    BY <1>2, <1>3, <1>4, <2>1, <2>2 DEF Noticed
  <2>3. Paid(o)' = Paid(o)
    BY <1>2 DEF Paid
  <2>4. ASSUME NEW b, Expected(<<b, o>>), <<b, o>> # key PROVE Expected(<<b, o>>)'
    <3>1. <<b, o>> \in event_filters \/ ExpectInbound(b, o) \in In(listener_events)
      BY <2>4 DEF Expected, Queued, In
    <3>2. <<b, o>> \in event_filters' \/ ExpectInbound(b, o) \in In(listener_events')
      BY <1>2, <1>3, <2>4, <3>1, ListenerEventsDiffer
    <3> QED BY <3>2 DEF Expected, Queued, In
  <2>5. PICK p : p = matches[o] /\ p = matches'[o]
    BY <1>2
  <2>6. /\ Expected(<<p, o>>) /\ <<p, o>> \notin raiden_events => Expected(<<p, o>>)'
        /\ Expected(<<CS, o>>) /\ <<CS, o>> \notin raiden_events => Expected(<<CS, o>>)'
    BY <1>5, <2>4
  <2>7. offers[o] \in Confirmed =>
          /\ Paid(o)
          /\ TransferReceived(<<p, o>>) \notin In(state_changes')
          /\ PaymentReceived(<<p, o>>) \notin In(listener_events')
    BY <1>2, <1>4, <2>1, <2>5 DEF Offers, Watch
  <2> QED BY <1>2, <2>2, <2>3, <2>5, <2>6, <2>7 DEF Offers, Watch, Expected, Paid
<1>9. ASSUME NEW k \in Keys PROVE PaymentOnce(k)'
  <2>1. CASE k = key
    BY <1>2, <1>4, <1>5, <2>1 DEF Offers, PaymentOnce
  <2>2. CASE k # key
    <3>1. TransferReceived(k) # TransferReceived(key)
      BY <2>2, Fields DEF Keys
    <3> QED BY <1>2, <1>4, <3>1 DEF Offers, PaymentOnce
  <2> QED BY <2>1, <2>2
<1>10. ASSUME NEW x \in OrderIds PROVE OrderOnce(x)'
  <2>1. NewLimitOrder(x) # TransferReceived(key)
    BY Fields
  <2> QED BY <1>2, <1>4, <2>1 DEF Offers, OrderOnce
<1> QED BY <1>6, <1>7, <1>8, <1>9, <1>10 DEF Offers

\* The taker calls: the listener for it is gone.
LEMMA HearTakerStep ==
    ASSUME TypeOK, QueueTypes, Offers, NEW r \in OwnIds, NEW p \in Peers, HearTaker(r, p)
    PROVE  Offers'
<1>1. /\ UNCHANGED <<offers, proofs, orders, matches, consumers, cs_events, trader_events,
                     transport_events, listener_events, event_filters, raiden_events, transfers,
                     sent, asked>>
      /\ r \in taker_listeners /\ taker_listeners' = taker_listeners \ {r} /\ r \in Ids
  BY DEF HearTaker, node, outside, Ids
<1>2. /\ In(state_changes) \subseteq In(state_changes')
      /\ In(state_changes') \subseteq In(state_changes) \cup {TakerCall(r, p)}
      /\ \A x : Once(state_changes, x) /\ (x # TakerCall(r, p) \/ x \notin In(state_changes))
                => Once(state_changes', x)
  BY Dispatched, StateChangeTypes DEF HearTaker
<1>3. /\ \A x : TakerCall(r, p) # NewLimitOrder(x) /\ TakerCall(r, p) # CommitmentProof(x)
      /\ \A key : TakerCall(r, p) # TransferReceived(key)
      /\ \A o, q : TakerCall(r, p) = TakerCall(o, q) => o = r /\ q = p
  BY Fields
<1>4. \A q \in Peers : TakerCall(r, q) \notin In(state_changes)
  BY <1>1 DEF Offers, TakerOnce
<1>5. ASSUME NEW o \in Ids PROVE Progress(o)' /\ DepositOnce(o)' /\ SwapOnce(o)'
  BY <1>1, <1>2, <1>3 DEF Offers, Progress, DepositOnce, SwapOnce, Alive
<1>6. ASSUME NEW o \in Ids PROVE TakerOnce(o)'
  <2>1. CASE o = r
    BY <1>1, <1>2, <1>3, <1>4, <2>1 DEF Offers, TakerOnce
  <2>2. CASE o # r
    BY <1>1, <1>2, <1>3, <2>2 DEF Offers, TakerOnce
  <2> QED BY <2>1, <2>2
<1>7. ASSUME NEW o \in Ids PROVE Watch(o)'
  <2>1. ASSUME NEW a, Noticed(a, o)' PROVE Noticed(a, o)
    BY <1>1, <1>2, <1>3, <2>1 DEF Noticed
  <2> QED BY <1>1, <1>2, <1>3, <2>1 DEF Offers, Watch, Expected, Queued, Paid
<1>8. ASSUME NEW key \in Keys PROVE PaymentOnce(key)'
  BY <1>1, <1>2, <1>3 DEF Offers, PaymentOnce
<1>9. ASSUME NEW x \in OrderIds PROVE OrderOnce(x)'
  BY <1>1, <1>2, <1>3 DEF Offers, OrderOnce
<1> QED BY <1>5, <1>6, <1>7, <1>8, <1>9 DEF Offers

\* The poll sees a payment for the first time.
LEMMA PollStep ==
    ASSUME TypeOK, QueueTypes, Offers, NEW key \in Keys, PollPayment(key)
    PROVE  Offers'
<1>1. /\ UNCHANGED <<offers, proofs, orders, matches, consumers, state_changes, cs_events,
                     trader_events, transport_events, event_filters, taker_listeners, transfers,
                     sent, asked>>
      /\ key \notin raiden_events /\ raiden_events' = raiden_events \cup {key}
  BY DEF PollPayment, node
<1>2. /\ In(listener_events') = In(listener_events) \cup {PaymentReceived(key)}
      /\ \A e : Once(listener_events, e) /\ (e # PaymentReceived(key) \/ PaymentReceived(key) \notin In(listener_events))
                => Once(listener_events', e)
  BY Appended, EventTypes DEF PollPayment, QueueTypes
<1>3. /\ PaymentReceived(key) \notin In(listener_events)
      /\ TransferReceived(key) \notin In(state_changes)
  BY <1>1 DEF Offers, PaymentOnce
<1>4. ASSUME NEW o \in Ids PROVE Progress(o)' /\ DepositOnce(o)' /\ SwapOnce(o)' /\ TakerOnce(o)'
  BY <1>1 DEF Offers, Progress, DepositOnce, SwapOnce, TakerOnce, Alive
<1>5. ASSUME NEW o \in Ids PROVE Watch(o)'
  <2>1. ASSUME NEW a, Noticed(a, o)' PROVE Noticed(a, o)
    BY <1>1, <1>2, <2>1, ListenerEventsDiffer DEF Noticed
  <2>2. PICK p : p = matches[o] /\ p = matches'[o]
    BY <1>1
  <2>3. ASSUME NEW a, Expected(<<a, o>>) PROVE Expected(<<a, o>>)'
    <3>1. \A e : Queued(listener_events, e) => Queued(listener_events', e)
      BY <1>2 DEF Queued, In
    <3> QED BY <1>1, <2>3, <3>1 DEF Expected
  <2>4. /\ Expected(<<p, o>>) => Expected(<<p, o>>)'
        /\ Expected(<<CS, o>>) => Expected(<<CS, o>>)'
    BY <2>3
  <2>5. Paid(o) => Paid(o)'
    BY <1>1 DEF Paid
  <2>6. Paid(o) => <<p, o>> # key
    BY <1>1, <2>2 DEF Paid
  <2>7. PaymentReceived(<<p, o>>) \in In(listener_events') =>
            PaymentReceived(<<p, o>>) \in In(listener_events) \/ <<p, o>> = key
    BY <1>2, ListenerEventsDiffer
  <2> QED BY <1>1, <2>1, <2>2, <2>4, <2>5, <2>6, <2>7 DEF Offers, Watch, Expected
<1>6. ASSUME NEW k \in Keys PROVE PaymentOnce(k)'
  BY <1>1, <1>2, <1>3, ListenerEventsDiffer DEF Offers, PaymentOnce
<1>7. ASSUME NEW x \in OrderIds PROVE OrderOnce(x)'
  BY <1>1 DEF Offers, OrderOnce
<1> QED BY <1>4, <1>5, <1>6, <1>7 DEF Offers

\* The handlers that neither move an offer nor change its match are quiet.
LEMMA QuietHandler ==
    ASSUME TypeOK, QueueTypes, Offers, HandleStateChange,
           UNCHANGED <<offers, proofs, matches, orders>>,
           NoEvents \/ HandleMakeChannel
    PROVE  Offers'
<1>1. /\ UNCHANGED <<event_filters, taker_listeners, raiden_events, transfers, sent, asked>>
      /\ In(state_changes') \subseteq In(state_changes)
      /\ \A x : Once(state_changes, x) => Once(state_changes', x)
  BY Taken
<1>2. consumers' \subseteq consumers
  BY Handler
<1>3. UNCHANGED <<cs_events, transport_events, listener_events>>
  BY DEF NoEvents, HandleMakeChannel
<1>4. \A t \in Transfers : /\ t \in In(trader_events') => t \in In(trader_events)
                           /\ Once(trader_events, t) => Once(trader_events', t)
  <2>1. CASE NoEvents
    BY <2>1 DEF NoEvents
  <2>2. CASE HandleMakeChannel
    <3>1. /\ trader_events \in Seq(Transfers \cup {OpenChannel})
          /\ OpenChannel \in Transfers \cup {OpenChannel}
          /\ trader_events' = Append(trader_events, OpenChannel)
      BY <2>2 DEF QueueTypes, HandleMakeChannel
    <3>2. /\ In(trader_events') = In(trader_events) \cup {OpenChannel}
          /\ \A t : Once(trader_events, t) /\ t # OpenChannel => Once(trader_events', t)
      BY <3>1, Appended
    <3> QED BY <3>2, TransfersDiffer
  <2> QED BY <2>1, <2>2
<1>5. \A x \in OrderIds : Once(state_changes', NewLimitOrder(x))
  BY <1>1 DEF Offers, OrderOnce
<1> QED BY <1>1, <1>2, <1>3, <1>4, <1>5, QuietStep

\* Every handler keeps what the invariant says of the offers.
LEMMA HandlerOffers ==
    ASSUME TypeOK, QueueTypes, Offers, EverythingTimesOut, HandleStateChange
    PROVE  Offers'
<1>1. CASE HandleNewLimitOrder
  <2>1. PICK x \in OrderIds : sc = NewLimitOrder(x) /\ sc.order = x
    BY <1>1, Handler, Handled, Fields DEF HandleNewLimitOrder, Handling, sc
  <2>2. PICK take \in Takes, make \in Makes :
          /\ Initiate(x, take, make)
          /\ offers' = [o \in Ids |-> IF o \in In(take \o make) THEN "unproved" ELSE offers[o]]
    BY <1>1, <2>1 DEF HandleNewLimitOrder
  <2>3. In(take \o make) = In(take) \cup In(make)
    BY TakenAndMade
  <2>4. PICK broken \in SUBSET RemoteIds : broken = {}
    OBVIOUS
  <2>5. offers' = [o \in Ids |-> IF o \in In(take) \cup In(make) THEN "unproved"
                                 ELSE IF o \in broken THEN "created" ELSE offers[o]]
    BY <2>2, <2>3, <2>4
  <2> QED BY <2>1, <2>2, <2>4, <2>5, InitiateStep
<1>2. CASE HandleNewLimitOrderRaises
  <2>1. PICK x \in OrderIds : sc = NewLimitOrder(x) /\ sc.order = x
    BY <1>2, Handler, Handled, Fields DEF HandleNewLimitOrderRaises, Handling, sc
  <2>2. PICK take \in Takes, o \in RemoteIds :
          /\ Initiate(x, take, <<>>) /\ offer_book[o] # None
          /\ offers' = [p \in Ids |-> CASE p \in In(take) -> "unproved"
                                        [] p = o -> "created"
                                        [] OTHER -> offers[p]]
          /\ o \notin In(take)
    BY <1>2, <2>1 DEF HandleNewLimitOrderRaises
  <2>3. PICK make \in Makes : make = <<>> /\ In(make) = {}
    BY DEF Makes, In
  <2>4. PICK broken \in SUBSET RemoteIds : broken = {o}
    OBVIOUS
  <2>5. offers' = [p \in Ids |-> IF p \in In(take) \cup In(make) THEN "unproved"
                                 ELSE IF p \in broken THEN "created" ELSE offers[p]]
    BY <2>2, <2>3, <2>4
  <2>6. Alive' => broken = {}
    BY <1>2 DEF HandleNewLimitOrderRaises, Raise, Alive
  <2>7. Initiate(x, take, make) /\ \A p \in broken : offer_book[p] # None
    BY <2>2, <2>3, <2>4
  <2> QED BY <2>1, <2>5, <2>6, <2>7, InitiateStep
<1>3. CASE HandleCancelLimitOrder
  <2>1. PICK x \in OrderIds : sc.order = x
    BY <1>3, Handler, Handled, Fields DEF HandleCancelLimitOrder, Handling, sc
  <2>2. PICK i \in DOMAIN orders[x] :
          /\ offers[orders[x][i]] \in Open
          /\ offers' = [offers EXCEPT ![orders[x][i]] = "cancellation_requested"]
          /\ CsEvent("CancellationRequest", orders[x][i])
    BY <1>3, <2>1 DEF HandleCancelLimitOrder
  <2>3. PICK r \in Ids : orders[x][i] = r
    BY QueuesTyped DEF In
  <2>4. UNCHANGED <<proofs, orders, matches>>
    BY <1>3 DEF HandleCancelLimitOrder
  <2> QED BY <2>2, <2>3, <2>4, RequestStep
<1>4. CASE HandleOfferTimeout
  <2>1. PICK r \in Ids : sc.offer = r
    BY <1>4, Handler, Handled, Fields DEF HandleOfferTimeout, Handling, sc
  <2>2. /\ offers[r] \in Open /\ offers' = [offers EXCEPT ![r] = "cancellation_requested"]
        /\ CsEvent("CancellationRequest", r) /\ UNCHANGED <<proofs, orders, matches>>
    BY <1>4, <2>1 DEF HandleOfferTimeout
  <2> QED BY <2>2, RequestStep
<1>5. CASE /\ UNCHANGED <<offers, proofs, matches, orders>>
           /\ NoEvents \/ HandleMakeChannel
  BY <1>5, QuietHandler
<1>6. \/ HandleNewLimitOrder \/ HandleNewLimitOrderRaises \/ HandleCancelLimitOrder
      \/ HandleOfferTimeout \/ HandleOwnOfferPublished \/ HandleMakerProof \/ HandleTakerProof
      \/ HandleCancellationProof \/ HandleTakerCall \/ HandleTakerCallRaises \/ HandleInbound
      \/ HandleRefund
      \/ /\ UNCHANGED <<offers, proofs, matches, orders>>
         /\ NoEvents \/ HandleMakeChannel
  BY DEF HandleStateChange, HandleCancelClosedOrder, HandleOfferTimeoutRaises, HandleEntryTimeout,
         HandleOwnOfferPublishedRaises, HandleOfferPublished, HandleProofRaises,
         HandleCancellationProofRaises, HandleMakeChannel, node
<1> QED BY <1>1, <1>2, <1>3, <1>4, <1>5, <1>6, PublishStep, MakerProofStep, TakerProofStep,
           CancellationProofStep, TakerCallStep, TakerCallRaisesStep, InboundStep, RefundStep

\* A state change from outside that no offer acts on is quiet.
LEMMA QuietDispatch ==
    ASSUME TypeOK, QueueTypes, Offers, NEW e \in StateChange, Dispatch(e),
           UNCHANGED <<offers, proofs, matches, orders, consumers, cs_events, trader_events,
                       transport_events, listener_events, event_filters, taker_listeners,
                       raiden_events, transfers, sent>>,
           asked \subseteq asked',
           e.type \in {"NewLimitOrder", "CancelLimitOrder", "OfferTimeout", "OfferPublished",
                       "CommitmentProof", "CancellationProof", "MakeChannel"},
           \A o \in Ids : e = CommitmentProof(o) => transfers[Deposit(o)] > 0,
           \A x \in OrderIds : e = NewLimitOrder(x) => x \notin asked /\ x \in asked'
    PROVE  Offers'
<1>1. /\ In(state_changes') \subseteq In(state_changes) \cup {e}
      /\ \A x : Once(state_changes, x) /\ (x # e \/ e \notin In(state_changes)) => Once(state_changes', x)
  BY Dispatched
<1>2. /\ \A o, p : TakerCall(o, p) # e
      /\ \A key : TransferReceived(key) # e
  BY Fields
<1>3. ASSUME NEW x \in OrderIds
      PROVE  /\ Once(state_changes', NewLimitOrder(x))
             /\ NewLimitOrder(x) \in In(state_changes') =>
                    NewLimitOrder(x) \in In(state_changes) \/ (x \notin asked /\ x \in asked')
  BY <1>1 DEF Offers, OrderOnce
<1> QED BY <1>1, <1>2, <1>3, QuietStep

\* Every step keeps what the invariant says of the offers.
LEMMA OffersStep ==
    ASSUME TypeOK, QueueTypes, Offers, EverythingTimesOut, [Next]_vars
    PROVE  Offers'
<1>1. CASE HandleStateChange
  BY <1>1, HandlerOffers
<1>2. CASE ClientCancellation
  <2>1. PICK r \in Ids :
          /\ Head(cs_events)[2] = r
          /\ In(cs_events') \subseteq In(cs_events)
          /\ \A e : Once(cs_events, e) => Once(cs_events', e)
          /\ \A k, o : (k # "CancellationRequest" \/ o # r) /\ <<k, o>> \in In(cs_events)
                       => <<k, o>> \in In(cs_events')
    BY <1>2, ClientTakes DEF ClientCancellation
  <2>2. /\ UNCHANGED <<offers, proofs, orders, matches, consumers, state_changes, trader_events,
                       listener_events, event_filters, taker_listeners, raiden_events, transfers,
                       sent, asked>>
        /\ transport_events' = Append(transport_events, Message("Cancellation", r, CS))
    BY <1>2, <2>1 DEF ClientCancellation, node, outside
  <2>3. In(transport_events') = In(transport_events) \cup {Message("Cancellation", r, CS)}
    BY <2>2, Appended, EventTypes DEF QueueTypes
  <2>4. \A o : Message("SwapExecution", o, CS) # Message("Cancellation", r, CS)
    BY MessagesDiffer
  <2> QED BY <2>1, <2>2, <2>3, <2>4, QuietStep DEF Offers, OrderOnce
<1>3. CASE TraderMakeChannel
  <2>1. /\ In(trader_events') \subseteq In(trader_events)
        /\ \A t : Once(trader_events, t) => Once(trader_events', t)
    BY <1>3, Popped DEF TraderMakeChannel, QueueTypes
  <2>2. /\ UNCHANGED <<offers, proofs, orders, matches, state_changes, cs_events, transport_events,
                       listener_events, event_filters, taker_listeners, raiden_events, transfers,
                       sent, asked>>
        /\ consumers' \subseteq consumers
    BY <1>3 DEF TraderMakeChannel, node, outside
  <2>3. \A x \in OrderIds : Once(state_changes, NewLimitOrder(x))
    BY DEF Offers, OrderOnce
  <2> QED BY <2>1, <2>2, <2>3, QuietStep
<1>4. CASE Transport
  <2>1. In(transport_events) = In(Tail(transport_events)) \cup {Head(transport_events)}
    BY <1>4, Popped DEF Transport, TransportSend, TransportRaises, QueueTypes
  <2>2. /\ UNCHANGED <<offers, proofs, orders, matches, state_changes, cs_events, trader_events,
                       listener_events, event_filters, taker_listeners, raiden_events, transfers,
                       asked>>
        /\ consumers' \subseteq consumers
        /\ transport_events' = Tail(transport_events)
        /\ sent' \subseteq sent \cup {Head(transport_events)}
    BY <1>4 DEF Transport, TransportSend, TransportRaises, node, outside
  <2>3. \A x \in OrderIds : Once(state_changes, NewLimitOrder(x))
    BY DEF Offers, OrderOnce
  <2> QED BY <2>1, <2>2, <2>3, QuietStep
<1>5. CASE \E o \in Ids : TimerFires(o)
  <2>1. PICK o \in Ids : TimerFires(o)
    BY <1>5
  <2>2. /\ OfferTimeout(o).type = "OfferTimeout" /\ OfferTimeout(o) \in StateChange
        /\ \A p : OfferTimeout(o) # CommitmentProof(p) /\ OfferTimeout(o) # NewLimitOrder(p)
    BY Fields, StateChangeTypes
  <2> QED BY <2>1, <2>2, QuietDispatch DEF TimerFires, outside
<1>6. CASE Environment
  <2>1. ASSUME NEW x \in OrderIds, PlaceOrder(x) PROVE Offers'
    <3>1. /\ NewLimitOrder(x).type = "NewLimitOrder" /\ NewLimitOrder(x) \in StateChange
          /\ \A p : NewLimitOrder(x) # CommitmentProof(p)
          /\ \A y : NewLimitOrder(x) = NewLimitOrder(y) => y = x
      BY Fields, StateChangeTypes
    <3> QED BY <2>1, <3>1, QuietDispatch DEF PlaceOrder, on_api_call, node
  <2>2. ASSUME NEW x \in OrderIds, RequestCancel(x) PROVE Offers'
    <3>1. /\ CancelLimitOrder(x).type = "CancelLimitOrder" /\ CancelLimitOrder(x) \in StateChange
          /\ \A p : CancelLimitOrder(x) # CommitmentProof(p) /\ CancelLimitOrder(x) # NewLimitOrder(p)
      BY Fields, StateChangeTypes
    <3> QED BY <2>2, <3>1, QuietDispatch DEF RequestCancel, on_api_call, node, outside
  <2>3. ASSUME RequestChannel PROVE Offers'
    <3>1. /\ MakeChannel.type = "MakeChannel" /\ MakeChannel \in StateChange
          /\ \A p : MakeChannel # CommitmentProof(p) /\ MakeChannel # NewLimitOrder(p)
      BY Fields, StateChangeTypes
    <3> QED BY <2>3, <3>1, QuietDispatch DEF RequestChannel, on_api_call, node
  <2>4. ASSUME NEW o \in Ids, NEW p \in Peers \cup {None}, Hear("offer", o, OfferPublished(o, p))
        PROVE  Offers'
    <3>1. /\ OfferPublished(o, p).type = "OfferPublished" /\ OfferPublished(o, p) \in StateChange
          /\ \A q : OfferPublished(o, p) # CommitmentProof(q) /\ OfferPublished(o, p) # NewLimitOrder(q)
      BY Fields, StateChangeTypes
    <3> QED BY <2>4, <3>1, QuietDispatch DEF Hear, node
  <2>5. ASSUME NEW o \in Ids, HearCommitmentProof(o) PROVE Offers'
    <3>1. /\ CommitmentProof(o).type = "CommitmentProof" /\ CommitmentProof(o) \in StateChange
          /\ \A p : CommitmentProof(o) # NewLimitOrder(p)
          /\ \A p : CommitmentProof(o) = CommitmentProof(p) => p = o
      BY Fields, StateChangeTypes
    <3> QED BY <2>5, <3>1, QuietDispatch DEF HearCommitmentProof, Hear, node
  <2>6. ASSUME NEW o \in Ids, HearCancellationProof(o) PROVE Offers'
    <3>1. /\ CancellationProof(o).type = "CancellationProof" /\ CancellationProof(o) \in StateChange
          /\ \A p : CancellationProof(o) # CommitmentProof(p) /\ CancellationProof(o) # NewLimitOrder(p)
      BY Fields, StateChangeTypes
    <3> QED BY <2>6, <3>1, QuietDispatch DEF HearCancellationProof, Hear, node
  <2>7. ASSUME NEW o \in OwnIds, NEW p \in Peers, HearTaker(o, p) PROVE Offers'
    BY <2>7, HearTakerStep
  <2>8. ASSUME NEW key \in Keys, PollPayment(key) PROVE Offers'
    BY <2>8, PollStep
  <2> QED BY <1>6, <2>1, <2>2, <2>3, <2>4, <2>5, <2>6, <2>7, <2>8
          DEF Environment, HearOffer, HearOwnOffer, Ids
<1>7. CASE UNCHANGED vars
  <2>1. \A x \in OrderIds : Once(state_changes, NewLimitOrder(x))
    BY DEF Offers, OrderOnce
  <2> QED BY <1>7, <2>1, QuietStep DEF vars
<1> QED BY <1>1, <1>2, <1>3, <1>4, <1>5, <1>6, <1>7, CommitStep, WaitForTakerStep,
           ReceivedInboundStep, TransferStep, ExpectStep, PaymentStep
        DEF Next, CsClient, Trader, RaidenListener

-----------------------------------------------------------------------------
(* Timeouts. *)

\* A step keeps the timeouts if a timeout that waits in the queue stays there, and what
\* newly waits has a running timer.
LEMMA TimeoutKept ==
    ASSUME EverythingTimesOut, Alive, NEW S \in SUBSET Ids,
           \A o \in Ids \ S : OfferTimeout(o) \in In(state_changes) => OfferTimeout(o) \in In(state_changes'),
           \A o \in Ids \ S : timers[o] = "running" =>
               timers'[o] = "running" \/ OfferTimeout(o) \in In(state_changes'),
           \A o \in Ids : offers'[o] \in Waiting =>
               (offers[o] \in Waiting /\ o \notin S) \/ timers'[o] = "running",
           \A o \in RemoteIds : offer_book'[o] # None =>
               /\ (offer_book[o] # None /\ o \notin S) \/ timers'[o] = "running"
               /\ offers'[o] = "absent"
    PROVE  EverythingTimesOut'
<1>1. ASSUME NEW o \in Ids PROVE TimesOut(o) <=> timers[o] = "running" \/ OfferTimeout(o) \in In(state_changes)
  BY DEF TimesOut, Queued, In
<1>2. ASSUME NEW o \in Ids
      PROVE  TimesOut(o)' <=> timers'[o] = "running" \/ OfferTimeout(o) \in In(state_changes')
  BY DEF TimesOut, Queued, In
<1>3. ASSUME NEW o \in Ids, o \notin S, TimesOut(o) PROVE TimesOut(o)'
  BY <1>1, <1>2, <1>3
<1>4. ASSUME NEW o \in Ids, offers'[o] \in Waiting PROVE TimesOut(o)'
  <2>1. CASE timers'[o] = "running"
    BY <1>2, <2>1
  <2>2. CASE offers[o] \in Waiting /\ o \notin S
    BY <1>3, <2>2 DEF EverythingTimesOut
  <2> QED BY <1>4, <2>1, <2>2
<1>5. ASSUME NEW o \in RemoteIds, offer_book'[o] # None PROVE TimesOut(o)' /\ offers'[o] = "absent"
  <2>1. o \in Ids
    BY DEF Ids
  <2>2. CASE timers'[o] = "running"
    BY <1>2, <1>5, <2>1, <2>2
  <2>3. CASE offer_book[o] # None /\ o \notin S
    BY <1>3, <1>5, <2>1, <2>3 DEF EverythingTimesOut
  <2> QED BY <1>5, <2>2, <2>3
<1> QED BY <1>4, <1>5 DEF EverythingTimesOut

\* Handlers of anything but a timeout.
LEMMA OtherHandlerTimeouts ==
    ASSUME TypeOK, QueueTypes, EverythingTimesOut, HandleStateChange, Alive',
           sc.type # "OfferTimeout",
           \A o \in Ids : timers[o] = "running" => timers'[o] = "running" \/ offers'[o] = "completed",
           \A o \in Ids : offers'[o] \in Waiting => offers[o] \in Waiting \/ timers'[o] = "running",
           \A o \in RemoteIds : offer_book'[o] # None =>
               /\ offer_book[o] # None \/ timers'[o] = "running"
               /\ offers'[o] = "absent"
    PROVE  EverythingTimesOut'
<1> DEFINE S == {o \in Ids : offers'[o] = "completed"}
<1>1. Alive /\ \A o \in Ids : OfferTimeout(o) \in In(state_changes) => OfferTimeout(o) \in In(state_changes')
  <2>1. \A o : OfferTimeout(o) # sc
    BY Fields
  <2> QED BY <2>1, Taken
<1>2. S \in SUBSET Ids /\ \A o \in S : o \in Ids /\ offers'[o] \notin Waiting /\ offers'[o] # "absent"
  BY DEF Waiting
<1>3. \A o \in Ids \ S : timers[o] = "running" => timers'[o] = "running"
  OBVIOUS
<1>4. RemoteIds \subseteq Ids
  BY DEF Ids
<1> HIDE DEF S
<1> QED BY <1>1, <1>2, <1>3, <1>4, TimeoutKept

\* Every handler keeps the timeouts, unless it ends the node.
LEMMA HandlerTimeouts ==
    ASSUME TypeOK, QueueTypes, Offers, EverythingTimesOut, HandleStateChange, Alive'
    PROVE  EverythingTimesOut'
<1>1. /\ Alive /\ RemoteIds \subseteq Ids
      /\ \A o \in RemoteIds : offer_book[o] # None => offers[o] = "absent"
  BY Taken DEF EverythingTimesOut, Ids
<1>2. CASE HandleNewLimitOrder
  <2>1. PICK x \in OrderIds : sc.order = x
    BY <1>2, Handler, Handled, Fields DEF HandleNewLimitOrder, Handling, sc
  <2>2. PICK take \in Takes, make \in Makes :
          /\ Initiate(x, take, make)
          /\ offers' = [o \in Ids |-> IF o \in In(take \o make) THEN "unproved" ELSE offers[o]]
    BY <1>2, <2>1 DEF HandleNewLimitOrder
  <2>3. In(take \o make) = In(take) \cup In(make) /\ In(take) \subseteq RemoteIds /\ In(make) \subseteq OwnIds
    BY TakenAndMade
  <2>4. /\ timers' = [o \in Ids |-> IF o \in In(take) \cup In(make) THEN "running" ELSE timers[o]]
        /\ offer_book' = [o \in RemoteIds |-> IF o \in In(take) THEN None ELSE offer_book[o]]
    BY <2>2, Initiated
  <2>5. \A o \in Ids : /\ timers[o] = "running" => timers'[o] = "running"
                       /\ offers'[o] \in Waiting => offers[o] \in Waiting \/ timers'[o] = "running"
    BY <2>2, <2>3, <2>4
  <2>6. \A o \in RemoteIds : offer_book'[o] # None => offer_book[o] # None /\ offers'[o] = "absent"
    BY <1>1, <2>2, <2>3, <2>4, IdsAssumption
  <2>7. sc.type # "OfferTimeout"
    BY <1>2 DEF HandleNewLimitOrder, Handling, sc
  <2> QED BY <2>5, <2>6, <2>7, OtherHandlerTimeouts
<1>3. CASE HandleOfferTimeout
  <2>1. PICK r \in Ids : sc = OfferTimeout(r) /\ sc.offer = r
    BY <1>3, Handler, Handled, Fields DEF HandleOfferTimeout, Handling, sc
  <2>2. \A o \in Ids \ {r} : OfferTimeout(o) # sc
    BY <2>1, Fields
  <2>3. /\ offers'[r] = "cancellation_requested" /\ \A o \in Ids \ {r} : offers'[o] = offers[o]
        /\ \A o \in Ids \ {r} : timers'[o] = timers[o]
        /\ offers[r] # "absent" /\ offer_book' = offer_book
    BY <1>3, <2>1 DEF HandleOfferTimeout, TypeOK, Open, Waiting
  <2>4. \A o \in Ids \ {r} : OfferTimeout(o) \in In(state_changes) => OfferTimeout(o) \in In(state_changes')
    BY <2>2, Taken
  <2>5. offers'[r] \notin Waiting
    BY <2>3 DEF Waiting
  <2>6. PICK S \in SUBSET Ids : S = {r}
    OBVIOUS
  <2> QED BY <1>1, <2>3, <2>4, <2>5, <2>6, TimeoutKept
<1>4. CASE HandleEntryTimeout
  <2>1. PICK r \in Ids : sc = OfferTimeout(r) /\ sc.offer = r
    BY <1>4, Handler, Handled, Fields DEF HandleEntryTimeout, Handling, sc
  <2>2. \A o \in Ids \ {r} : OfferTimeout(o) # sc
    BY <2>1, Fields
  <2>3. /\ offers' = offers /\ offers[r] = "absent"
        /\ \A o \in Ids \ {r} : timers'[o] = timers[o]
        /\ \A o \in RemoteIds : offer_book'[o] # None => offer_book[o] # None /\ o # r
    BY <1>4, <2>1 DEF HandleEntryTimeout, TypeOK
  <2>4. \A o \in Ids \ {r} : OfferTimeout(o) \in In(state_changes) => OfferTimeout(o) \in In(state_changes')
    BY <2>2, Taken
  <2>5. offers'[r] \notin Waiting
    BY <2>3 DEF Waiting
  <2>6. PICK S \in SUBSET Ids : S = {r}
    OBVIOUS
  <2> QED BY <1>1, <2>3, <2>4, <2>5, <2>6, TimeoutKept
<1>5. CASE HandleOfferPublished
  <2>1. PICK r \in Ids : sc.offer = r
    BY <1>5, Handler, Handled, Fields DEF HandleOfferPublished, Handling, sc
  <2>2. /\ offers' = offers /\ offers[r] = "absent" /\ timers'[r] = "running"
        /\ \A o \in Ids \ {r} : timers'[o] = timers[o]
        /\ \A o \in RemoteIds \ {r} : offer_book'[o] = offer_book[o]
        /\ sc.type # "OfferTimeout"
    BY <1>5, <2>1 DEF HandleOfferPublished, TypeOK, Handling, sc
  <2> QED BY <1>1, <2>2, OtherHandlerTimeouts
<1>6. CASE HandleOwnOfferPublished
  <2>1. PICK r \in Ids : sc.offer = r
    BY <1>6, Handler, Handled, Fields DEF HandleOwnOfferPublished, Handling, sc
  <2>2. /\ offers[r] = "proved" /\ \A o \in Ids \ {r} : offers'[o] = offers[o]
        /\ UNCHANGED <<timers, offer_book>> /\ sc.type # "OfferTimeout"
    BY <1>6, <2>1 DEF HandleOwnOfferPublished, TypeOK, Handling, sc
  <2> QED BY <1>1, <2>2, OtherHandlerTimeouts DEF Waiting
<1>7. CASE HandleMakerProof \/ HandleTakerProof
  <2>1. PICK r \in Ids : sc.offer = r
    BY <1>7, Handler, Handled, Fields DEF HandleMakerProof, HandleTakerProof, Handling, sc
  <2>2. /\ offers[r] = "unproved" /\ \A o \in Ids \ {r} : offers'[o] = offers[o]
        /\ UNCHANGED <<timers, offer_book>> /\ sc.type # "OfferTimeout"
    BY <1>7, <2>1 DEF HandleMakerProof, HandleTakerProof, TypeOK, Handling, sc
  <2> QED BY <1>1, <2>2, OtherHandlerTimeouts DEF Waiting
<1>8. CASE HandleCancellationProof
  <2>1. PICK r \in Ids : sc.offer = r
    BY <1>8, Handler, Handled, Fields DEF HandleCancellationProof, Handling, sc
  <2>2. /\ offers[r] # "absent" /\ \A o \in Ids \ {r} : offers'[o] = offers[o]
        /\ offers'[r] = "canceled"
        /\ UNCHANGED <<timers, offer_book>> /\ sc.type # "OfferTimeout"
    BY <1>8, <2>1 DEF HandleCancellationProof, TypeOK, Handling, sc, Open, Waiting
  <2> QED BY <1>1, <2>2, OtherHandlerTimeouts DEF Waiting
<1>9. CASE HandleTakerCall
  <2>1. PICK r \in Ids : sc.offer = r
    BY <1>9, Handler, Handled, Fields DEF HandleTakerCall, Handling, sc, Ids
  <2>2. /\ offers[r] # "absent" /\ \A o \in Ids \ {r} : offers'[o] = offers[o]
        /\ offers'[r] = "exchanging"
        /\ UNCHANGED <<timers, offer_book>> /\ sc.type # "OfferTimeout"
    BY <1>9, <2>1 DEF HandleTakerCall, TypeOK, Handling, sc
  <2> QED BY <1>1, <2>2, OtherHandlerTimeouts DEF Waiting
<1>10. CASE HandleInbound \/ HandleRefund
  <2>1. PICK r \in Ids : sc.offer = r
    BY <1>10, Handler, Handled, Fields DEF HandleInbound, HandleRefund, Handling, sc, Keys
  <2>2. /\ offers[r] # "absent" /\ \A o \in Ids \ {r} : offers'[o] = offers[o]
        /\ \/ offers'[r] = "wait_for_refund" /\ timers' = timers
           \/ offers'[r] = "completed" /\ \A o \in Ids \ {r} : timers'[o] = timers[o]
        /\ UNCHANGED offer_book /\ sc.type # "OfferTimeout"
    BY <1>10, <2>1 DEF HandleInbound, HandleRefund, TypeOK, Handling, sc
  <2> QED BY <1>1, <2>2, OtherHandlerTimeouts DEF Waiting
<1>11. CASE HandleCancelClosedOrder \/ HandleMakeChannel
  <2>1. UNCHANGED <<offers, timers, offer_book>> /\ sc.type # "OfferTimeout"
    BY <1>11 DEF HandleCancelClosedOrder, HandleMakeChannel, node, Handling, sc
  <2> QED BY <1>1, <2>1, OtherHandlerTimeouts
<1>12. ~ Raise
  BY DEF Raise, Alive
<1> QED BY <1>2, <1>3, <1>4, <1>5, <1>6, <1>7, <1>8, <1>9, <1>10, <1>11, <1>12
        DEF HandleStateChange, HandleNewLimitOrderRaises, HandleCancelLimitOrder,
            HandleOfferTimeoutRaises, HandleOwnOfferPublishedRaises, HandleProofRaises,
            HandleCancellationProofRaises, HandleTakerCallRaises

\* Every step keeps the timeouts.
LEMMA TimeoutStep ==
    ASSUME TypeOK, QueueTypes, Offers, EverythingTimesOut, [Next]_vars
    PROVE  EverythingTimesOut'
<1> SUFFICES ASSUME Alive' PROVE EverythingTimesOut'
  BY DEF EverythingTimesOut
<1>1. CASE HandleStateChange
  BY <1>1, HandlerTimeouts
<1>2. CASE \E o \in Ids : TimerFires(o)
  <2>1. PICK r \in Ids : TimerFires(r)
    BY <1>2
  <2>2. /\ UNCHANGED <<offers, offer_book, consumers>>
        /\ \A o \in Ids \ {r} : timers'[o] = timers[o]
    BY <2>1 DEF TimerFires, TypeOK
  <2>3. Alive
    BY <2>2 DEF Alive
  <2>4. /\ In(state_changes) \subseteq In(state_changes')
        /\ OfferTimeout(r) \in In(state_changes')
    BY <2>1, <2>3, Dispatched, StateChangeTypes DEF TimerFires
  <2>5. PICK S \in SUBSET Ids : S = {}
    OBVIOUS
  <2>6. \A o \in RemoteIds : offer_book[o] # None => offers[o] = "absent"
    BY <2>3 DEF EverythingTimesOut
  <2> QED BY <2>2, <2>3, <2>4, <2>5, <2>6, TimeoutKept
<1>3. CASE /\ UNCHANGED <<offers, timers, offer_book>>
           /\ consumers' \subseteq consumers
           /\ \E e \in StateChange : Dispatch(e) \/ UNCHANGED state_changes
  <2>1. In(state_changes) \subseteq In(state_changes')
    BY <1>3, Dispatched
  <2>2. Alive
    BY <1>3 DEF Alive
  <2>3. PICK S \in SUBSET Ids : S = {}
    OBVIOUS
  <2>4. \A o \in RemoteIds : offer_book[o] # None => offers[o] = "absent"
    BY <2>2 DEF EverythingTimesOut
  <2> QED BY <1>3, <2>1, <2>2, <2>3, <2>4, TimeoutKept
<1>4. ASSUME CsClient \/ Trader \/ Transport \/ ListenerExpect \/ UNCHANGED vars
      PROVE  UNCHANGED <<offers, timers, offer_book, state_changes>> /\ consumers' \subseteq consumers
  BY <1>4 DEF CsClient, ClientCommit, ClientWaitForTaker, ClientReceivedInbound, ClientCancellation,
              Trader, StartTransfer, TraderMakeChannel, Transport, TransportSend, TransportRaises,
              ListenerExpect, node, vars
<1>5. ASSUME ListenerPayment
      PROVE  /\ UNCHANGED <<offers, timers, offer_book, consumers>>
             /\ \E e \in StateChange : Dispatch(e) \/ UNCHANGED state_changes
  <2>1. PICK key \in Keys : Head(listener_events).key = key
    BY <1>5, ListenerTakes, ListenerEventsDiffer DEF ListenerPayment, ListenerEvents
  <2> QED BY <1>5, <2>1, StateChangeTypes DEF ListenerPayment, node
<1>6. ASSUME Environment
      PROVE  /\ UNCHANGED <<offers, timers, offer_book, consumers>>
             /\ \E e \in StateChange : Dispatch(e) \/ UNCHANGED state_changes
  BY <1>6, EnvironmentDispatches, StateChangeTypes DEF PollPayment, node
<1>7. MakeChannel \in StateChange
  BY StateChangeTypes
<1> QED BY <1>1, <1>2, <1>3, <1>4, <1>5, <1>6, <1>7 DEF Next, RaidenListener

-----------------------------------------------------------------------------
(* The inductive invariant. *)

\* The invariant holds initially.
LEMMA IInvInit ==
    ASSUME Init
    PROVE  IInv
<1>1. TypeOK /\ QueueTypes
  BY TypeInit, TypeParts
<1>2. \A e : Once(<<>>, e) /\ e \notin In(<<>>)
  BY DEF Once, In
<1>3. \A t \in Transfers : transfers[t] = 0
  BY DEF Init
<1>4. /\ state_changes = <<>> /\ cs_events = <<>> /\ trader_events = <<>>
      /\ transport_events = <<>> /\ listener_events = <<>>
      /\ proofs = {} /\ event_filters = {} /\ taker_listeners = {} /\ sent = {}
      /\ \A o \in Ids : offers[o] = "absent"
      /\ \A x \in OrderIds : orders[x] = <<>>
      /\ \A o \in RemoteIds : offer_book[o] = None
  BY DEF Init
<1>5. ASSUME NEW o \in Ids PROVE Progress(o) /\ DepositOnce(o) /\ SwapOnce(o)
  <2>1. Progress(o)
    BY <1>2, <1>4 DEF Progress, Exchanged, Pending
  <2>2. DepositOnce(o)
    BY <1>2, <1>3, <1>4, EventTypes DEF DepositOnce
  <2>3. SwapOnce(o)
    BY <1>2, <1>3, <1>4, EventTypes DEF SwapOnce
  <2> QED BY <2>1, <2>2, <2>3
<1>6. ASSUME NEW o \in Ids PROVE TakerOnce(o)
  BY <1>2, <1>4 DEF TakerOnce
<1>7. ASSUME NEW o \in Ids PROVE Watch(o)
  BY <1>2, <1>4 DEF Watch, Noticed, Confirmed
<1>8. ASSUME NEW key \in Keys PROVE PaymentOnce(key)
  BY <1>2, <1>4 DEF PaymentOnce
<1>9. ASSUME NEW x \in OrderIds PROVE OrderOnce(x)
  BY <1>2, <1>4 DEF OrderOnce
<1>10. EverythingTimesOut
  BY <1>4 DEF EverythingTimesOut, Waiting
<1> QED BY <1>1, <1>5, <1>6, <1>7, <1>8, <1>9, <1>10 DEF IInv, Offers

\* Every step keeps the invariant.
LEMMA IInvStep ==
    ASSUME IInv, [Next]_vars
    PROVE  IInv'
<1>1. TypeOK /\ QueueTypes /\ Offers /\ EverythingTimesOut
  BY DEF IInv
<1>2. \A o \in Ids : <<"CommitmentProved", o>> \in In(cs_events) => o \in OwnIds
  BY <1>1 DEF Offers, TakerOnce
<1>3. (StateTypes /\ QueueTypes)'
  BY <1>1, <1>2, TypeParts, TypeStep
<1>4. (TypeOK /\ QueueTypes)'
  BY <1>3, TypeParts, PTL
<1> QED BY <1>1, <1>4, OffersStep, TimeoutStep DEF IInv

\* The inductive invariant holds in every state the node can reach.
THEOREM NodeInvariant == Spec => []IInv
BY IInvInit, IInvStep, PTL DEF Spec

\* Every variable of the node has its type in every state.
THEOREM NodeTypes == Spec => []TypeOK
<1>1. IInv => TypeOK
  BY DEF IInv
<1> QED BY <1>1, NodeInvariant, PTL

-----------------------------------------------------------------------------
(* What the node promises. *)

\* A transfer that was started is in the queue of the trader or was made.
LEMMA StartedParts ==
    ASSUME TypeOK, QueueTypes, NEW t \in Transfers
    PROVE  /\ Started(t) \in Nat
           /\ Started(t) > 0 <=> t \in In(trader_events) \/ transfers[t] > 0
           /\ /\ Once(trader_events, t) /\ transfers[t] <= 1
              /\ t \in In(trader_events) => transfers[t] = 0
              => Started(t) <= 1
<1>1. transfers[t] \in Nat /\ trader_events \in Seq(Transfers \cup {OpenChannel})
  BY DEF TypeOK, QueueTypes
<1>2. /\ Waits(trader_events, t) \in Nat
      /\ t \notin In(trader_events) => Waits(trader_events, t) = 0
      /\ Waits(trader_events, t) = 0 => t \notin In(trader_events)
      /\ Once(trader_events, t) => Waits(trader_events, t) <= 1
  BY <1>1, WaitsOnce
<1> QED BY <1>1, <1>2 DEF Started

\* The node pays the deposit of an offer at most once and one counterparty at most once,
\* for any number of offers, orders and peers, whatever is late, repeated or raised.
THEOREM NodePaysOnce == Spec => []PaysOnce
<1>1. IInv => PaysOnce
  <2> SUFFICES ASSUME TypeOK, QueueTypes, Offers, NEW o \in Ids
               PROVE  /\ Started(Deposit(o)) <= 1
                      /\ Cardinality({p \in Peers : Started(SwapInit(o, p)) > 0}) <= 1
                      /\ \A p \in Peers : Started(SwapInit(o, p)) <= 1
    BY DEF IInv, PaysOnce
  <2>1. Started(Deposit(o)) <= 1
    BY StartedParts, EventTypes DEF Offers, DepositOnce
  <2>2. ASSUME NEW p \in Peers
        PROVE  /\ Started(SwapInit(o, p)) <= 1
               /\ Started(SwapInit(o, p)) > 0 => matches[o] = p
    BY StartedParts, EventTypes DEF Offers, SwapOnce
  <2> DEFINE paid == {p \in Peers : Started(SwapInit(o, p)) > 0}
  <2>3. paid = {} \/ paid = {matches[o]}
    BY <2>2
  <2> HIDE DEF paid
  <2>4. Cardinality(paid) <= 1
    BY <2>3, FS_EmptySet, FS_Singleton
  <2> QED BY <2>1, <2>2, <2>4 DEF paid
<1> QED BY <1>1, NodeInvariant, PTL

\* The node pays a counterparty only if it is matched with it and the service has proved the
\* node's own commitment, for which it has paid the deposit.
THEOREM NodePaysOnlyProved == Spec => []PaysOnlyProved
<1>1. IInv => PaysOnlyProved
  <2> SUFFICES ASSUME TypeOK, QueueTypes, Offers, NEW o \in Ids, NEW p \in Peers,
                      Started(SwapInit(o, p)) > 0
               PROVE  /\ o \in proofs /\ matches[o] = p
                      /\ transfers[Deposit(o)] = 1
                      /\ offers[o] \in Pending \cup {"completed"}
    BY DEF IInv, PaysOnlyProved
  <2>1. offers[o] \in Exchanged /\ matches[o] = p
    BY StartedParts, EventTypes DEF Offers, SwapOnce
  <2>2. o \in proofs /\ transfers[Deposit(o)] > 0
    BY <2>1 DEF Offers, Progress
  <2>3. transfers[Deposit(o)] <= 1 /\ transfers[Deposit(o)] \in Nat
    BY EventTypes DEF Offers, DepositOnce, TypeOK
  <2> QED BY <2>1, <2>2, <2>3 DEF Exchanged
<1> QED BY <1>1, NodeInvariant, PTL

\* The node confirms a swap only after the payment of the counterparty it is matched with,
\* and completes an offer only after its deposit has come back, too.
THEOREM NodeConfirmsOnlyPaid == Spec => []ConfirmsOnlyPaid
<1>1. IInv => ConfirmsOnlyPaid
  <2> SUFFICES ASSUME Offers, NEW o \in Ids
               PROVE  /\ \/ Message("SwapExecution", o, CS) \in sent
                         \/ Queued(transport_events, Message("SwapExecution", o, CS))
                         \/ offers[o] = "wait_for_refund"
                         => Paid(o)
                      /\ offers[o] = "completed" => Paid(o) /\ <<CS, o>> \in raiden_events
    BY DEF IInv, ConfirmsOnlyPaid
  <2>1. \A e : Queued(transport_events, e) => e \in In(transport_events)
    BY DEF Queued, In
  <2> QED BY <2>1 DEF Offers, Watch, Confirmed
<1> QED BY <1>1, NodeInvariant, PTL

\* While the node waits for a payment that has not come, the listener expects it or is told to.
THEOREM NodeExchangeIsWatched == Spec => []ExchangeIsWatched
<1>1. IInv => ExchangeIsWatched
  <2>1. \A e : e \in In(cs_events) => Queued(cs_events, e)
    BY DEF Queued, In
  <2> QED BY <2>1 DEF IInv, Offers, Watch, ExchangeIsWatched
<1> QED BY <1>1, NodeInvariant, PTL

\* What waits for a proof, a match or an order has a timer that runs or has its timeout queued.
THEOREM NodeEverythingTimesOut == Spec => []EverythingTimesOut
<1>1. IInv => EverythingTimesOut
  BY DEF IInv
<1> QED BY <1>1, NodeInvariant, PTL

\* How offers and orders move: what is completed or canceled stays so, what is neither open
\* nor new never opens again, an exchange is never left, and the offers of an order are
\* assigned once.
LEMMA OfferMoves ==
    ASSUME IInv, [Next]_vars
    PROVE  /\ \A o \in Ids :
                  /\ offers[o] = "completed" => offers'[o] = "completed"
                  /\ offers[o] = "canceled" => offers'[o] = "canceled"
                  /\ offers[o] \notin Open \cup {"absent"} => offers'[o] \notin Open
                  /\ offers[o] \in Exchanged => offers'[o] \in Exchanged
           /\ \A x \in OrderIds : orders[x] # <<>> => orders'[x] = orders[x]
<1> DEFINE Moves == \A o \in Ids :
                        /\ offers[o] = "completed" => offers'[o] = "completed"
                        /\ offers[o] = "canceled" => offers'[o] = "canceled"
                        /\ offers[o] \notin Open \cup {"absent"} => offers'[o] \notin Open
                        /\ offers[o] \in Exchanged => offers'[o] \in Exchanged
           Kept == \A x \in OrderIds : orders[x] # <<>> => orders'[x] = orders[x]
<1>1. TypeOK /\ QueueTypes /\ Offers /\ EverythingTimesOut
  BY DEF IInv
<1>2. ASSUME NEW x \in OrderIds, sc = NewLimitOrder(x), HandleStateChange,
             NEW take \in Takes, NEW make \in Makes, Initiate(x, take, make)
      PROVE  /\ Kept /\ \A o \in In(take) \cup In(make) : offers[o] = "absent"
             /\ \A o \in RemoteIds : offer_book[o] # None => offers[o] = "absent"
  <2>1. NewLimitOrder(x) \in In(state_changes) /\ Alive
    BY <1>1, <1>2, Taken
  <2>2. orders[x] = <<>>
    BY <1>1, <2>1 DEF Offers, OrderOnce
  <2>3. orders' = [orders EXCEPT ![x] = take \o make]
    BY <1>1, <1>2, Initiated
  <2>4. \A o \in RemoteIds : offer_book[o] # None => offers[o] = "absent"
    BY <1>1, <2>1 DEF EverythingTimesOut
  <2>5. Kept
    BY <1>1, <2>2, <2>3 DEF QueueTypes
  <2> QED BY <2>4, <2>5, TakenAndMade
<1>3. CASE HandleNewLimitOrder
  <2>1. PICK x \in OrderIds : sc = NewLimitOrder(x) /\ sc.order = x
    BY <1>1, <1>3, Handled, Fields DEF HandleNewLimitOrder, Handling, sc
  <2>2. PICK take \in Takes, make \in Makes :
          /\ Initiate(x, take, make)
          /\ offers' = [o \in Ids |-> IF o \in In(take \o make) THEN "unproved" ELSE offers[o]]
    BY <1>3, <2>1 DEF HandleNewLimitOrder
  <2>3. In(take \o make) = In(take) \cup In(make)
    BY TakenAndMade
  <2>4. Kept /\ \A o \in In(take \o make) : offers[o] = "absent"
    BY <1>2, <1>3, <2>1, <2>2, <2>3 DEF HandleStateChange
  <2>5. Moves
    BY <2>2, <2>4 DEF Exchanged, Pending
  <2> QED BY <2>4, <2>5
<1>4. CASE HandleNewLimitOrderRaises
  <2>1. PICK x \in OrderIds : sc = NewLimitOrder(x) /\ sc.order = x
    BY <1>1, <1>4, Handled, Fields DEF HandleNewLimitOrderRaises, Handling, sc
  <2>2. PICK take \in Takes, o \in RemoteIds :
          /\ Initiate(x, take, <<>>) /\ offer_book[o] # None
          /\ offers' = [p \in Ids |-> CASE p \in In(take) -> "unproved"
                                        [] p = o -> "created"
                                        [] OTHER -> offers[p]]
          /\ o \notin In(take)
    BY <1>4, <2>1 DEF HandleNewLimitOrderRaises
  <2>3. PICK make \in Makes : make = <<>>
    BY DEF Makes
  <2>4. Kept /\ (\A p \in In(take) : offers[p] = "absent") /\ offers[o] = "absent"
    BY <1>2, <1>4, <2>1, <2>2, <2>3 DEF HandleStateChange
  <2>5. offers' = [p \in Ids |-> IF p \in In(take) THEN "unproved"
                                 ELSE IF p = o THEN "created" ELSE offers[p]]
    BY <2>2
  <2>6. Moves
    BY <2>4, <2>5 DEF Exchanged, Pending
  <2> QED BY <2>4, <2>6
<1>5. CASE HandleCancelLimitOrder
  <2>1. PICK r : offers[r] \in Open /\ offers' = [offers EXCEPT ![r] = "cancellation_requested"]
    BY <1>5 DEF HandleCancelLimitOrder
  <2>2. orders' = orders
    BY <1>5 DEF HandleCancelLimitOrder
  <2> QED BY <1>1, <2>1, <2>2 DEF TypeOK, Open, Waiting, Exchanged, Pending
<1>6. CASE HandleOfferTimeout
  <2>1. PICK r : offers[r] \in Open /\ offers' = [offers EXCEPT ![r] = "cancellation_requested"]
    BY <1>6 DEF HandleOfferTimeout
  <2>2. orders' = orders
    BY <1>6 DEF HandleOfferTimeout
  <2> QED BY <1>1, <2>1, <2>2 DEF TypeOK, Open, Waiting, Exchanged, Pending
<1>7. CASE HandleOwnOfferPublished \/ HandleMakerProof \/ HandleTakerProof \/ HandleTakerCall
  <2>1. /\ offers[sc.offer] \in {"unproved", "proved", "published"}
        /\ \/ offers' = [offers EXCEPT ![sc.offer] = "published"]
           \/ offers' = [offers EXCEPT ![sc.offer] = "proved"]
           \/ offers' = [offers EXCEPT ![sc.offer] = "exchanging"]
    BY <1>7 DEF HandleOwnOfferPublished, HandleMakerProof, HandleTakerProof, HandleTakerCall
  <2>2. orders' = orders
    BY <1>7 DEF HandleOwnOfferPublished, HandleMakerProof, HandleTakerProof, HandleTakerCall
  <2> QED BY <1>1, <2>1, <2>2 DEF TypeOK, Open, Waiting, Exchanged, Pending
<1>8. CASE HandleCancellationProof
  BY <1>1, <1>8 DEF HandleCancellationProof, TypeOK, Open, Waiting, Exchanged, Pending
<1>9. CASE HandleInbound \/ HandleRefund
  <2>1. \/ offers[sc.offer] = "exchanging" /\ offers' = [offers EXCEPT ![sc.offer] = "wait_for_refund"]
        \/ offers[sc.offer] = "wait_for_refund" /\ offers' = [offers EXCEPT ![sc.offer] = "completed"]
    BY <1>9 DEF HandleInbound, HandleRefund
  <2>2. orders' = orders
    BY <1>9 DEF HandleInbound, HandleRefund
  <2> QED BY <1>1, <2>1, <2>2 DEF TypeOK, Open, Waiting, Exchanged, Pending
<1>10. CASE UNCHANGED <<offers, orders>>
  BY <1>10
<1>11. ASSUME HandleStateChange
       PROVE  \/ HandleNewLimitOrder \/ HandleNewLimitOrderRaises \/ HandleCancelLimitOrder
              \/ HandleOfferTimeout \/ HandleOwnOfferPublished \/ HandleMakerProof
              \/ HandleTakerProof \/ HandleTakerCall \/ HandleCancellationProof
              \/ HandleInbound \/ HandleRefund \/ UNCHANGED <<offers, orders>>
  BY <1>11 DEF HandleStateChange, HandleCancelClosedOrder, HandleOfferTimeoutRaises,
         HandleEntryTimeout, HandleOwnOfferPublishedRaises, HandleOfferPublished,
         HandleProofRaises, HandleCancellationProofRaises, HandleTakerCallRaises,
         HandleMakeChannel, node
<1>12. ASSUME CsClient \/ Trader \/ Transport \/ RaidenListener \/ UNCHANGED vars
       PROVE  UNCHANGED <<offers, orders>>
  BY <1>12 DEF CsClient, ClientCommit, ClientWaitForTaker, ClientReceivedInbound,
         ClientCancellation, Trader, StartTransfer, TraderMakeChannel, Transport, TransportSend,
         TransportRaises, RaidenListener, ListenerExpect, ListenerPayment, node, vars
<1>13. ASSUME Environment PROVE UNCHANGED <<offers, orders>>
  BY <1>13, EnvironmentDispatches DEF PollPayment, node
<1>14. ASSUME NEW o \in Ids, TimerFires(o) PROVE UNCHANGED <<offers, orders>>
  BY <1>14 DEF TimerFires
<1> QED BY <1>3, <1>4, <1>5, <1>6, <1>7, <1>8, <1>9, <1>10, <1>11, <1>12, <1>13, <1>14 DEF Next

\* What the API reports of an order is final: no order opens again, what was traded or
\* cancelled stays so, and no offer is traded for two orders.
THEOREM NodeOrdersAreFinal == Spec => OrdersAreFinal
<1>1. ASSUME IInv, IInv', [Next]_vars PROVE OrderStep
  <2> SUFFICES ASSUME NEW x \in OrderIds
               PROVE  /\ orders[x] # <<>> /\ ~ open(x) => ~ open(x)'
                      /\ traded(x) \subseteq traded(x)'
                      /\ canceled(x) => canceled(x)'
                      /\ \A y \in OrderIds \ {x} : traded(x)' \cap traded(y)' = {}
    BY DEF OrderStep
  <2>1. \A o \in In(orders[x]) : o \in Ids /\ offers[o] # "absent"
    BY <1>1, QueuesTyped DEF IInv, Offers, OrderOnce
  <2>2. orders[x] # <<>> => orders'[x] = orders[x]
    BY <1>1, OfferMoves
  <2>3. orders[x] = <<>> => traded(x) = {} /\ ~ canceled(x)
    BY DEF traded, canceled, In
  <2>4. orders[x] # <<>> =>
          /\ ~ open(x) => ~ open(x)'
          /\ traded(x) \subseteq traded(x)'
          /\ canceled(x) => canceled(x)'
    BY <1>1, <2>1, <2>2, OfferMoves DEF open, traded, canceled
  <2>5. \A y \in OrderIds \ {x} : traded(x)' \cap traded(y)' = {}
    <3>1. \A y \in OrderIds \ {x} : In(orders'[x]) \cap In(orders'[y]) = {}
      BY <1>1 DEF IInv, Offers, OrderOnce
    <3> QED BY <3>1 DEF traded
  <2> QED BY <2>3, <2>4, <2>5
<1> QED BY <1>1, NodeInvariant, PTL DEF Spec, OrdersAreFinal

-----------------------------------------------------------------------------
(* What other processes may take from the node for granted.                *)

\* What the node has sent, heard, seen and paid is never taken back.
LEMMA Grows ==
    ASSUME TypeOK, QueueTypes, [Next]_vars
    PROVE  /\ sent \subseteq sent' /\ heard \subseteq heard' /\ raiden_events \subseteq raiden_events'
           /\ \A t \in Transfers : transfers[t] > 0 => transfers'[t] > 0
<1>1. CASE HandleStateChange
  BY <1>1, Handler
<1>2. CASE CsClient
  BY <1>2 DEF CsClient, ClientCommit, ClientWaitForTaker, ClientReceivedInbound,
         ClientCancellation, outside
<1>3. CASE StartTransfer
  <2>1. PICK h : transfers' = [transfers EXCEPT ![h] = @ + 1]
    BY <1>3 DEF StartTransfer
  <2>2. \A t \in Transfers : transfers[t] > 0 => transfers'[t] > 0
    BY <2>1 DEF TypeOK
  <2> QED BY <1>3, <2>2 DEF StartTransfer
<1>4. CASE TraderMakeChannel \/ Transport \/ RaidenListener
  BY <1>4 DEF TraderMakeChannel, Transport, TransportSend, TransportRaises, RaidenListener,
         ListenerExpect, ListenerPayment, outside
<1>5. ASSUME NEW o, TimerFires(o)
      PROVE  UNCHANGED outside
  BY <1>5 DEF TimerFires
<1>6. CASE Environment
  BY <1>6 DEF Environment, PlaceOrder, RequestCancel, RequestChannel, HearOffer, HearOwnOffer,
         HearCommitmentProof, HearCancellationProof, Hear, HearTaker, PollPayment, outside
<1>7. CASE UNCHANGED vars
  BY <1>7 DEF vars
<1> QED BY <1>1, <1>2, <1>3, <1>4, <1>5, <1>6, <1>7 DEF Next, Trader, outside

\* Where a proof and the call of a taker come from.
LEMMA Arrives ==
    ASSUME QueueTypes, [Next]_vars, NEW e \in In(state_changes'), e \notin In(state_changes)
    PROVE  \/ e.type \notin {"CommitmentProof", "TakerCall"}
           \/ \E o \in Ids : e = CommitmentProof(o) /\ HearCommitmentProof(o)
           \/ \E o \in OwnIds, p \in Peers : e = TakerCall(o, p) /\ HearTaker(o, p)
<1>1. ASSUME NEW f \in StateChange, Dispatch(f) PROVE e = f
  BY <1>1, Dispatched
<1>2. CASE HandleStateChange
  BY <1>2, Taken
<1>3. CASE UNCHANGED state_changes
  BY <1>3
<1>4. CASE ListenerPayment
  <2>1. Head(listener_events) \in ListenerEvents /\ Head(listener_events).type = "PaymentReceived"
    BY <1>4, Popped DEF ListenerPayment, QueueTypes
  <2>2. PICK key \in Keys : Head(listener_events) = PaymentReceived(key)
    <3>1. \A a, o : ExpectInbound(a, o).type # "PaymentReceived"
      BY DEF ExpectInbound
    <3> QED BY <2>1, <3>1 DEF ListenerEvents
  <2>3. Head(listener_events).key = key
    BY <2>2 DEF PaymentReceived
  <2>4. Dispatch(TransferReceived(key)) \/ UNCHANGED state_changes
    BY <1>4, <2>3 DEF ListenerPayment
  <2> QED BY <1>1, <2>4, StateChangeTypes, Fields
<1>5. ASSUME NEW o \in Ids, TimerFires(o) PROVE e.type = "OfferTimeout"
  BY <1>1, <1>5, StateChangeTypes, Fields DEF TimerFires
<1>6. CASE Environment
  <2>1. ASSUME NEW x \in OrderIds, PlaceOrder(x) \/ RequestCancel(x)
        PROVE  e.type \in {"NewLimitOrder", "CancelLimitOrder"}
    BY <1>1, <2>1, StateChangeTypes, Fields DEF PlaceOrder, RequestCancel, on_api_call
  <2>2. CASE RequestChannel
    BY <1>1, <2>2, StateChangeTypes, Fields DEF RequestChannel, on_api_call
  <2>3. ASSUME NEW o \in Ids, NEW p \in Peers \cup {None}, Hear("offer", o, OfferPublished(o, p))
        PROVE  e.type = "OfferPublished"
    BY <1>1, <2>3, StateChangeTypes, Fields DEF Hear
  <2>4. ASSUME NEW o \in Ids, HearCommitmentProof(o) PROVE e = CommitmentProof(o)
    BY <1>1, <2>4, StateChangeTypes DEF HearCommitmentProof, Hear
  <2>5. ASSUME NEW o \in Ids, HearCancellationProof(o) PROVE e.type = "CancellationProof"
    BY <1>1, <2>5, StateChangeTypes, Fields DEF HearCancellationProof, Hear
  <2>6. ASSUME NEW o \in OwnIds, NEW p \in Peers, HearTaker(o, p) PROVE e = TakerCall(o, p)
    BY <1>1, <2>6, StateChangeTypes DEF HearTaker
  <2>7. CASE \E key \in Keys : PollPayment(key)
    BY <1>3, <2>7 DEF PollPayment
  <2> QED BY <1>6, <2>1, <2>2, <2>3, <2>4, <2>5, <2>6, <2>7
          DEF Environment, HearOffer, HearOwnOffer, Ids
<1>7. ASSUME CsClient \/ Trader \/ Transport \/ ListenerExpect \/ UNCHANGED vars
      PROVE  UNCHANGED state_changes
  BY <1>7 DEF CsClient, ClientCommit, ClientWaitForTaker, ClientReceivedInbound,
         ClientCancellation, Trader, StartTransfer, TraderMakeChannel, Transport, TransportSend,
         TransportRaises, ListenerExpect, vars
<1> QED BY <1>2, <1>3, <1>4, <1>5, <1>6, <1>7 DEF Next, RaidenListener

\* A node that works on a proof, or has one, has heard it from the service; one that takes
\* an offer tells the maker only once it is in the exchange; one that makes an offer is
\* matched only with a taker that calls, and then is in the exchange or ends.
Links(o) ==
    /\ CommitmentProof(o) \in In(state_changes) \/ o \in proofs => <<"proof", o>> \in heard
    /\ o \in RemoteIds =>
          \A p \in Peers : Message("ProvenOffer", o, p) \in In(transport_events) \cup sent =>
                               offers[o] \in Exchanged
    /\ o \in OwnIds /\ Alive /\ matches[o] # None => offers[o] \in Exchanged
Linked == \A o \in Ids : Links(o)

\* Which proof a handler adds, and which message for a peer.
LEMMA HandlerLinks ==
    ASSUME IInv, HandleStateChange, NEW o \in Ids
    PROVE  /\ o \in proofs' => o \in proofs \/ CommitmentProof(o) \in In(state_changes)
           /\ o \in RemoteIds => \A p \in Peers :
                 Message("ProvenOffer", o, p) \in In(transport_events') =>
                     Message("ProvenOffer", o, p) \in In(transport_events) \/ offers'[o] \in Exchanged
           /\ o \in OwnIds /\ Alive' /\ matches'[o] # matches[o] => offers'[o] \in Exchanged
<1>1. TypeOK /\ QueueTypes /\ Offers
  BY DEF IInv
<1>2. CASE HandleMakerProof \/ HandleTakerProof
  <2>1. PICK r \in Ids : sc = CommitmentProof(r) /\ sc.offer = r
    BY <1>1, <1>2, Handler, Handled, Fields DEF HandleMakerProof, HandleTakerProof, Handling, sc
  <2>2. /\ CommitmentProof(r) \in In(state_changes)
        /\ proofs' = proofs \cup {r} /\ matches' = matches /\ offers[r] = "unproved"
    BY <1>1, <1>2, <2>1, Taken DEF HandleMakerProof, HandleTakerProof
  <2>3. CASE HandleMakerProof
    <3>1. matches[r] = None
      BY <2>1, <2>3 DEF HandleMakerProof
    <3>2. r \notin RemoteIds
      BY <1>1, <2>2, <3>1, AddressAssumption DEF Offers, Progress
    <3>3. In(transport_events') = In(transport_events) \cup {Message("ProvenOffer", r, "broadcast")}
      BY <1>1, <2>1, <2>3, Appended, EventTypes DEF HandleMakerProof, QueueTypes
    <3> QED BY <2>2, <3>2, <3>3, MessagesDiffer
  <2>4. CASE HandleTakerProof
    <3>1. matches[r] # None /\ offers' = [offers EXCEPT ![r] = "exchanging"]
      BY <2>1, <2>4 DEF HandleTakerProof
    <3>2. matches[r] \in Peers
      BY <1>1, <3>1 DEF TypeOK
    <3>3. In(transport_events') = In(transport_events) \cup {Message("ProvenOffer", r, matches[r])}
      BY <1>1, <2>1, <2>4, <3>2, Appended, EventTypes DEF HandleTakerProof, QueueTypes
    <3>4. offers'[r] \in Exchanged
      BY <1>1, <3>1 DEF TypeOK, Exchanged, Pending
    <3> QED BY <2>2, <3>3, <3>4, MessagesDiffer
  <2> QED BY <1>2, <2>3, <2>4
<1>3. CASE HandleNewLimitOrder \/ HandleNewLimitOrderRaises
  <2>1. PICK take \in Takes, make \in Makes : \E x : Initiate(x, take, make)
    <3>1. <<>> \in Makes
      BY DEF Makes
    <3>2. CASE HandleNewLimitOrder
      <4>1. PICK take \in Takes, make \in Makes : Initiate(sc.order, take, make)
        BY <3>2 DEF HandleNewLimitOrder
      <4> QED BY <4>1
    <3>3. CASE HandleNewLimitOrderRaises
      <4>1. PICK take \in Takes : Initiate(sc.order, take, <<>>)
        BY <3>3 DEF HandleNewLimitOrderRaises
      <4> QED BY <3>1, <4>1
    <3> QED BY <1>3, <3>2, <3>3
  <2>2. /\ matches' = [p \in Ids |-> IF p \in In(take) THEN offer_book[p] ELSE matches[p]]
        /\ UNCHANGED <<proofs, transport_events>>
    BY <2>1 DEF Initiate
  <2>3. In(take) \subseteq RemoteIds
    BY TakenAndMade
  <2> QED BY <1>1, <2>2, <2>3, IdsAssumption DEF TypeOK
<1>4. CASE HandleTakerCall
  <2>1. /\ offers' = [offers EXCEPT ![sc.offer] = "exchanging"]
        /\ matches' = [matches EXCEPT ![sc.offer] = sc.initiator]
        /\ UNCHANGED <<proofs, transport_events>>
    BY <1>4 DEF HandleTakerCall
  <2> QED BY <1>1, <2>1 DEF TypeOK, Exchanged, Pending
<1>5. CASE HandleTakerCallRaises
  BY <1>5 DEF HandleTakerCallRaises, NoEvents, Raise, Alive
<1>6. CASE UNCHANGED <<proofs, matches, transport_events>>
  BY <1>6
<1>7. \/ HandleMakerProof \/ HandleTakerProof \/ HandleNewLimitOrder \/ HandleNewLimitOrderRaises
      \/ HandleTakerCall \/ HandleTakerCallRaises \/ UNCHANGED <<proofs, matches, transport_events>>
  BY DEF HandleStateChange, HandleCancelLimitOrder, HandleCancelClosedOrder, HandleOfferTimeout,
         HandleOfferTimeoutRaises, HandleEntryTimeout, HandleOwnOfferPublished,
         HandleOwnOfferPublishedRaises, HandleOfferPublished, HandleProofRaises,
         HandleCancellationProof, HandleCancellationProofRaises, HandleInbound, HandleRefund,
         HandleMakeChannel, CsEvent, NoEvents, node
<1> QED BY <1>2, <1>3, <1>4, <1>5, <1>6, <1>7

\* Every step keeps the links.
LEMMA LinksStep ==
    ASSUME IInv, Linked, [Next]_vars
    PROVE  Linked'
<1>1. TypeOK /\ QueueTypes /\ Offers
  BY DEF IInv
<1>2. /\ sent \subseteq sent' /\ heard \subseteq heard'
      /\ \A o \in Ids : offers[o] \in Exchanged => offers'[o] \in Exchanged
  BY <1>1, Grows, OfferMoves
<1>3. ASSUME NEW o \in Ids, CommitmentProof(o) \in In(state_changes')
      PROVE  <<"proof", o>> \in heard'
  <2>1. CASE CommitmentProof(o) \in In(state_changes)
    BY <1>2, <2>1 DEF Linked, Links
  <2>2. CASE CommitmentProof(o) \notin In(state_changes)
    <3>1. PICK r \in Ids : CommitmentProof(o) = CommitmentProof(r) /\ HearCommitmentProof(r)
      BY <1>1, <1>3, <2>2, Arrives, Fields
    <3>2. o = r
      BY <3>1, Fields
    <3> QED BY <3>1, <3>2 DEF HearCommitmentProof, Hear
  <2> QED BY <2>1, <2>2
<1>4. ASSUME NEW o \in Ids, HandleStateChange
      PROVE  Links(o)'
  <2>1. sent' = sent
    BY <1>1, <1>4, Taken
  <2>2. Alive' => Alive
    BY <1>1, <1>4, Taken
  <2> QED BY <1>2, <1>3, <1>4, <2>1, <2>2, HandlerLinks DEF Linked, Links
<1>5. ASSUME UNCHANGED <<offers, proofs, matches>>, consumers' \subseteq consumers,
             NEW o \in Ids,
             o \in RemoteIds => \A p \in Peers :
                 Message("ProvenOffer", o, p) \in In(transport_events') \cup sent' =>
                     Message("ProvenOffer", o, p) \in In(transport_events) \cup sent
      PROVE  Links(o)'
  BY <1>2, <1>3, <1>5 DEF Linked, Links, Alive
<1>6. ASSUME NEW o \in Ids, CsClient PROVE Links(o)'
  <2>1. cs_events # <<>> /\ UNCHANGED <<offers, proofs, matches, consumers, sent>>
    BY <1>6 DEF CsClient, ClientCommit, ClientWaitForTaker, ClientReceivedInbound,
           ClientCancellation, node, outside
  <2>2. PICK r \in Ids : Head(cs_events)[2] = r
    BY <1>1, <2>1, Popped DEF QueueTypes, CsEvents
  <2>3. \/ transport_events' = transport_events
        \/ \E type \in {"Commitment", "SwapExecution", "Cancellation"} :
              transport_events' = Append(transport_events, Message(type, r, CS))
    BY <1>6, <2>2 DEF CsClient, ClientCommit, ClientWaitForTaker, ClientReceivedInbound,
           ClientCancellation
  <2>4. ASSUME NEW type \in {"Commitment", "SwapExecution", "Cancellation"},
               transport_events' = Append(transport_events, Message(type, r, CS))
        PROVE  In(transport_events') = In(transport_events) \cup {Message(type, r, CS)}
    BY <1>1, <2>4, Appended, EventTypes DEF QueueTypes
  <2> QED BY <1>5, <2>1, <2>3, <2>4, MessagesDiffer
<1>7. ASSUME NEW o \in Ids, Transport PROVE Links(o)'
  <2>1. transport_events # <<>>
    BY <1>7 DEF Transport, TransportSend, TransportRaises
  <2>2. In(transport_events) = In(Tail(transport_events)) \cup {Head(transport_events)}
    BY <1>1, <2>1, Popped DEF QueueTypes
  <2>3. /\ UNCHANGED <<offers, proofs, matches>> /\ consumers' \subseteq consumers
        /\ transport_events' = Tail(transport_events)
        /\ sent' \subseteq sent \cup {Head(transport_events)}
    BY <1>7 DEF Transport, TransportSend, TransportRaises, node, outside
  <2> QED BY <1>5, <2>2, <2>3
<1>8. CASE UNCHANGED <<offers, proofs, matches, transport_events, sent>> /\ consumers' \subseteq consumers
  BY <1>5, <1>8 DEF Linked
<1>9. ASSUME Trader \/ RaidenListener \/ Environment \/ UNCHANGED vars \/ \E o \in Ids : TimerFires(o)
      PROVE  /\ UNCHANGED <<offers, proofs, matches, transport_events, sent>>
             /\ consumers' \subseteq consumers
  <2>1. CASE Environment
    BY <2>1, EnvironmentDispatches DEF PollPayment, node
  <2>2. CASE Trader
    BY <2>2 DEF Trader, StartTransfer, TraderMakeChannel, node, outside
  <2>3. CASE RaidenListener
    BY <2>3 DEF RaidenListener, ListenerExpect, ListenerPayment, node, outside
  <2>4. CASE UNCHANGED vars
    BY <2>4 DEF vars
  <2>5. CASE \E o \in Ids : TimerFires(o)
    BY <2>5 DEF TimerFires, outside
  <2> QED BY <1>9, <2>1, <2>2, <2>3, <2>4, <2>5
<1> QED BY <1>4, <1>6, <1>7, <1>8, <1>9 DEF Next, Linked

\* They hold at the start.
LEMMA LinksInit == Init => Linked
<1> SUFFICES ASSUME Init, NEW o \in Ids PROVE Links(o)
  BY DEF Linked
<1>1. In(state_changes) = {} /\ In(transport_events) = {}
  BY DEF Init, In
<1> QED BY <1>1 DEF Init, Links

\* The node is linked to what it has heard and told in every state it can reach.
THEOREM NodeLinked == Spec => []Linked
BY LinksInit, NodeInvariant, LinksStep, PTL DEF Spec

\* An offer the node makes comes into the exchange only by the call of a taker.
LEMMA OwnExchange ==
    ASSUME IInv, Linked, [Next]_vars, NEW o \in OwnIds,
           offers[o] \notin Exchanged, offers'[o] \in Exchanged
    PROVE  \E p \in Peers : TakerCall(o, p) \in In(state_changes)
<1>1. TypeOK /\ QueueTypes /\ Offers /\ o \in Ids /\ Links(o)
  BY DEF IInv, Linked, Ids
<1>2. HandleStateChange
  <2>1. ASSUME CsClient \/ Trader \/ Transport \/ RaidenListener \/ UNCHANGED vars
        PROVE  UNCHANGED offers
    BY <2>1 DEF CsClient, ClientCommit, ClientWaitForTaker, ClientReceivedInbound,
           ClientCancellation, Trader, StartTransfer, TraderMakeChannel, Transport, TransportSend,
           TransportRaises, RaidenListener, ListenerExpect, ListenerPayment, node, vars
  <2>2. ASSUME Environment PROVE UNCHANGED offers
    BY <2>2, EnvironmentDispatches DEF PollPayment, node
  <2>3. ASSUME NEW p \in Ids, TimerFires(p) PROVE UNCHANGED offers
    BY <2>3 DEF TimerFires
  <2> QED BY <2>1, <2>2, <2>3 DEF Next
<1>3. Alive /\ state_changes # <<>> /\ sc \in In(state_changes)
  BY <1>1, <1>2, Taken, Handler
<1>4. CASE HandleTakerCall
  <2>1. PICK r \in OwnIds, p \in Peers : sc = TakerCall(r, p)
    BY <1>1, <1>3, <1>4, Handled DEF HandleTakerCall, Handling, sc
  <2>2. sc.offer = r
    BY <2>1 DEF TakerCall
  <2>3. offers' = [offers EXCEPT ![r] = "exchanging"]
    BY <1>4, <2>2 DEF HandleTakerCall
  <2>4. r = o
    BY <1>1, <2>3 DEF TypeOK
  <2> QED BY <1>3, <2>1, <2>4
<1>5. CASE HandleTakerProof
  <2>1. /\ offers[sc.offer] = "unproved" /\ matches[sc.offer] # None
        /\ offers' = [offers EXCEPT ![sc.offer] = "exchanging"]
    BY <1>5 DEF HandleTakerProof
  <2>2. sc.offer = o
    BY <1>1, <2>1 DEF TypeOK
  <2> QED BY <1>1, <1>3, <2>1, <2>2 DEF Links
<1>6. CASE HandleInbound \/ HandleRefund
  <2>1. /\ offers[sc.offer] \in Exchanged
        /\ \E e : offers' = [offers EXCEPT ![sc.offer] = e]
    BY <1>6 DEF HandleInbound, HandleRefund, Exchanged, Pending
  <2>2. sc.offer = o
    BY <1>1, <2>1 DEF TypeOK
  <2> QED BY <2>1, <2>2
<1>7. CASE HandleNewLimitOrder
  <2>1. PICK take, make :
          offers' = [p \in Ids |-> IF p \in In(take \o make) THEN "unproved" ELSE offers[p]]
    BY <1>7 DEF HandleNewLimitOrder
  <2> QED BY <1>1, <2>1 DEF Exchanged, Pending
<1>8. CASE HandleNewLimitOrderRaises
  <2>1. PICK take \in Takes, r \in RemoteIds :
          offers' = [p \in Ids |-> CASE p \in In(take) -> "unproved"
                                     [] p = r -> "created"
                                     [] OTHER -> offers[p]]
    BY <1>8 DEF HandleNewLimitOrderRaises
  <2>2. offers'[o] \in {"unproved", "created", offers[o]}
    BY <1>1, <2>1
  <2> QED BY <2>2 DEF Exchanged, Pending
<1>9. ASSUME NEW e \in {"cancellation_requested", "published", "proved", "canceled"}, NEW r,
             offers' = [offers EXCEPT ![r] = e]
      PROVE  FALSE
  BY <1>1, <1>9 DEF TypeOK, Exchanged, Pending
<1>10. CASE HandleCancelLimitOrder \/ HandleOfferTimeout \/ HandleOwnOfferPublished
            \/ HandleMakerProof \/ HandleCancellationProof
  BY <1>9, <1>10 DEF HandleCancelLimitOrder, HandleOfferTimeout, HandleOwnOfferPublished,
     HandleMakerProof, HandleCancellationProof
<1>11. CASE UNCHANGED offers
  BY <1>11
<1> QED BY <1>2, <1>4, <1>5, <1>6, <1>7, <1>8, <1>10, <1>11
        DEF HandleStateChange, HandleCancelClosedOrder, HandleOfferTimeoutRaises,
            HandleEntryTimeout, HandleOwnOfferPublishedRaises, HandleOfferPublished,
            HandleProofRaises, HandleCancellationProofRaises, HandleTakerCallRaises,
            HandleMakeChannel, node

=============================================================================
