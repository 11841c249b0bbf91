# raidEX in TLA+

raidEX is a decentralised exchange on top of Raiden payment channels. Nodes
broadcast offers through a message broker; a maker and a taker of an offer each
pay a deposit to a *commitment service* (CS), exchange tokens through Raiden, and
confirm to the service that the exchange took place, upon which it returns the
deposits less a fee. Everything runs in gevent greenlets of three kinds of
process: the node (`raidex/raidex_node`), the commitment service
(`raidex/commitment_service`) and the broker (`raidex/message_broker`), which
talk over HTTP, and each node and the service have a Raiden node beside them.

This directory holds TLA+ modules that model these programs, the TLC
configurations that check them, and TLAPS proofs. `PROJECT.json` records which
definition models which lines.

## Inventory

| component | state | operations | talks to |
| --- | --- | --- | --- |
| Commitment service (`commitment_service/`) | `swaps` by offer id, each with a state machine, two receipts and a pool of takers; refund queue; message queue | Commitment, Cancellation, SwapExecution messages, received transfers, timers, refunds, sending | Raiden (poll, transfer), broker |
| Trader client (`trader/client.py`) | keys of the payments seen | `transfer`, `listen_for_events`, `make_channel` | Raiden REST |
| State changes (`handle_state_change.py`, `architecture/`) | offers, orders, matches, timers | one handler per state change, run by one consumer greenlet | dispatches events to the three other consumers |
| REST API (`api/v0_1/resources.py`, `handle_api_call.py`) | none of its own | place and cancel an order, open a channel, report orders | state-change queue |
| Offers and orders (`order/`) | the offer's hierarchical state machine; a limit order's offers | `initiating`, `timeout`, `receive_*`, `found_match`, `received_inbound` | events on entering a state |
| Matching (`matching/`) | one `Match` per offer id | `match_limit`, `matched`, `received_inbound` | Raiden transfer, event filter |
| Offer book (`offer_book.py`) | two sorted views of offers | insert, remove, by price | state-change handler |
| Timeouts (`utils/greenlet_helper.py`) | one greenlet per offer id | create, clean up, fire | state-change queue |
| CS client (`raidex_node/commitment_service/`) | none of its own | commit, confirm, request cancellation, wait for a taker | broker, trader |
| Raiden listener (`trader/listener/`) | filters of expected payments | add a filter, process an event | state-change queue |
| Message broker (`message_broker/`) | listeners by topic | send, broadcast, listen, stop | HTTP streams |
| Trades, grouping (`trades.py`, `offer_grouping.py`) | list of trades | group, bin | API |
| UI, bots, mocks, legacy service | - | - | - |

What is hard here:

* *No task survives an exception.* A `ListenerTask`, a `QueueListenerTask` or a
  node's `Consumer` that raises is gone while the rest of the process goes on, and
  the state machines raise `MachineError` for every trigger that comes in the wrong
  state. A message in an unusual order therefore has effects far from the swap or
  offer it names.
* *Two channels.* A commitment is a message (broker) and a deposit (Raiden), sent
  by two consumers of the node; nothing orders them. The same holds for a payment
  and the filter that expects it.
* *Timers race everything.* A swap's timer fires in each of its states, and a
  `Cancellation` message acts like it.
* *Identifiers are reused.* The dictionary forgets a swap when it ends, so a late
  commitment opens a new swap under the same offer id while the refunds of the
  first are still in the queue.
* *Retries.* A refund goes back to the queue when Raiden refuses it, and only the
  set of seen keys keeps a payment from being handled at every poll.

What makes the components correct: deposits are held, returned or kept consistently
(below, done); a node never commits twice for an offer, pays the counterparty only
for a proved match and confirms only after it was paid (below, done); `match_limit`
fills an order as far as the book allows and a book's views agree (below, done); a listener gets each
message sent to its topic while it listens (below, done); two nodes and the service
together make an exchange that is secured by deposits (below, done). `hazards` in `PROJECT.json` lists, at
their lines, what can go wrong and which property would show it.

## Plan

1. **CommitmentService**, **DepositEscrow**, their runs and proofs. *Done.*
2. **RaidexNode** and its runs, with proofs. *Done.*
3. **OfferBook**: the two views of the book and `match_limit`, with proofs. *Done.*
4. **MessageBroker** with the streaming client, **Trades** with the grouping, with
   proofs. *Done.*
5. **Exchange**: two nodes, the service, the broker and Raiden composed, with
   **SecuredExchange** as its abstract specification. *Done.*
6. Proofs of `ProofBacked` and of the refinement of DepositEscrow, of the safety of
   RaidexNode, MessageBroker and Trades. *Done.*
7. Proofs about Exchange: `NodesFit` first, from the invariants of the node and of the
   service, then the other properties and the refinement of SecuredExchange. *Done.*
8. Proofs about sums: `Solvent` of the service and what `match_limit` does with the
   amounts. *Done.*
9. Proofs about loops: what the grouping and the price chart compute from the trades.
   *Done.*

The proof modules are `CommitmentServiceProofs`, `RaidexNodeProofs`, `RaidexNodeTheorems`,
`OfferBookProofs`, `MessageBrokerProofs`, `TradesProofs`, `ExchangeProofs` and, below them,
`SumTheorems`. Each of the five components and their composition proves an inductive
invariant of its `Spec` and derives its properties from it; each invariant was checked by
TLC on the instance of the component's run before it was proved. Every safety and action
property of the passing runs is proved; `SwapsEnd`, `RefundsArrive`, `OffersResolve` and
`PendingArrives` are liveness properties and only model-checked. The proofs assume nothing
but the named `ASSUME`s of the component's module: the ids, prices and amounts are what
the code makes and accepts, the sets that sums and lists range over are finite, and what
floats hold is in their range.

`SumTheorems` is what the sums rest on. `SumFunctionOnSet` of the community modules is a
recursive function over the subsets of a set, and the induction theorems of the prover's
library take the statement as an operator, which the provers cannot instantiate. Here
the statement is a *set*: `NatInductionSet` says that a set of numbers with 0 and every
successor has all numbers (from `WFMin`, by the least number it lacks), `SubsetInduction`
the same of a family of finite sets. With them `SumsExist` shows that the recursive
function exists, `SumsAgree` that it does not depend on the set it is defined over, and
`SumSteps` that any element can be taken out of a sum, whichever the recursion chooses.

## CommitmentService

State and code:

| variable | code |
| --- | --- |
| `swaps` | `CommitmentService.swaps`, with each `SwapCommitment` and the state of its machine; an offer id without an entry is `Absent` |
| `deposits` | the payments the service's Raiden node lists, keyed by (initiator, identifier) |
| `events` | the keys the poll in `TraderClient.listen_for_events` has already handed on |
| `refund_queue`, `in_flight`, `refunded`, `lost` | a `Refund` in the priority queue, in a transfer that has no answer yet, paid, or gone because the request raised |
| `message_queue` | messages waiting for `MessageSenderTask` |
| `tasks` | the greenlets that have not been ended by an exception |
| `unread` | confirmations that arrived after `SwapExecutionTask` ended (history, for one property) |

No handler yields, so a handler is one action, with the callbacks of its transition,
the `finalize` transition that follows, and `cleanup`. `CommitmentTask`,
`TransferReceivedTask`, `SwapExecutionTask`, `RefundTask` and `MessageSenderTask` are
disjunctions of the cases the code tells apart. `Timeout` stands for the timer and
for `CancellationRequestTask`, which calls the same trigger without looking at the
sender. Messages from nodes are unconstrained: any node may send any message for any
offer at any time.

Assumptions and bounds:

* Every deposit is in the commitment token; the token of a payment is dropped by the
  trader client and never looked at.
* A second payment with the same initiator and identifier is invisible to the poll,
  so `Pay` happens once per key. The poll that finds a payment and the handler that
  takes it are one step: nothing reads the queue in between.
* A timer belongs to the swap object it was started for. A timer that outlives its
  swap raises in its own greenlet and touches nothing. It may fire at any moment here,
  which is more than it does: a swap that is opened by a commitment that has expired
  times out in the next iteration of the loop (`swap_state_machine.py:150`).
* `MaxBacklog` bounds the message queue: a swap is opened only while at most that
  many messages wait. Nothing else is bounded; every offer id has a swap any number
  of times.
* `FeePercent` is the service's `fee_rate` in percent. `Amounts` are the deposits.
* `Faults` says which HTTP requests may raise.

### DepositEscrow

What the service promises about each deposit, with none of its machinery: a deposit
is accepted as security, refused or ignored; an offer has at most two securities,
which are settled together and alike, both returned less the fee or both kept; what
is owed is paid once. `CommitmentService` implements it under the mapping `FateOf`.

### Runs of CommitmentService

| run | instance | checks |
| --- | --- | --- |
| `cs_safety` | 1 offer, 3 nodes, all faults | `TypeOK`, `RefundedAtMostOnce`, `CollateralIntact`, `Solvent`, `ProofBacked`, `RefinesEscrow` |
| `cs_liveness` | 1 offer, 2 nodes, poll and sending may raise | `SwapsEnd`, `RefundsArrive` under `FairSpec` |
| `cs_refund_lost` | refund requests may raise | `RefundsArrive` **violated** |
| `cs_confirmation_unread` | no faults | `ConfirmedSwapIsRefunded` **violated** |

Why the bounds are enough: three nodes are a maker, the taker who wins and one who
loses, and they may swap parts in the next swap of the same offer id. One offer
suffices for everything but the attribution of a receipt to an offer, for which
`CollateralIntact` and `RefundedAtMostOnce` are proved with any number of offers. One amount is enough because the code never compares amounts; 3 with a
fee of 10% makes the truncation bite (2.7 becomes 2).

The two violations are findings about the code:

* a refund whose request raises is not queued again, although `swap.py:141` says
  "This has to go through!";
* one `SwapExecution` sent too early ends `SwapExecutionTask`; a later swap that both
  parties confirm in time is punished all the same.

`TransferWithoutSwap` shows another one that has no run of its own, because the code
says so itself (`tasks.py:115`, "TODO refund"): a deposit that arrives before its
commitment message is dropped, although `swap_state_machine.py:159` wants every receipt
refunded that triggers nothing. In `DepositEscrow` such a deposit is kept.

### Fairness of CommitmentService

`WF(Timeout(o))`: the timer is started with the swap (`spawn_later`) and fires.
`WF(StartRefund(r))`: `RefundTask` takes an entry, starts the transfer in another
greenlet and comes back to the queue; it never waits for Raiden, and nothing in it
raises. `SF(RefundSucceeds(r))`: Raiden does not refuse the same refund for ever; this
is an assumption about Raiden, and the property is about the service's retrying.
Nothing is assumed of the nodes, of the poll or of the sender, and none of those is
needed: `cs_liveness` lets them die.

### Proofs about CommitmentService

`CommitmentServiceProofs` proves, for every set of offers, nodes and amounts, every
fee and with every fault:

* `TypeCorrect`: `Spec => []TypeOK`;
* `AtMostOnce`: `Spec => []RefundedAtMostOnce`;
* `Backed`: `Spec => []CollateralIntact`;
* `ProofsBacked`: `Spec => ProofBacked`, an action property: `IInv` and one case per
  action that sends a proof.

Neither of the
two safety invariants is inductive alone. A step that queues a refund keeps
`RefundedAtMostOnce` only if no refund of the same deposit exists, and a refund is
queued in two situations: the deposit is held by a swap, where `CollateralIntact` says
that nothing was claimed of it, or it has just been delivered, where
`UndeliveredUnclaimed` does. `CollateralIntact` in turn needs that the taker's key
differs from the maker's, which follows from the maker's key being in `events` while
the poll delivers a key once. The inductive invariant `IInv` is the conjunction of the
four, and `InvStep` has one case per action. The accounting of a refund's way through
queue, flight and answer is in the lemmas `RefundMoves`, `QueueOne` and `QueueTwo`.

`ImplementsEscrow` is `Spec => RefinesEscrow`. Each
action is shown to leave the mapped `fate` alone, except for what it does to the one or
two deposits it is about, and that is a step of `DepositEscrow`. This needs more than
`IInv`: `NoEarlyReceipt`, that a swap has no receipt before its state says so, because a
receipt in a swap counts as security; and from `IInv` that the two receipts of a swap
are those of two parties (`Settle` takes both in one step) and that a deposit is in one
place only (`FateOf` looks at refunds only of deposits no swap holds).

`StaysSolvent` is `Spec => []Solvent`: what was received covers what was paid back, is
owed and is held for swaps. It adds no invariant. For one deposit, what was paid back, is
owed and is held is at most its amount (`EachCovered`): `RefundedAtMostOnce` and
`CollateralIntact` say that it is in at most one of the three, and a refund is never more
than the deposit (`RefundWithinDeposit`). `Covered` adds this up over the deposits that
have arrived, by `SubsetInduction`; deposits that have not arrived have no refunds. That
the sets of offers and nodes are finite is `FiniteAssumption`.

Only model-checked: the liveness properties (fairness is out of the prover's reach).

## RaidexNode

One node: the greenlet that handles state changes, and the four consumers of the
events it dispatches. State and code:

| variable | code |
| --- | --- |
| `offers`, `proofs` | `OfferManager.offers` with the state of each offer's machine, and `Offer.proof`; an id without an offer is `absent` |
| `orders`, `matches` | `DataManager.orders` (the offers of each order, in order) and `DataManager.matches` (the target of each match) |
| `offer_book` | the entries of the book, by the node that published them |
| `timers` | `TimeoutHandler.timeout_greenlets`: no greenlet, a running one, or one that has fired and is still in the dictionary |
| `consumers` | the `Consumer` greenlets that no exception has ended |
| `state_changes`, `cs_events`, `trader_events`, `transport_events`, `listener_events` | the queue of each consumer |
| `event_filters` | `RaidenListener.event_filters` |
| `taker_listeners` | the greenlets in `wait_for_taker` |
| `raiden_events` | the payments `raiden_poll` has seen |
| `transfers`, `sent` | what the trader and the transport have done |
| `asked`, `heard` | what the user and the outside have said once |

`HandleStateChange` has one action per state change and per way its handler ends:
`HandleX` for the case that completes and `HandleXRaises` for the one in which a
trigger is invalid or a lookup fails. In the second case the assignments made before
the exception stay and the consumer is gone: its queue is emptied and what is
dispatched to it later is dropped, since nobody reads it. `Client*`, `StartTransfer`,
`TraderMakeChannel`, `Transport*` and `Listener*` are the other consumers; the rest
comes from outside.

Assumptions and bounds:

* The service proves a commitment only when it has the message and the deposit. That
  is `ProofBacked` of `CommitmentService`; it does not lie in this module.
* Other nodes may publish, call and pay anything in any order; payments with any
  initiator and identifier may be listed. Each thing is heard once for an offer id
  (`heard`): a repeated broadcast is not modelled.
* Prices and amounts are left out, so an order may match any sequence of entries and
  have something left or not. An order always does something, because the API refuses
  an amount that is not positive.
* `OwnIds` bounds the offers the node makes: an order that needs one more id waits.
  One cancellation per order waits in the queue at a time.
* A filter is a pair of initiator and identifier and `event_filters` a set, because
  no handler dispatches the same `ExpectInboundEvent` twice.
* `Faults` says whether sending may raise, and whether the user opens channels at all
  (the request may then raise in the trader's consumer).

### Runs of RaidexNode

| run | instance | checks |
| --- | --- | --- |
| `node_maker` | 1 own id, 1 order, 2 peers, both faults, under `FairSpec` | `TypeOK`, `PaysOnlyProved`, `ConfirmsOnlyPaid`, `OffersResolve` |
| `node_taker` | 1 remote id, 2 orders | `PaysOnce`, `ExchangeIsWatched`, `EverythingTimesOut`, `OrdersAreFinal` |
| `node_payment_unnoticed` | a maker | `PaymentsNoticed` **violated** |

Offers interact through the book, the queues and the death of a consumer. Two orders
that compete for one entry, a timer that fires in each state and two peers (a
counterparty and somebody else) exercise these; a maker and a taker are separate
instances because one with an own and a remote id has more than ten million states.
A node may have nothing left to do, so deadlock is not checked.

The violation is a finding: a payment that arrives before the filter that expects it
is dropped, and the offer waits for ever, although the README promises "acknowledging
when payments have been received"; the taker pays and calls the maker at the same
moment, so nothing keeps the payment from coming first.

`HandleCancelLimitOrder` shows what any cancellation of an order does:
`data_manager.py:36` passes the offer instead of its id to `clean_up_timeout`, which
raises, so the timer runs on and the consumer of state changes is gone.

The API is in the model as its three calls that dispatch something (`PlaceOrder`,
`RequestCancel`, `RequestChannel`) and as what it reports of an order (`open`, `traded`,
`canceled`, which read the offers at that moment). `OrdersAreFinal` says that the
reports are final.

### Fairness of RaidexNode

Weak fairness of each consumer, a greenlet that reads its queue in a loop, and of each
timer. Nothing is assumed of the user, the peers, the service or Raiden: `OffersResolve`
says that an offer is resolved whatever they do, as long as no exception has ended the
consumer of state changes.

### Proofs about RaidexNode

`RaidexNodeProofs` defines the inductive invariant and proves what concerns queues and
types; `RaidexNodeTheorems` proves that every step keeps it and derives, for any own and
remote offers, peers and orders and any faults: `NodeTypes` (`TypeOK`), `NodePaysOnce`,
`NodePaysOnlyProved`, `NodeConfirmsOnlyPaid`, `NodeExchangeIsWatched`,
`NodeEverythingTimesOut` and, of every step, `NodeOrdersAreFinal`. So the split of the
runs into a maker and a taker, and their one own and one remote id, hide nothing of the
safety properties.

The properties talk about an offer and what has been done for it; between the two are
five queues, and what is in them decides. The invariant is a conjunction of such facts:

| part | says | needed for |
| --- | --- | --- |
| `QueueTypes` | each queue holds events of its kind, with fields of the right sets | every step that takes an event |
| `Progress` | the state of an offer says whether it has a proof and a match; a proof means a paid deposit | `PaysOnlyProved`, `OrdersAreFinal` |
| `DepositOnce`, `SwapOnce` | a payment is one event in one queue, then one transfer, and starts in one step of the offer | `PaysOnce` |
| `TakerOnce` | from the publication on there is one `CommitmentProved` event, then one listener, then one call, until the taker is matched | the match of an own offer never changes once it is paid for |
| `PaymentOnce`, `Watch` | the poll hands a payment on once, and a filter exists only for the counterparty or the refund, in the states that wait for them | `ConfirmsOnlyPaid`, `ExchangeIsWatched` |
| `OrderOnce` | an order is processed once, and orders share no offers | `OrdersAreFinal` |

`NodeLinked` adds to the invariant what the other processes rely on: a proof that the node
works on was asked for, a message to a maker is sent by a taker in the exchange, an own
offer with a match is in the exchange. It serves `ExchangeProofs`.

`EverythingTimesOut` is inductive beside these. `OffersStep` puts together what each
action does to the offers, `TimeoutStep` what it does to the timers. An exception, which
empties the queue of its consumer, is a case of every handler and not a special one: the
lemma `Taken` says that what is left in the queue was there before.

Only model-checked: `OffersResolve`, which needs fairness.

## OfferBook

The book and the processing of limit orders, with the amounts and prices that
`RaidexNode` leaves out.

| variable | code |
| --- | --- |
| `offer_entries`, `offer_entries_by_id` | the sorted and the plain dictionary of the two `OfferView`s |
| `offers` | ids in `OfferManager.offers` that came from the book |
| `made` | the offers made of what orders left |
| `pc`, `order`, `next` | the place of the greenlet in `process_order` |
| `matching_offers`, `take_offers`, `amount_left` | the variables of `match_limit` |

`OfferPublished` and `EntryTimeout` are the handlers of these state changes as far as
the book is concerned. `NewLimitOrder` starts an order; `MatchOffer`, `SkipOffer` and
`Matched` are the loop of `match_limit`, `TakeOffer` and `TakeRaises` the loop of
`process_order`, `MakeOffer` and `NothingLeft` its end. `PublishRaises` and `TakeRaises` are
the two calls of `create_new_timeout` that raise because the timer of the entry has fired
and its timeout still waits in the queue. Nothing else runs during an order, because the
handler does not yield. The loops are steps rather than a recursive function so that what
they compute can be proved.

Prices are floats: a mantissa in `Least .. 2 * Least - 1` times a unit of the set `Ulps`, kept
as a fraction. Python's have `Least` = 2^52 and powers of two for units. `rounded` goes to
the nearest, to the even mantissa of two. The code rounds more often than it looks: `price` of an
offer makes floats of both amounts and rounds their quotient, the order has the float of
the price in the request (`order_price`), and `quote_amount` makes a float of what is left,
rounds its product with the order's price and cuts it off. Offers are compared with an
order, and sorted, by these floats (`Equal`), so two offers of the same ratio may have
different prices and two of different ratios the same.

An offer reaches the book through a message. `offer_msg` turns it into what its maker
asks and bids (`_create_offer_msg`), `entry_from` reads the entry back
(`OfferListener._transform`), and `sends` is what maker and taker pay for their copy of
it (`Match.get_send_amount`, `get_token_from_market`).

Assumptions: distinct offers have distinct ids (they are random), base amounts are
positive, and an order has a positive amount and price (the API refuses others). All
numbers that are rounded have a unit in `Ulps` (`RangeAssumption`): amounts are below 2^256,
and the price of an order is neither so small nor so large that its float, or its product
with the amount, leaves the range of doubles; there `int()` raises or the precision is lost. An
offer may be published any number of times. When the timer of an entry has fired is
not part of this module, so `TakeRaises` may happen at any offer.

Run `book_matching`: seven offers, among them four sells at one price with amounts 1, 2,
3 and 3 that compete for an order of 4, one of the other type and two around another
price, and four orders. It checks `TypeOK`, `ViewsAgree`, `BookExcludesOwn`,
`TakesAreInBook`, `NothingFits`, `AmountConserved`, `LargestFirst`, `PaymentsComplement` and
`RestWithinRounding`. `AmountConserved`, `LargestFirst` and the fact that what is taken is
opposite offers at the price describe the greedy choice completely. Deadlock is not
checked because an exception ends the greenlet.

Floats have seven bits there (`Least` = 64), so that amounts of a hundred already meet what
doubles do to amounts in wei: an order at 3/2 takes 65 for 98, which is above its price
but has the same float, passes by 86 for 129, which is exactly at its price but has another
float, and an order of 151 that finds nothing offers 228, more than the 226.5 it asked for.
An order of 5 offers 7 for its 7.5.

`RestWithinRounding` says what remains true: the quote amounts an order takes and offers are
its amount at the price in the request, up to a factor of ((2 `Least` + 1) / (2 `Least` - 1))^2
either way, which is four roundings, and less than one unit. For doubles and 10^18 wei that is
some hundreds of wei. An order is not sure to lose less than one unit, and it may pay more
than its price; but the errors are relative to the whole, however many offers it takes.

`OfferBookProofs` proves for any finite set of offers and any orders: `BookViewsAgree`,
`TakenLeavesBook`, `TakesFound`, `MatchLimitCorrect` (`TakesAtPrice` and `NothingFits`),
`BookTypes` (`TypeOK`), `Complement` (`PaymentsComplement`), `MatchConservesAmount`
(`AmountConserved`), `MatchTakesLargestFirst` (`LargestFirst`) and `RestIsWithinRounding`
(`RestWithinRounding`), so everything its run checks.

Except for `BookTypes`, which is part of the invariant, and `Complement`, which follows
from the types, none of these is inductive alone. That the removal by id takes
the same offer out of both views needs `ViewsAgree`; that what was chosen is still there
needs that `match_limit` goes through the matching entries once each, which is `LoopInv`
and rests on `SortedOnce` (a list of a set that is as long as the set is large repeats
nothing); that nothing fits follows because an offer that was passed did not fit then
and what is left only shrinks.

The three properties about sums rest on `AmountInv`, an invariant of the loop: the amounts
taken so far and the amount left are the order's amount; the quote amounts taken are in
the ratio of the order's price to the base amounts taken, within four roundings, because
each offer is (`AtPrice`) and such ratios can be added (`PricedSum`); and an offer that was
passed did not fit beside those before it, which are at least as large since the list is
sorted. The last part needs that an offer taken later is not larger than one passed, or it
would belong to the sum. `Rounded` bounds one rounding from the choice of the unit, for any
precision; `Chain` multiplies the bounds and cancels what they have in common. The quote
amount of the rest is three roundings off and cut off once (`RestAtPrice`), which is within
four (`Cubes`).

## MessageBroker

The broker and the clients that read from it. All listeners of a client on a topic
share one `StreamingRequestTask`; a *stream* is a pair of client and topic.

| variable | code |
| --- | --- |
| `sent` | the kinds of the messages sent on each topic, in order |
| `connected`, `queues` | `MessageBroker.listeners` with the queue of each; a message the server has written and the client has not read is still in the queue |
| `tasks` | `topic_task_map`: no task yet, its request not made, waiting for the first line (`response_iter` is None), streaming, closed but not ended, ended |
| `listeners`, `started` | `StreamingRequestTask.listeners`, and who has been created |
| `inbox` | everything that was put in a listener's `message_queue_async` |
| `since`, `broken`, `left` | history for the properties: how many messages had been sent when a listener was ready, the streams ended by an exception, the streams that were without listeners once |

`Send` is `MessageBroker._send`, which puts the message in the queue of those who
listen at this moment and forgets it. `Listen`, `StopListen` are the calls of a
`MessageListener`; `Connect`, `ConnectRaises` and `Receive` the greenlet of the task.
`Receive` handles one line: each listener in turn gets what its `transform` returns,
and an exception of one ends the greenlet, after the ones before it have had the
message. `stop` does nothing while the task waits for its first line; later it marks
the iterator as closed, which the greenlet sees only after the line it is waiting for.

Assumptions and bounds: a listener is started once (each `MessageListener` of the
program is). The lines of one HTTP response arrive in order and none is lost, as TCP
has it. When the client closes a response the broker stops listening at once rather
than at its next write; what it would queue in between nobody reads. `MaxSent` bounds
the messages on each topic.

Run `broker_streams`: two listeners on one stream, one of which raises for one of the
two kinds of messages, three messages on their topic and one on another; `TypeOK`,
`InOrder`, `NothingMissed`, and `PendingArrives` under `FairSpec`. Three messages are
needed for one to be lost, because a closed stream still reads the second. One client
is enough: streams share nothing but `Send`, which treats each queue alike.

`NothingMissed` exempts a stream that was without listeners once. Its task is closed,
but stays in `topic_task_map`, so the next listener on that topic is attached to a
stream that ends, and `_listen_on` never starts another. In the node as it is the
listener for proofs keeps the stream of the node's address open, and nobody stops
listening to the broadcast, so this bites only where a topic is left and listened to
again.

Fairness: weak fairness of the greenlets of the tasks.

`MessageBrokerProofs` proves `BrokerTypes`, `DeliveredInOrder` (`InOrder`) and
`ReadyMissesNothing` (`NothingMissed`) for any clients, topics and listeners, any set of
kinds a listener wants or raises for, and any number of messages. `InOrder` alone is not
inductive, because it does not mention the queues: the invariant adds that a queue holds
what was sent on its topic in the order of sending, and only messages later than all its
listeners have got (`StreamInv`, `InboxInv`). A listener that joins a stream late gets
what is still queued.
`NothingMissed` needs `ReadyInv`, that a stream which has become ready for a listener
stays connected until it breaks or is left; for that a task is closing only if its stream
was left (`StreamInv`). `PendingArrives` is a liveness property and only model-checked.

## Trades

`TradesView` keeps the offers that were taken (`pending_offer_by_id`) and the completed
trades, in a sorted dictionary by timestamp and id (`trades`) and in one by id
(`trade_by_id`). `AddPending` and `ReportCompleted` are its two operations that change
state; a report for an offer that is not pending returns False and changes nothing.
Timestamps come with the report and in any order. An offer may be taken and completed
again.

What the API reads are operators on that state, with the loops of the code as folds and
the values of the sorted dictionary as `Sorted`, the list of some trades in the order of
their keys:
`get_trades`, `group_offers`, `group_trades`, `group_trades_from`,
`get_n_recent_trades`, `make_price_bins` with `PriceBin`. Prices are integers that are
cut off to multiples of `Tick`, as `quantize` does with the rounding the module sets;
a closing price is a fraction. Time bins are cut off likewise. The offset of
`find_time_bin` is left out, since no caller gives one. The order in which an answer
lists its groups is left out.

Run `trades_charts`: four offers, two of which fall into the same price group and one
into the group of price zero, up to three trades (`MaxTrades`) in three time bins. In
each state, for every time and every number of groups up to `MaxGroups`, the operators
are compared with definitions from the set of all trades: `GroupsAreSums`,
`RecentGroups`, `BinsCoverWindow`, `ChartIsContinuous`, `RangeOfTrades`. `CompletedOnce`
says that a completion uses up the pending offer. Three trades suffice for two in a
group and one outside, and for a bin without trades between two others. `RangeOfTrades` excludes
bins with a price of zero, for which `min_price` and `max_price` return the opening
price (zero is false in Python). Deadlock is not checked because `MaxTrades` ends the
recording.

`TradesProofs` proves every property of this run for any offers, timestamps, interval,
precision, number of trades and number of groups and bins. The assumptions are that ids
are positive, prices, amounts and timestamps are natural numbers, an id stands for one
offer, and Python's `None` is not a number.

* `TradesTypes` (`TypeOK`) and `TradesCompletedOnce` (`CompletedOnce`) come from the
  inductive invariant `TradesInvariant`: the types, that the last trade of an offer in
  `trade_by_id` is one of that offer in `trades`, and that the trades are finitely many.
  The other theorems are about what is read in a state with that invariant.
* `SortedList`: the sorted dictionary has each trade once, in the order of the keys. That
  such a list exists is proved with the number of trades before a trade as its place.
* `FoldLeft` is a recursive function over the sets of indices of a list. `FoldExists` shows
  that this function exists, by induction over the greatest index, `GroupLoop`, `OffersGrouped`,
  `BinLoop`, `CloseLoop` and `ChartLoop` that the operators are the loops of their rounds,
  and `LoopInduction` that what holds before a loop and is kept by a round holds after it;
  the statement is a set there, as in `SumTheorems`.
* `GroupsAreWhole` (`GroupsAreSums`) and `RecentGroupsAreNewest` (`RecentGroups`) rest on the
  loop invariant `Chunk`: the loop of `group_trades` has grouped the first m trades, all it
  has seen unless the next one would have opened one group too many. With trades listed
  from the newest on, the trades that are left out are in no newer bin.
* `ChartCoversWindow` (`BinsCoverWindow`), `PricesAreContinuous` (`ChartIsContinuous`) and
  `RangeIsOfTrades` (`RangeOfTrades`) rest on two loop invariants. `Filled` says what a bin
  holds after some of its trades: their amount, their least and greatest price, and the
  prices of the latest ones, which are a tail of the list because trades come by time.
  `Charted` says of the outer loop that each bin shows its trades and opens with
  `LatestPrice` of the trades before it, also where the bins between are empty.
* `ChartBinsPartition`: the pairs of timestamps `make_price_bins` reads the trades between are
  disjoint bins, each holds exactly the times that `find_time_bin` puts at its start, and
  together they cover the window.

## Exchange

The whole system around one offer: the node that makes it, the node that takes it, the
service, and what connects them. The three processes are instances of `RaidexNode` (with
the variables `m_*` and `t_*`) and `CommitmentService`. An action of this module is an
action of one of them, with the input that another one has really produced in place of
the arbitrary input the component's own `Next` allows:

| connection | here | in the component alone |
| --- | --- | --- |
| a node's message to the service | `Reads` a message in the node's `sent`, once, with its sender | any node sends anything |
| a message of the service to a node | `ServiceSends` puts it on the node's `topic`, `MakerReads` and `TakerReads` take it off in order | a proof for what was committed, then perhaps a cancellation |
| offer and taker's call between the nodes | the other node has sent it | any peer, at any time |
| deposit | `DepositArrives` once the node has started the transfer | any deposit |
| payment, refund | `PaidTo` once the sender has started it, or the service's Raiden node has paid it | any payment |

Everything may be delayed for ever, which stands for its loss; timers fire at any
moment; consumers and tasks die of exceptions as in the components. Both nodes run the
code of this repository, so nobody lies.

A node's clients of the service and of Raiden and its Raiden listener (`MakerHandsOn`,
`TakerHandsOn`) only move something from one queue of the node to another, or start a
greenlet. They go first (`HandedOn`). This is a reduction and not what the scheduler does, for
a consumer whose queue holds several items handles them all before it yields. It is
sound because these steps commute with all others: they never wait for anything, no other
process sees what they do except that a transfer has begun, and when that arrives is open
anyway. The runs of `RaidexNode` have the other orders, too. Without this the run would
not end in reasonable time.

`SecuredExchange` is what the system promises for one offer, over `DepositEscrow`: a
node is *secured* once the service has accepted its deposit and proved it, it pays its
counterparty only when secured, and deposits are returned less the fee
only together and after both have paid. `RefinesSecuredExchange` says that nodes and
service implement it, with the deposits mapped as in `RefinesEscrow`, *secured* as the
nodes a proof is on its way to, and *paid* as the transfers they have started.

| run | instance | checks |
| --- | --- | --- |
| `exchange` | a maker and a taker, one offer, one order each | `NodesFit`, `FeeMeansSwapped`, `MatchedTogether`, `RefinesSecuredExchange` |
| `exchange_unsecured` | the same; no timer fires, the maker's user may cancel | `PaysAgainstSecurity` **violated** |

`NodesFit` discharges the assumption `RaidexNode` makes about the service: what is a
guard of `HearCommitmentProof` and `HearCancellationProof` there is a consequence here.
`MatchedTogether` relates the two nodes: a maker pays only when its taker has its proof
and is in the exchange, too, whichever of the three timers fires when.

Bounds: one offer, because swaps of different offers share only the tasks of the
service, whose death is part of the run; one order of each user, no cancellation by the
users (but for the maker's, in `exchange_unsecured`) and no requests that raise (these are in
the runs of `RaidexNode` and `CommitmentService`); `MaxBacklog` of the service is larger
than the number of messages it can send here. A system with nothing left to do is not deadlocked.

The violation is a finding. The maker cancels while the service waits for a taker, and the
service gives the maker's deposit back. The commitment of a taker who does not know it arrives
now, for nothing tells the readers of the broadcast that an offer is cancelled, and
`CommitmentTask` opens a new swap with the taker as its *maker* (`tasks.py:161`). Its
deposit then earns a `CommitmentProof`, which does not say which part it is for; the
taker, who is matched already, pays at once a maker who has no security any more. The
run uses `SpecCancelled`, in which no timer fires, of the nodes or of the service, and the
user of the maker may cancel: `cancel_order` of the node sends the Cancellation, at any time
the offer is open, and the new swap has all the time that was left. After the timers the same is
possible but unlikely: the commitment carries the offer's own timeout date, so a swap opened
after it times out in the next iteration of the loop (`swap_state_machine.py:150`), and the
deposit must arrive in it.

Liveness of the whole is not stated. That an exchange ends well for two nodes that
follow the protocol is false, since a payment may go unnoticed
(`node_payment_unnoticed`); that every swap and every waiting offer ends is checked of
the components, with nothing assumed of the other side.

### Proofs about Exchange

`ExchangeProofs` proves, for any fee and amount, all that the passing run checks:
`NodesFitTheService` (`NodesFit`), `FeeOnlyForExchange` (`FeeMeansSwapped`), `NodesAgree`
(`MatchedTogether`) and `ImplementsSecuredExchange` (`RefinesSecuredExchange`). It assumes
what `Exchange` does (`NodesAssumption`, `DepositAssumption`, `ReceiptAssumption`): two
nodes apart from each other and the service, a positive deposit, and a fee of at most 100
percent.

The theorems about the components are used through instances of their proof modules, whose
assumptions the lemma `Assumptions` discharges. An action here takes the input another
component has produced, so first it has to be an action of the component's own `Next`
(`ServiceRuns`, `MakerRuns`, `TakerRuns`); for a proof or a cancellation that is what
`NodesFit` says. It is no invariant of one process: that a proof read is one the node
waits for depends on what the service has sent before, what the node has sent the service
and what it has heard. The inductive invariant `XInv` is `Processes`, the invariants of
the three components, and `Between`, what is under way between them:

| part | says | needed for |
| --- | --- | --- |
| `Delivery` | a message that was read was sent by the node; a topic holds messages for its node | every part about messages |
| `Word` | who is in the open swap has committed, a deposit that arrived was paid by its node, and a proof queued, on its way or heard means both for its recipient | `RefinesSecuredExchange`, `NodesFit` |
| `Order` | a cancellation comes after the proof, in the service's queue and in the topic | `NodesFit` |
| `Fees` | a refund less the fee exists only after both nodes have confirmed | `FeeMeansSwapped` |
| `Payments` | a payment that a node has seen was started by the other | `FeeMeansSwapped` |
| `Called` | the maker is called, or in the exchange, only because the taker has told it | `MatchedTogether` |

`ProcessesStep` shows that each step is one of each process or leaves it alone, and
`Effects` what the step does to the pieces of state that `Between` is about, so the parts
need no case per action of the nodes. `ComponentsRun` states the result: every behaviour
of the system is, for each process, a behaviour of that component's `Spec`, so every
theorem about the component holds in the system. For the refinement, `ImplementsEscrow`
is used as it is; what is left is that a deposit becomes secured when the service's proof
is queued, that a node pays only after its proof (`PayerIsTold`), and that a fee means two
payments (`FeeIsPaidFor`).

## Not modelled

* RLP, hashing and the cryptography of signatures (`messages.py`, `signing.py`,
  `account.py`): no state; a signature is the sender's address. Argument parsing, HTTP
  servers and the web UI: display and transport.
* The resources of the API that only read the book, the trades or the channels; what
  they read is in `OfferBook` and `Trades`.
* `raiden_info.py`, the poll for channels and the channel filter, which store the last
  answer of Raiden for display; nothing of the protocol reads it.
* `bots.py`, which is written against methods the node no longer has, and
  `RaidexNode.market_price`, which only the bots call and which reads a field `amount`
  that offers do not have; the legacy `service.py`, which the entry points do not reach.
* The trader mock and the other mocks: they stand in for Raiden in tests. Raiden itself
  is external here, as what the clients see of it.
* `PaymentFailedStateChange`, which nothing dispatches; `OfferTakenTask` and
  `SwapCompletedTask`, which nothing starts and which hand `TradesView` book entries
  where it asserts offers.
* Amounts that are no integers. The API also takes an amount that is a float; the messages
  cannot carry it, and building one raises in the transport, which is the fault `send`.
* Crashes and restarts: no process keeps anything on disk, so a restart is a new process
  with empty state and other ids.
