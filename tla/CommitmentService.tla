------------------------- MODULE CommitmentService -------------------------
(***************************************************************************)
(* The commitment service (raidex/commitment_service): a depository that   *)
(* takes a deposit from the maker and from one taker of an offer, waits    *)
(* for both to confirm the swap, and then returns or keeps the deposits.   *)
(*                                                                         *)
(* The service is a set of gevent greenlets around two shared containers,  *)
(* the dictionary swaps and the two queues.  No handler yields, so every   *)
(* handler is one action, together with the whole chain of transitions     *)
(* (finalize included) and callbacks the state machine runs inside it.     *)
(* An exception that leaves a handler ends the greenlet for good while the *)
(* others go on: tasks is the set of greenlets still running.              *)
(*                                                                         *)
(* Outside the module: the raidEX nodes, which may send any message in any *)
(* order, and the Raiden node, which lists the payments and answers the    *)
(* refund transfers.  All deposits are in the commitment token.            *)
(***************************************************************************)
EXTENDS Naturals, Sequences, FiniteSets, Functions

CONSTANTS
    OfferIds,    \* identifiers of offers, chosen by the nodes
    Addresses,   \* the nodes that may commit to an offer
    Amounts,     \* amounts a node may transfer as its deposit
    FeePercent,  \* fee_rate of the service, in percent
    MaxBacklog,  \* bound: a swap is opened only while at most so many messages wait
    Faults,      \* which HTTP requests may raise: "refund", "send", "poll"
    None         \* Python's None

ASSUME AmountsAssumption == Amounts \subseteq Nat \ {0}
ASSUME FeeAssumption == FeePercent \in 0 .. 100
\* Ids of offers and addresses are numbers of fixed width.
ASSUME FiniteAssumption == IsFiniteSet(OfferIds) /\ IsFiniteSet(Addresses)
ASSUME BacklogAssumption == MaxBacklog \in Nat

VARIABLES
    swaps,          \* offer_id -> SwapCommitment, the live swaps
    deposits,       \* receipt -> amount the Raiden node lists for it, 0 before the payment
    events,         \* keys of the payments already handed to TransferReceivedTask
    refund_queue,   \* Refund -> how many times it waits in the priority queue
    in_flight,      \* Refund -> transfers sent and not yet answered
    refunded,       \* Refund -> transfers answered with status 200
    lost,           \* Refund -> transfers that raised, after which nothing retries
    message_queue,  \* messages that wait for MessageSenderTask
    tasks,          \* the greenlets that are still running
    unread          \* offer_id -> senders whose SwapExecution no task will read

refunds == <<refund_queue, in_flight, refunded, lost>>
vars == <<swaps, deposits, events, refund_queue, in_flight, refunded, lost,
          message_queue, tasks, unread>>

-----------------------------------------------------------------------------
(* Data. *)

\* A payment is known by its initiator and identifier (identifier_tuple).
TransferReceipt == [initiator : Addresses, identifier : OfferIds]
ASSUME NoneAssumption == None \notin Addresses \cup TransferReceipt

Refund == [receipt : TransferReceipt, claim_fee : BOOLEAN]

\* The states a swap rests in between two handlers.
ExecutionStates == {"wait_for_execution", "wait_for_maker_execution",
                    "wait_for_taker_execution"}
LiveStates == {"wait_for_maker", "wait_for_taker"} \cup ExecutionStates

SwapCommitment ==
    [state : LiveStates \cup {"absent"},
     maker : Addresses \cup {None},
     taker : Addresses \cup {None},
     taker_commitment_pool : SUBSET Addresses,
     maker_transfer_receipt : TransferReceipt \cup {None},
     taker_transfer_receipt : TransferReceipt \cup {None}]

\* The offer has no entry in swaps.
Absent == [state |-> "absent", maker |-> None, taker |-> None,
           taker_commitment_pool |-> {},
           maker_transfer_receipt |-> None, taker_transfer_receipt |-> None]

MessageTypes == {"CommitmentProof", "OfferTaken", "SwapCompleted", "CancellationProof"}
Message == [type : MessageTypes, offer_id : OfferIds, recipient : Addresses \cup {None}]

AllTasks == {"CommitmentTask", "SwapExecutionTask", "MessageSenderTask", "poll"}

CommitmentProof(o, to) == [type |-> "CommitmentProof", offer_id |-> o, recipient |-> to]
OfferTaken(o) == [type |-> "OfferTaken", offer_id |-> o, recipient |-> None]
SwapCompleted(o) == [type |-> "SwapCompleted", offer_id |-> o, recipient |-> None]
CancellationProof(o, to) == [type |-> "CancellationProof", offer_id |-> o, recipient |-> to]

\* Queue one more refund of the receipt.
QueueRefund(queue, receipt, claim_fee) ==
    [queue EXCEPT ![[receipt |-> receipt, claim_fee |-> claim_fee]] = @ + 1]

\* Mutant: the fee is added to the refund instead of taken from it.
RefundAmountPlusFee(r) ==
    IF r.claim_fee THEN (deposits[r.receipt] * (100 + FeePercent) + 99) \div 100
                   ELSE deposits[r.receipt]

\* What RefundTask transfers: int() drops the fraction of amount - amount * fee_rate.
RefundAmount(r) ==
    IF r.claim_fee THEN (deposits[r.receipt] * (100 - FeePercent)) \div 100
                   ELSE deposits[r.receipt]

-----------------------------------------------------------------------------
Init ==
    /\ swaps = [o \in OfferIds |-> Absent]
    /\ deposits = [rc \in TransferReceipt |-> 0]
    /\ events = {}
    /\ refund_queue = [r \in Refund |-> 0]
    /\ in_flight = [r \in Refund |-> 0]
    /\ refunded = [r \in Refund |-> 0]
    /\ lost = [r \in Refund |-> 0]
    /\ message_queue = <<>>
    /\ tasks = AllTasks
    /\ unread = [o \in OfferIds |-> {}]

-----------------------------------------------------------------------------
(* CommitmentTask.process *)

\* Mutant: the proof is sent for the commitment message, before the deposit.
MakerCommitmentProved(sender, o) ==
    /\ "CommitmentTask" \in tasks
    /\ swaps[o].state = "absent"
    /\ Len(message_queue) <= MaxBacklog
    /\ swaps' = [swaps EXCEPT ![o] = [Absent EXCEPT !.state = "wait_for_maker",
                                                    !.maker = sender]]
    /\ message_queue' = Append(message_queue, CommitmentProof(o, sender))
    /\ UNCHANGED <<deposits, events, refunds, tasks, unread>>

\* No swap under this id: make_swap, then maker_commitment_msg, which also starts
\* the timer.  Whoever commits first is the maker.
MakerCommitment(sender, o) ==
    /\ "CommitmentTask" \in tasks
    /\ swaps[o].state = "absent"
    /\ Len(message_queue) <= MaxBacklog
    /\ swaps' = [swaps EXCEPT ![o] = [Absent EXCEPT !.state = "wait_for_maker",
                                                    !.maker = sender]]
    /\ UNCHANGED <<deposits, events, refunds, message_queue, tasks, unread>>

\* taker_commitment_msg: the first commitment of a sender is kept, others are ignored.
TakerCommitment(sender, o) ==
    /\ "CommitmentTask" \in tasks
    /\ swaps[o].state = "wait_for_taker"
    /\ swaps' = [swaps EXCEPT ![o].taker_commitment_pool = @ \cup {sender}]
    /\ UNCHANGED <<deposits, events, refunds, message_queue, tasks, unread>>

\* In every other state the trigger is invalid: MachineError ends the task.
UnexpectedCommitment(o) ==
    /\ "CommitmentTask" \in tasks
    /\ swaps[o].state \in LiveStates \ {"wait_for_taker"}
    /\ tasks' = tasks \ {"CommitmentTask"}
    /\ UNCHANGED <<swaps, deposits, events, refunds, message_queue, unread>>

-----------------------------------------------------------------------------
(* Deposits: the Raiden node lists a payment; the poll of TraderClient hands every *)
(* key it has not seen to TransferReceivedTask, which looks the swap up.            *)

Pay(rc, amount) ==
    /\ deposits[rc] = 0
    /\ deposits' = [deposits EXCEPT ![rc] = amount]
    /\ UNCHANGED <<swaps, events, refunds, message_queue, tasks, unread>>

\* Mutant: every poll hands on everything the Raiden node lists.
DeliverAgain(rc) ==
    /\ "poll" \in tasks
    /\ deposits[rc] > 0
    /\ events' = events \cup {rc}

\* request_events: a listed payment is delivered when its key is new.
DeliverOnce(rc) ==
    /\ "poll" \in tasks
    /\ deposits[rc] > 0
    /\ rc \notin events
    /\ events' = events \cup {rc}

\* transfer_receipt in wait_for_maker, sender_is_maker: the service holds the deposit
\* and answers with the proof.
MakerTransfer(rc) ==
    LET o == rc.identifier IN
    /\ DeliverOnce(rc)
    /\ swaps[o].state = "wait_for_maker"
    /\ rc.initiator = swaps[o].maker
    /\ swaps' = [swaps EXCEPT ![o] = [@ EXCEPT !.state = "wait_for_taker",
                                               !.maker_transfer_receipt = rc]]
    /\ message_queue' = Append(message_queue, CommitmentProof(o, swaps[o].maker))
    /\ UNCHANGED <<deposits, refunds, tasks, unread>>

\* transfer_receipt in wait_for_taker, sender_sent_taker_commitment: the first
\* committed taker to pay is the taker.
TakerTransfer(rc) ==
    LET o == rc.identifier IN
    /\ DeliverOnce(rc)
    /\ swaps[o].state = "wait_for_taker"
    /\ rc.initiator \in swaps[o].taker_commitment_pool
    /\ swaps' = [swaps EXCEPT ![o] = [@ EXCEPT !.state = "wait_for_execution",
                                               !.taker = rc.initiator,
                                               !.taker_transfer_receipt = rc]]
    /\ message_queue' = message_queue \o <<OfferTaken(o), CommitmentProof(o, rc.initiator)>>
    /\ UNCHANGED <<deposits, refunds, tasks, unread>>

\* refund_unsuccessful_transfer: a transfer that changes no state goes back, no fee.
UnsuccessfulTransfer(rc) ==
    LET swap == swaps[rc.identifier] IN
    /\ DeliverOnce(rc)
    /\ \/ swap.state = "wait_for_maker" /\ rc.initiator # swap.maker
       \/ swap.state = "wait_for_taker" /\ rc.initiator \notin swap.taker_commitment_pool
       \/ swap.state \in ExecutionStates
    /\ refund_queue' = QueueRefund(refund_queue, rc, FALSE)
    /\ UNCHANGED <<swaps, deposits, in_flight, refunded, lost, message_queue, tasks, unread>>

\* No swap under the identifier: the receipt is dropped.
TransferWithoutSwap(rc) ==
    /\ DeliverOnce(rc)
    /\ swaps[rc.identifier].state = "absent"
    /\ UNCHANGED <<swaps, deposits, refunds, message_queue, tasks, unread>>

\* requests.get raises in the poll greenlet, which ends.
PollRaises ==
    /\ "poll" \in Faults
    /\ tasks' = tasks \ {"poll"}
    /\ UNCHANGED <<swaps, deposits, events, refunds, message_queue, unread>>

-----------------------------------------------------------------------------
(* SwapExecutionTask.process *)

\* Mutant: the first confirmation already completes the swap.
FirstExecutionCompletes(sender, o) ==
    LET swap == swaps[o] IN
    /\ "SwapExecutionTask" \in tasks
    /\ swap.state = "wait_for_execution" /\ sender \in {swap.maker, swap.taker}
    /\ message_queue' = Append(message_queue, SwapCompleted(o))
    /\ refund_queue' = QueueRefund(QueueRefund(refund_queue, swap.maker_transfer_receipt, TRUE),
                                   swap.taker_transfer_receipt, TRUE)
    /\ swaps' = [swaps EXCEPT ![o] = Absent]
    /\ unread' = [unread EXCEPT ![o] = {}]
    /\ UNCHANGED <<deposits, events, in_flight, refunded, lost, tasks>>

\* The first of the two confirmations; the maker's transition is tried first.
FirstExecution(sender, o) ==
    /\ "SwapExecutionTask" \in tasks
    /\ swaps[o].state = "wait_for_execution"
    /\ \/ /\ sender = swaps[o].maker
          /\ swaps' = [swaps EXCEPT ![o].state = "wait_for_taker_execution"]
       \/ /\ sender # swaps[o].maker /\ sender = swaps[o].taker
          /\ swaps' = [swaps EXCEPT ![o].state = "wait_for_maker_execution"]
    /\ UNCHANGED <<deposits, events, refunds, message_queue, tasks, unread>>

\* The second one: traded.  Both deposits are queued for refund less the fee, and
\* finalize deletes the swap.
SecondExecution(sender, o) ==
    LET swap == swaps[o] IN
    /\ "SwapExecutionTask" \in tasks
    /\ \/ swap.state = "wait_for_taker_execution" /\ sender = swap.taker
       \/ swap.state = "wait_for_maker_execution" /\ sender = swap.maker
    /\ message_queue' = Append(message_queue, SwapCompleted(o))
    /\ refund_queue' = QueueRefund(QueueRefund(refund_queue, swap.maker_transfer_receipt, TRUE),
                                   swap.taker_transfer_receipt, TRUE)
    /\ swaps' = [swaps EXCEPT ![o] = Absent]
    /\ unread' = [unread EXCEPT ![o] = {}]
    /\ UNCHANGED <<deposits, events, in_flight, refunded, lost, tasks>>

\* Before the execution states the trigger is invalid: MachineError ends the task.
UnexpectedExecution(o) ==
    /\ "SwapExecutionTask" \in tasks
    /\ swaps[o].state \in {"wait_for_maker", "wait_for_taker"}
    /\ tasks' = tasks \ {"SwapExecutionTask"}
    /\ UNCHANGED <<swaps, deposits, events, refunds, message_queue, unread>>

\* No swap, or none of the transitions' conditions holds: nothing happens.
IgnoredExecution(sender, o) ==
    LET swap == swaps[o] IN
    /\ "SwapExecutionTask" \in tasks
    /\ \/ swap.state = "absent"
       \/ swap.state = "wait_for_execution" /\ sender \notin {swap.maker, swap.taker}
       \/ swap.state = "wait_for_taker_execution" /\ sender # swap.taker
       \/ swap.state = "wait_for_maker_execution" /\ sender # swap.maker
    /\ UNCHANGED vars

\* A confirmation that arrives once the task has ended waits in the listener's queue
\* for ever.  Only those for a swap in execution are of interest.
UnreadExecution(sender, o) ==
    /\ "SwapExecutionTask" \notin tasks
    /\ swaps[o].state \in ExecutionStates
    /\ unread' = [unread EXCEPT ![o] = @ \cup {sender}]
    /\ UNCHANGED <<swaps, deposits, events, refunds, message_queue, tasks>>

-----------------------------------------------------------------------------
(* timeout: the timer of the swap (trigger_timeout) and a Cancellation message     *)
(* from anyone (hand_cancellation_msg) fire the same trigger.  A timer that fires   *)
(* after its swap was finalized only raises in its own greenlet.                    *)

\* Mutant: the maker gets a proof of the cancellation in this case, too.
TimeoutUncommittedTells(o) ==
    /\ swaps[o].state = "wait_for_maker"
    /\ swaps' = [swaps EXCEPT ![o] = Absent]
    /\ message_queue' = Append(message_queue, CancellationProof(o, swaps[o].maker))
    /\ unread' = [unread EXCEPT ![o] = {}]
    /\ UNCHANGED <<deposits, events, refunds, tasks>>

\* uncommitted: the maker's deposit never came.
TimeoutUncommitted(o) ==
    /\ swaps[o].state = "wait_for_maker"
    /\ swaps' = [swaps EXCEPT ![o] = Absent]
    /\ unread' = [unread EXCEPT ![o] = {}]
    /\ UNCHANGED <<deposits, events, refunds, message_queue, tasks>>

\* Mutant: finalize is missing from the callbacks, the swap waits on after its refund.
TimeoutUntradedUnfinished(o) ==
    /\ swaps[o].state = "wait_for_taker"
    /\ refund_queue[[receipt |-> swaps[o].maker_transfer_receipt, claim_fee |-> FALSE]] = 0
    /\ refund_queue' = QueueRefund(refund_queue, swaps[o].maker_transfer_receipt, FALSE)
    /\ message_queue' = Append(message_queue, CancellationProof(o, swaps[o].maker))
    /\ UNCHANGED <<swaps, deposits, events, in_flight, refunded, lost, tasks, unread>>

\* untraded: the maker gets the whole deposit back, and a proof of the cancellation.
TimeoutUntraded(o) ==
    /\ swaps[o].state = "wait_for_taker"
    /\ refund_queue' = QueueRefund(refund_queue, swaps[o].maker_transfer_receipt, FALSE)
    /\ message_queue' = Append(message_queue, CancellationProof(o, swaps[o].maker))
    /\ swaps' = [swaps EXCEPT ![o] = Absent]
    /\ unread' = [unread EXCEPT ![o] = {}]
    /\ UNCHANGED <<deposits, events, in_flight, refunded, lost, tasks>>

\* Mutant: a party that confirmed gets its deposit back, so only one is punished.
TimeoutFailedOneSided(o) ==
    /\ swaps[o].state \in ExecutionStates
    /\ refund_queue' = IF swaps[o].state = "wait_for_taker_execution"
                       THEN QueueRefund(refund_queue, swaps[o].maker_transfer_receipt, FALSE)
                       ELSE refund_queue
    /\ swaps' = [swaps EXCEPT ![o] = Absent]
    /\ unread' = [unread EXCEPT ![o] = {}]
    /\ UNCHANGED <<deposits, events, in_flight, refunded, lost, message_queue, tasks>>

\* failed: punish_maker and punish_taker do nothing, the service keeps both deposits.
TimeoutFailed(o) ==
    /\ swaps[o].state \in ExecutionStates
    /\ swaps' = [swaps EXCEPT ![o] = Absent]
    /\ unread' = [unread EXCEPT ![o] = {}]
    /\ UNCHANGED <<deposits, events, refunds, message_queue, tasks>>

\* CancellationRequestTask: a Cancellation for an offer without a swap is ignored.
IgnoredCancellation(o) == swaps[o].state = "absent" /\ UNCHANGED vars

\* Mutant: no timeout once both parties have paid.
TimeoutBeforeExecution(o) == TimeoutUncommitted(o) \/ TimeoutUntraded(o)

Timeout(o) == TimeoutUncommitted(o) \/ TimeoutUntraded(o) \/ TimeoutFailed(o)

-----------------------------------------------------------------------------
(* RefundTask: all refunds have the same priority, so any of them may be next.      *)

\* Mutant: the queue is read without waiting for an entry.
StartRefundUnchecked(r) ==
    /\ refund_queue' = [refund_queue EXCEPT ![r] = @ - 1]
    /\ in_flight' = [in_flight EXCEPT ![r] = @ + 1]
    /\ UNCHANGED <<swaps, deposits, events, refunded, lost, message_queue, tasks, unread>>

\* process: start the transfer and a greenlet that waits for its answer.
StartRefund(r) ==
    /\ refund_queue[r] > 0
    /\ refund_queue' = [refund_queue EXCEPT ![r] = @ - 1]
    /\ in_flight' = [in_flight EXCEPT ![r] = @ + 1]
    /\ UNCHANGED <<swaps, deposits, events, refunded, lost, message_queue, tasks, unread>>

\* get_and_requeue, status 200.
RefundSucceeds(r) ==
    /\ in_flight[r] > 0
    /\ in_flight' = [in_flight EXCEPT ![r] = @ - 1]
    /\ refunded' = [refunded EXCEPT ![r] = @ + 1]
    /\ UNCHANGED <<swaps, deposits, events, refund_queue, lost, message_queue, tasks, unread>>

\* Mutant: a refused transfer is logged and forgotten.
RefundFailsForGood(r) ==
    /\ in_flight[r] > 0
    /\ in_flight' = [in_flight EXCEPT ![r] = @ - 1]
    /\ lost' = [lost EXCEPT ![r] = @ + 1]
    /\ UNCHANGED <<swaps, deposits, events, refund_queue, refunded, message_queue, tasks, unread>>

\* get_and_requeue, another status: the same refund is queued again.
RefundFails(r) ==
    /\ in_flight[r] > 0
    /\ in_flight' = [in_flight EXCEPT ![r] = @ - 1]
    /\ refund_queue' = [refund_queue EXCEPT ![r] = @ + 1]
    /\ UNCHANGED <<swaps, deposits, events, refunded, lost, message_queue, tasks, unread>>

\* The request raises, async_result.get() raises it again, and nobody requeues.
RefundRaises(r) ==
    /\ "refund" \in Faults
    /\ in_flight[r] > 0
    /\ in_flight' = [in_flight EXCEPT ![r] = @ - 1]
    /\ lost' = [lost EXCEPT ![r] = @ + 1]
    /\ UNCHANGED <<swaps, deposits, events, refund_queue, refunded, message_queue, tasks, unread>>

-----------------------------------------------------------------------------
(* MessageSenderTask: first in, first out; a message the broker has no listener for *)
(* is gone as well.                                                                  *)

SendMessage ==
    /\ "MessageSenderTask" \in tasks
    /\ message_queue # <<>>
    /\ message_queue' = Tail(message_queue)
    /\ UNCHANGED <<swaps, deposits, events, refunds, tasks, unread>>

\* requests.post raises: the message is lost and the task ends.
SendRaises ==
    /\ "send" \in Faults
    /\ "MessageSenderTask" \in tasks
    /\ message_queue # <<>>
    /\ message_queue' = Tail(message_queue)
    /\ tasks' = tasks \ {"MessageSenderTask"}
    /\ UNCHANGED <<swaps, deposits, events, refunds, unread>>

-----------------------------------------------------------------------------
CommitmentTask ==
    \E o \in OfferIds :
        \/ \E a \in Addresses : MakerCommitment(a, o) \/ TakerCommitment(a, o)
        \/ UnexpectedCommitment(o)

TransferReceivedTask ==
    \E rc \in TransferReceipt :
        MakerTransfer(rc) \/ TakerTransfer(rc) \/ UnsuccessfulTransfer(rc) \/ TransferWithoutSwap(rc)

SwapExecutionTask ==
    \E o \in OfferIds :
        \/ \E a \in Addresses : \/ FirstExecution(a, o)
                                \/ SecondExecution(a, o)
                                \/ IgnoredExecution(a, o)
                                \/ UnreadExecution(a, o)
        \/ UnexpectedExecution(o)

RefundTask ==
    \E r \in Refund : StartRefund(r) \/ RefundSucceeds(r) \/ RefundFails(r) \/ RefundRaises(r)

MessageSenderTask == SendMessage \/ SendRaises

Next ==
    \/ \E rc \in TransferReceipt, amount \in Amounts : Pay(rc, amount)
    \/ CommitmentTask
    \/ TransferReceivedTask
    \/ PollRaises
    \/ SwapExecutionTask
    \/ \E o \in OfferIds : Timeout(o) \/ IgnoredCancellation(o)
    \/ RefundTask
    \/ MessageSenderTask

Spec == Init /\ [][Next]_vars

\* The timer of every swap fires; RefundTask empties its queue; the Raiden node does
\* not refuse the same refund for ever.
Fairness ==
    /\ \A o \in OfferIds : WF_vars(Timeout(o))
    /\ \A r \in Refund : WF_vars(StartRefund(r)) /\ SF_vars(RefundSucceeds(r))

FairSpec == Spec /\ Fairness

-----------------------------------------------------------------------------
(* What the service promises. *)

\* Every variable has its type: in particular no counter of refunds goes below zero
\* and no queue ever holds a refund of something that is not a receipt.
TypeOK ==
    /\ swaps \in [OfferIds -> SwapCommitment]
    /\ deposits \in [TransferReceipt -> Nat]
    /\ events \subseteq TransferReceipt
    /\ refund_queue \in [Refund -> Nat]
    /\ in_flight \in [Refund -> Nat]
    /\ refunded \in [Refund -> Nat]
    /\ lost \in [Refund -> Nat]
    /\ message_queue \in Seq(Message)
    /\ tasks \subseteq AllTasks
    /\ unread \in [OfferIds -> SUBSET Addresses]

\* How often a refund of this kind was queued and how far each got.
RefundsOf(r) == refund_queue[r] + in_flight[r] + refunded[r] + lost[r]
Full(rc) == [receipt |-> rc, claim_fee |-> FALSE]
LessFee(rc) == [receipt |-> rc, claim_fee |-> TRUE]
Claims(rc) == RefundsOf(Full(rc)) + RefundsOf(LessFee(rc))

\* The swap holds this deposit as security.
Held(rc) == \/ swaps[rc.identifier].maker_transfer_receipt = rc
            \/ swaps[rc.identifier].taker_transfer_receipt = rc

\* Whatever the order of retries, timers, cancellations, confirmations and polls, a
\* deposit is refunded at most once, with the fee or without it.
RefundedAtMostOnce == \A rc \in TransferReceipt : Claims(rc) <= 1

\* A deposit that counts as the maker's security was paid by that maker for that
\* offer, reached the service, and no refund of it is under way.
MakerCollateral(o) ==
    LET rc == [initiator |-> swaps[o].maker, identifier |-> o] IN
    /\ swaps[o].maker \in Addresses
    /\ swaps[o].maker_transfer_receipt = rc
    /\ rc \in events
    /\ Claims(rc) = 0

\* The same for the taker, who committed before paying and is not the maker: that the
\* maker cannot be his own taker rests on the poll delivering each key only once.
TakerCollateral(o) ==
    LET rc == [initiator |-> swaps[o].taker, identifier |-> o] IN
    /\ swaps[o].taker \in swaps[o].taker_commitment_pool
    /\ swaps[o].taker # swaps[o].maker
    /\ swaps[o].taker_transfer_receipt = rc
    /\ rc \in events
    /\ Claims(rc) = 0

\* A swap that waits for a taker is backed by the maker's deposit, one that waits for
\* its execution by two deposits of two parties; none of them is being paid back.
OfferCollateral(o) ==
    /\ swaps[o].state \in {"wait_for_taker"} \cup ExecutionStates => MakerCollateral(o)
    /\ swaps[o].state \in ExecutionStates => TakerCollateral(o)
CollateralIntact == \A o \in OfferIds : OfferCollateral(o)

\* All that the service was paid and has not paid back covers, at every moment, what it
\* owes: the refunds queued or in flight and the deposits held for live swaps.  The
\* fee is claimed from completed swaps only and never from the money of others.
Received == SumFunctionOnSet(deposits, events)
PaidBack == SumFunction([r \in Refund |-> refunded[r] * RefundAmount(r)])
Owed == SumFunction([r \in Refund |-> (refund_queue[r] + in_flight[r]) * RefundAmount(r)])
HeldForSwaps == SumFunctionOnSet(deposits, {rc \in TransferReceipt : Held(rc)})
Solvent == PaidBack + Owed + HeldForSwaps <= Received

\* The messages the last step put on the queue.
Queued(m) == /\ Len(message_queue') > Len(message_queue)
             /\ m \in {message_queue'[i] : i \in Len(message_queue) + 1 .. Len(message_queue')}

\* A CommitmentProof is the service's word "that a commitment was made" (messages.py):
\* it is queued only for a party whose deposit the service holds from that step on,
\* and OfferTaken only for a swap backed by both deposits.
ProofStep ==
    \A o \in OfferIds :
        /\ \A a \in Addresses :
             Queued(CommitmentProof(o, a)) => Held([initiator |-> a, identifier |-> o])'
        /\ Queued(OfferTaken(o)) => MakerCollateral(o)' /\ TakerCollateral(o)'

\* Every step that queues a CommitmentProof or OfferTaken has the deposits behind it.
ProofBacked == [][ProofStep]_vars

\* Every swap ends: the timer bounds the wait for a party that stays silent, also
\* after CommitmentTask or SwapExecutionTask has ended.
SwapsEnd == \A o \in OfferIds : swaps[o].state # "absent" ~> swaps[o].state = "absent"

\* "This has to go through!" (swap.py, refund_maker): a refund that is queued is
\* retried until the transfer succeeds.
RefundsArrive == \A r \in Refund : refund_queue[r] > 0 ~> refunded[r] > 0

\* "Used by both parties of a swap, in order to confirm to the CS that the swap went
\* through and have the committed tokens released" (messages.py, SwapExecution): a
\* swap that both parties confirmed before it ended ends with both refunds queued.
Confirmed(o, a) ==
    \/ a \in unread[o]
    \/ a = swaps[o].maker /\ swaps[o].state = "wait_for_taker_execution"
    \/ a = swaps[o].taker /\ swaps[o].state = "wait_for_maker_execution"
ConfirmedSwapIsRefunded ==
    [][\A o \in OfferIds :
         /\ swaps[o].state \in ExecutionStates /\ swaps'[o].state = "absent"
         /\ Confirmed(o, swaps[o].maker) /\ Confirmed(o, swaps[o].taker)
         => \A rc \in TransferReceipt : Held(rc) /\ rc.identifier = o => Claims(rc)' = 1]_vars

\* The refund waits in the queue or for the answer to its transfer.
Due(r) == refund_queue[r] + in_flight[r] > 0

\* What has become of a deposit that no longer is security, and of any deposit, read
\* off the service's state.
Settled(rc) == IF Due(Full(rc)) THEN "owed"
               ELSE IF Due(LessFee(rc)) THEN "owed_less_fee"
               ELSE IF refunded[Full(rc)] > 0 THEN "returned"
               ELSE IF refunded[LessFee(rc)] > 0 THEN "returned_less_fee"
               ELSE "kept"
FateOf(rc) == IF rc \notin events THEN "outside"
              ELSE IF Held(rc) THEN "security" ELSE Settled(rc)

Escrow == INSTANCE DepositEscrow WITH fate <- [rc \in TransferReceipt |-> FateOf(rc)]

\* The service is an escrow of deposits: every step of its tasks moves the deposits as
\* the abstract specification allows, or does not move them.
RefinesEscrow == Escrow!Spec
=============================================================================
