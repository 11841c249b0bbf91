---------------------- MODULE CommitmentServiceProofs ----------------------
(***************************************************************************)
(* Theorems about the commitment service, for any number of offers, nodes  *)
(* and amounts, every fault allowed.                                       *)
(*                                                                         *)
(* RefundedAtMostOnce is not inductive: a step may queue a refund of a     *)
(* deposit, so one has to know that no refund of it exists yet.  That is   *)
(* so because a deposit is refunded either while a swap holds it, and then *)
(* CollateralIntact says that nothing was claimed, or when it is delivered *)
(* and nothing claims a deposit before its delivery.                       *)
(*                                                                         *)
(* That the service implements DepositEscrow, every step moving the fate   *)
(* of the deposits as the escrow allows or not at all, needs besides that  *)
(* a swap holds no receipt before its state says so: otherwise a deposit   *)
(* could count as security that nobody returns or keeps in the end.  So    *)
(* does Solvent, which adds up over the deposits what holds of each.       *)
(***************************************************************************)
EXTENDS CommitmentService, SumTheorems, TLAPS

\* No refund exists of a deposit that no poll has delivered yet.
UndeliveredUnclaimed ==
    \A rc \in TransferReceipt : rc \notin events => Claims(rc) = 0

IInv == TypeOK /\ RefundedAtMostOnce /\ CollateralIntact /\ UndeliveredUnclaimed

-----------------------------------------------------------------------------
(* The type invariant. *)

\* Queueing a refund keeps the queue a function from refunds to numbers.
LEMMA QueueRefundType ==
    ASSUME NEW q \in [Refund -> Nat], NEW rc, NEW b
    PROVE  QueueRefund(q, rc, b) \in [Refund -> Nat]
<1> DEFINE x == [receipt |-> rc, claim_fee |-> b]
<1>1. QueueRefund(q, rc, b) = [q EXCEPT ![x] = q[x] + 1]
  BY DEF QueueRefund
<1> HIDE DEF x
<1>2. ASSUME NEW y \in Refund PROVE [q EXCEPT ![x] = q[x] + 1][y] \in Nat
  <2>1. CASE y = x
    BY <2>1
  <2>2. CASE y # x
    BY <2>2
  <2> QED BY <2>1, <2>2
<1> QED BY <1>1, <1>2

\* The entry of an offer without a swap is well typed.
LEMMA AbsentType == Absent \in SwapCommitment
BY DEF Absent, SwapCommitment

\* The updates of a swap's entry are well typed.
LEMMA SwapUpdateType ==
    ASSUME NEW s \in SwapCommitment
    PROVE  /\ \A e \in ExecutionStates : [s EXCEPT !.state = e] \in SwapCommitment
           /\ \A rc \in TransferReceipt :
                /\ [s EXCEPT !.state = "wait_for_taker",
                             !.maker_transfer_receipt = rc] \in SwapCommitment
                /\ [s EXCEPT !.state = "wait_for_execution", !.taker = rc.initiator,
                             !.taker_transfer_receipt = rc] \in SwapCommitment
<1>1. \A rc \in TransferReceipt : rc.initiator \in Addresses
  BY DEF TransferReceipt
<1> QED BY <1>1 DEF SwapCommitment, LiveStates, ExecutionStates

\* TypeOK holds in the initial state.
LEMMA TypeInit == Init => TypeOK
BY AbsentType DEF Init, TypeOK, Refund, TransferReceipt

\* Every step of every task keeps the types.
LEMMA TypeStep == TypeOK /\ [Next]_vars => TypeOK'
<1> SUFFICES ASSUME TypeOK, [Next]_vars PROVE TypeOK'
    OBVIOUS
<1> USE DEF TypeOK
<1>1. ASSUME NEW rc \in TransferReceipt, NEW amount \in Amounts, Pay(rc, amount)
      PROVE  TypeOK'
  BY <1>1, AmountsAssumption DEF Pay, refunds
<1>2. ASSUME NEW o \in OfferIds, NEW a \in Addresses, MakerCommitment(a, o)
      PROVE  TypeOK'
  <2>1. [Absent EXCEPT !.state = "wait_for_maker", !.maker = a] \in SwapCommitment
    BY AbsentType DEF Absent, SwapCommitment, LiveStates
  <2> QED BY <1>2, <2>1 DEF MakerCommitment, refunds
<1>3. ASSUME NEW o \in OfferIds, NEW a \in Addresses, TakerCommitment(a, o)
      PROVE  TypeOK'
  BY <1>3 DEF TakerCommitment, refunds, SwapCommitment
<1>4. ASSUME NEW o \in OfferIds, UnexpectedCommitment(o) PROVE TypeOK'
  BY <1>4 DEF UnexpectedCommitment, refunds
<1>5. ASSUME NEW rc \in TransferReceipt, MakerTransfer(rc) PROVE TypeOK'
  <2>1. rc.identifier \in OfferIds
    BY DEF TransferReceipt
  <2>2. CommitmentProof(rc.identifier, swaps[rc.identifier].maker) \in Message
    BY <2>1 DEF CommitmentProof, Message, MessageTypes, SwapCommitment
  <2>3. swaps' \in [OfferIds -> SwapCommitment]
    BY <1>5, <2>1, SwapUpdateType DEF MakerTransfer
  <2> QED BY <1>5, <2>1, <2>2, <2>3 DEF MakerTransfer, DeliverOnce, refunds
<1>6. ASSUME NEW rc \in TransferReceipt, TakerTransfer(rc) PROVE TypeOK'
  <2>1. rc.identifier \in OfferIds /\ rc.initiator \in Addresses
    BY DEF TransferReceipt
  <2>2. /\ OfferTaken(rc.identifier) \in Message
        /\ CommitmentProof(rc.identifier, rc.initiator) \in Message
    BY <2>1 DEF OfferTaken, CommitmentProof, Message, MessageTypes
  <2>3. swaps' \in [OfferIds -> SwapCommitment]
    BY <1>6, <2>1, SwapUpdateType DEF TakerTransfer
  <2>4. message_queue' \in Seq(Message)
    BY <1>6, <2>2 DEF TakerTransfer
  <2> QED BY <1>6, <2>3, <2>4 DEF TakerTransfer, DeliverOnce, refunds
<1>7. ASSUME NEW rc \in TransferReceipt, UnsuccessfulTransfer(rc) PROVE TypeOK'
  BY <1>7, QueueRefundType DEF UnsuccessfulTransfer, DeliverOnce
<1>8. ASSUME NEW rc \in TransferReceipt, TransferWithoutSwap(rc) PROVE TypeOK'
  BY <1>8 DEF TransferWithoutSwap, DeliverOnce, refunds
<1>9. CASE PollRaises
  BY <1>9 DEF PollRaises, refunds
<1>10. ASSUME NEW o \in OfferIds, NEW a \in Addresses, FirstExecution(a, o)
       PROVE  TypeOK'
  <2>1. swaps' \in [OfferIds -> SwapCommitment]
    <3>1. PICK e \in ExecutionStates : swaps' = [swaps EXCEPT ![o] = [swaps[o] EXCEPT !.state = e]]
      BY <1>10 DEF FirstExecution, ExecutionStates
    <3> QED BY <3>1, SwapUpdateType
  <2> QED BY <1>10, <2>1 DEF FirstExecution, refunds
<1>11. ASSUME NEW o \in OfferIds, NEW a \in Addresses, SecondExecution(a, o)
       PROVE  TypeOK'
  <2>1. SwapCompleted(o) \in Message
    BY DEF SwapCompleted, Message, MessageTypes
  <2>2. refund_queue' \in [Refund -> Nat]
    BY <1>11, QueueRefundType DEF SecondExecution
  <2>3. message_queue' \in Seq(Message)
    BY <1>11, <2>1 DEF SecondExecution
  <2>4. swaps' \in [OfferIds -> SwapCommitment]
    BY <1>11, AbsentType DEF SecondExecution
  <2> QED BY <1>11, <2>2, <2>3, <2>4 DEF SecondExecution
<1>12. ASSUME NEW o \in OfferIds, UnexpectedExecution(o) PROVE TypeOK'
  BY <1>12 DEF UnexpectedExecution, refunds
<1>13. ASSUME NEW o \in OfferIds, NEW a \in Addresses, UnreadExecution(a, o)
       PROVE  TypeOK'
  BY <1>13 DEF UnreadExecution, refunds
<1>14. ASSUME NEW o \in OfferIds, TimeoutUncommitted(o) PROVE TypeOK'
  BY <1>14, AbsentType DEF TimeoutUncommitted, refunds
<1>15. ASSUME NEW o \in OfferIds, TimeoutUntraded(o) PROVE TypeOK'
  <2>1. CancellationProof(o, swaps[o].maker) \in Message
    BY DEF CancellationProof, Message, MessageTypes, SwapCommitment
  <2>2. message_queue' \in Seq(Message)
    BY <1>15, <2>1 DEF TimeoutUntraded
  <2>3. swaps' \in [OfferIds -> SwapCommitment]
    BY <1>15, AbsentType DEF TimeoutUntraded
  <2>4. refund_queue' \in [Refund -> Nat]
    BY <1>15, QueueRefundType DEF TimeoutUntraded
  <2> QED BY <1>15, <2>2, <2>3, <2>4 DEF TimeoutUntraded
<1>16. ASSUME NEW o \in OfferIds, TimeoutFailed(o) PROVE TypeOK'
  BY <1>16, AbsentType DEF TimeoutFailed, refunds
<1>17. ASSUME NEW r \in Refund, StartRefund(r) PROVE TypeOK'
  BY <1>17 DEF StartRefund
<1>18. ASSUME NEW r \in Refund, RefundSucceeds(r) PROVE TypeOK'
  BY <1>18 DEF RefundSucceeds
<1>19. ASSUME NEW r \in Refund, RefundFails(r) PROVE TypeOK'
  BY <1>19 DEF RefundFails
<1>20. ASSUME NEW r \in Refund, RefundRaises(r) PROVE TypeOK'
  BY <1>20 DEF RefundRaises
<1>21. CASE SendMessage
  BY <1>21 DEF SendMessage, refunds
<1>22. CASE SendRaises
  BY <1>22 DEF SendRaises, refunds
<1>23. CASE UNCHANGED vars
  BY <1>23 DEF vars
<1> QED
  BY <1>1, <1>2, <1>3, <1>4, <1>5, <1>6, <1>7, <1>8, <1>9, <1>10, <1>11, <1>12,
     <1>13, <1>14, <1>15, <1>16, <1>17, <1>18, <1>19, <1>20, <1>21, <1>22, <1>23
  DEF Next, CommitmentTask, TransferReceivedTask, SwapExecutionTask, RefundTask,
      MessageSenderTask, Timeout, IgnoredExecution, IgnoredCancellation

\* The variables keep their types in every behaviour of the service.
THEOREM TypeCorrect == Spec => []TypeOK
BY TypeInit, TypeStep, PTL DEF Spec

-----------------------------------------------------------------------------
(* How the steps change the number of refunds of a deposit. *)

\* The refunds of a deposit are counted by natural numbers.
LEMMA ClaimsType ==
    ASSUME TypeOK, NEW rc \in TransferReceipt
    PROVE  /\ Full(rc) \in Refund /\ LessFee(rc) \in Refund
           /\ \A r \in Refund : RefundsOf(r) \in Nat
           /\ Claims(rc) \in Nat
<1>1. Full(rc) \in Refund /\ LessFee(rc) \in Refund
  BY DEF Refund, Full, LessFee
<1>2. \A r \in Refund : RefundsOf(r) \in Nat
  BY DEF TypeOK, RefundsOf
<1> QED BY <1>1, <1>2 DEF Claims

\* A step that leaves every count of refunds alone leaves the claims alone.
LEMMA ClaimsUnchanged ==
    ASSUME UNCHANGED refunds, NEW rc \in TransferReceipt
    PROVE  Claims(rc)' = Claims(rc)
BY DEF refunds, Claims, RefundsOf

\* Whatever RefundTask does with a refund, none appears and none disappears.
LEMMA RefundMoves ==
    ASSUME TypeOK, NEW r \in Refund,
           StartRefund(r) \/ RefundSucceeds(r) \/ RefundFails(r) \/ RefundRaises(r),
           NEW rc \in TransferReceipt
    PROVE  Claims(rc)' = Claims(rc)
<1>1. ASSUME NEW q \in Refund PROVE RefundsOf(q)' = RefundsOf(q)
  <2>1. CASE StartRefund(r)
    BY <2>1 DEF StartRefund, TypeOK, RefundsOf
  <2>2. CASE RefundSucceeds(r)
    BY <2>2 DEF RefundSucceeds, TypeOK, RefundsOf
  <2>3. CASE RefundFails(r)
    BY <2>3 DEF RefundFails, TypeOK, RefundsOf
  <2>4. CASE RefundRaises(r)
    BY <2>4 DEF RefundRaises, TypeOK, RefundsOf
  <2> QED BY <2>1, <2>2, <2>3, <2>4
<1> QED BY <1>1, ClaimsType DEF Claims

\* Queueing a refund of one deposit adds one claim to it and none to another.
LEMMA QueueOne ==
    ASSUME TypeOK, NEW x \in TransferReceipt, NEW b \in BOOLEAN,
           refund_queue' = QueueRefund(refund_queue, x, b),
           UNCHANGED <<in_flight, refunded, lost>>,
           NEW rc \in TransferReceipt
    PROVE  Claims(rc)' = IF rc = x THEN Claims(rc) + 1 ELSE Claims(rc)
<1> DEFINE rx == [receipt |-> x, claim_fee |-> b]
<1>1. rx \in Refund
  BY DEF Refund
<1>2. \A q \in Refund : RefundsOf(q)' = IF q = rx THEN RefundsOf(q) + 1 ELSE RefundsOf(q)
  BY <1>1 DEF QueueRefund, RefundsOf, TypeOK
<1>3. /\ Full(rc) = rx <=> rc = x /\ b = FALSE
      /\ LessFee(rc) = rx <=> rc = x /\ b = TRUE
  BY DEF Full, LessFee
<1> HIDE DEF rx
<1>4. CASE rc # x
  BY <1>2, <1>3, <1>4, ClaimsType DEF Claims
<1>5. CASE rc = x /\ b = TRUE
  BY <1>2, <1>3, <1>5, ClaimsType DEF Claims
<1>6. CASE rc = x /\ b = FALSE
  BY <1>2, <1>3, <1>6, ClaimsType DEF Claims
<1> QED BY <1>4, <1>5, <1>6

\* A completed swap adds one claim to each of its two deposits.
LEMMA QueueTwo ==
    ASSUME TypeOK, NEW x \in TransferReceipt, NEW y \in TransferReceipt, x # y,
           refund_queue' = QueueRefund(QueueRefund(refund_queue, x, TRUE), y, TRUE),
           UNCHANGED <<in_flight, refunded, lost>>,
           NEW rc \in TransferReceipt
    PROVE  Claims(rc)' = IF rc \in {x, y} THEN Claims(rc) + 1 ELSE Claims(rc)
<1>1. /\ LessFee(x) \in Refund /\ LessFee(y) \in Refund /\ LessFee(rc) \in Refund
      /\ Full(rc) \in Refund
      /\ Full(rc) # LessFee(x) /\ Full(rc) # LessFee(y)
      /\ LessFee(rc) = LessFee(x) <=> rc = x
      /\ LessFee(rc) = LessFee(y) <=> rc = y
  BY DEF Refund, Full, LessFee
<1>2. refund_queue' = [[refund_queue EXCEPT ![LessFee(x)] = @ + 1] EXCEPT ![LessFee(y)] = @ + 1]
  BY DEF QueueRefund, LessFee
<1>3. RefundsOf(Full(rc))' = RefundsOf(Full(rc))
  BY <1>1, <1>2 DEF RefundsOf, TypeOK, Full
<1>4. RefundsOf(LessFee(rc))' = IF rc \in {x, y} THEN RefundsOf(LessFee(rc)) + 1
                                                 ELSE RefundsOf(LessFee(rc))
  <2> DEFINE z == LessFee(rc)  rx == LessFee(x)  ry == LessFee(y)
  <2>1. /\ z \in Refund /\ rx \in Refund /\ ry \in Refund /\ rx # ry
        /\ z = rx <=> rc = x
        /\ z = ry <=> rc = y
        /\ refund_queue' = [[refund_queue EXCEPT ![rx] = @ + 1] EXCEPT ![ry] = @ + 1]
    BY <1>1, <1>2 DEF LessFee
  <2>2. RefundsOf(z) = refund_queue[z] + in_flight[z] + refunded[z] + lost[z]
    BY DEF RefundsOf
  <2>3. RefundsOf(z)' = refund_queue'[z] + in_flight[z] + refunded[z] + lost[z]
    BY DEF RefundsOf
  <2> HIDE DEF z, rx, ry
  <2>4. refund_queue'[z] = IF rc \in {x, y} THEN refund_queue[z] + 1 ELSE refund_queue[z]
    BY <2>1 DEF TypeOK
  <2>5. RefundsOf(z)' = IF rc \in {x, y} THEN RefundsOf(z) + 1 ELSE RefundsOf(z)
    <3> DEFINE newQueue == refund_queue'[z]  newCount == RefundsOf(z)'  count == RefundsOf(z)
    <3>1. /\ refund_queue[z] \in Nat /\ in_flight[z] \in Nat
          /\ refunded[z] \in Nat /\ lost[z] \in Nat
      BY <2>1 DEF TypeOK
    <3>2. /\ newQueue = IF rc \in {x, y} THEN refund_queue[z] + 1 ELSE refund_queue[z]
          /\ newCount = newQueue + in_flight[z] + refunded[z] + lost[z]
          /\ count = refund_queue[z] + in_flight[z] + refunded[z] + lost[z]
      BY <2>2, <2>3, <2>4
    <3> HIDE DEF newQueue, newCount, count
    <3>3. newCount = IF rc \in {x, y} THEN count + 1 ELSE count
      BY <3>1, <3>2
    <3> QED BY <3>3 DEF newCount, count
  <2> QED BY <2>5 DEF z
<1> QED BY <1>3, <1>4, ClaimsType DEF Claims

-----------------------------------------------------------------------------
(* The deposits behind a swap. *)

\* The receipt of a payment of a for offer o.
Key(a, o) == [initiator |-> a, identifier |-> o]

\* Receipts are their keys.
LEMMA KeyFacts ==
    /\ \A a \in Addresses, o \in OfferIds : Key(a, o) \in TransferReceipt
    /\ \A rc \in TransferReceipt :
         /\ rc.initiator \in Addresses
         /\ rc.identifier \in OfferIds
         /\ rc = Key(rc.initiator, rc.identifier)
    /\ \A a, b, o, p : Key(a, o) = Key(b, p) <=> a = b /\ o = p
BY DEF TransferReceipt, Key

\* A step that leaves the swap alone, and makes no claim to a deposit delivered for
\* it, leaves it backed.
LEMMA CollateralKept ==
    ASSUME TypeOK, NEW o \in OfferIds, OfferCollateral(o), swaps'[o] = swaps[o],
           events \subseteq events',
           \A a \in Addresses : Key(a, o) \in events => Claims(Key(a, o))' = Claims(Key(a, o))
    PROVE  OfferCollateral(o)'
<1>1. swaps[o].taker_commitment_pool \subseteq Addresses
  BY DEF TypeOK, SwapCommitment
<1>2. MakerCollateral(o) => MakerCollateral(o)'
  <2> SUFFICES ASSUME MakerCollateral(o) PROVE MakerCollateral(o)'
    OBVIOUS
  <2> DEFINE m == swaps[o].maker
  <2>1. m \in Addresses /\ Key(m, o) \in events /\ Claims(Key(m, o)) = 0
    BY DEF MakerCollateral, Key
  <2>2. Claims(Key(m, o))' = 0
    BY <2>1
  <2> QED BY <2>1, <2>2 DEF MakerCollateral, Key
<1>3. TakerCollateral(o) => TakerCollateral(o)'
  <2> SUFFICES ASSUME TakerCollateral(o) PROVE TakerCollateral(o)'
    OBVIOUS
  <2> DEFINE t == swaps[o].taker
  <2>1. t \in Addresses /\ Key(t, o) \in events /\ Claims(Key(t, o)) = 0
    BY <1>1 DEF TakerCollateral, Key
  <2>2. Claims(Key(t, o))' = 0
    BY <2>1
  <2> QED BY <2>1, <2>2 DEF TakerCollateral, Key
<1> QED BY <1>2, <1>3 DEF OfferCollateral

\* A swap that ends, or has just been opened, needs no deposit.
LEMMA NoCollateralNeeded ==
    ASSUME NEW o, swaps'[o].state \in {"absent", "wait_for_maker"}
    PROVE  OfferCollateral(o)'
BY DEF OfferCollateral, ExecutionStates

-----------------------------------------------------------------------------
(* The inductive invariant. *)

\* A step that changes no claim, no swap and delivers nothing.
LEMMA QuietStep ==
    ASSUME IInv, TypeOK', swaps' = swaps, events' = events,
           \A rc \in TransferReceipt : Claims(rc)' = Claims(rc)
    PROVE  IInv'
<1>1. ASSUME NEW o \in OfferIds PROVE OfferCollateral(o)'
  BY <1>1, KeyFacts, CollateralKept DEF IInv, CollateralIntact
<1> QED BY <1>1 DEF IInv, RefundedAtMostOnce, UndeliveredUnclaimed, CollateralIntact

\* A step that changes no claim, delivers nothing, and opens or ends one swap.
LEMMA OpenOrEnd ==
    ASSUME IInv, TypeOK', NEW o \in OfferIds, NEW s \in SwapCommitment,
           s.state \in {"absent", "wait_for_maker"},
           swaps' = [swaps EXCEPT ![o] = s], events' = events,
           \A rc \in TransferReceipt : Claims(rc)' = Claims(rc)
    PROVE  IInv'
<1>1. ASSUME NEW p \in OfferIds, p # o PROVE OfferCollateral(p)'
  <2>1. swaps'[p] = swaps[p]
    BY <1>1 DEF IInv, TypeOK
  <2> QED BY <1>1, <2>1, KeyFacts, CollateralKept DEF IInv, CollateralIntact
<1>2. OfferCollateral(o)'
  BY NoCollateralNeeded DEF IInv, TypeOK
<1> QED BY <1>1, <1>2 DEF IInv, RefundedAtMostOnce, UndeliveredUnclaimed, CollateralIntact

\* The deposits of a live swap are receipts of its offer.
LEMMA CollateralReceipts ==
    ASSUME IInv, NEW o \in OfferIds
    PROVE  /\ swaps[o].state \in {"wait_for_taker"} \cup ExecutionStates =>
                /\ swaps[o].maker \in Addresses
                /\ swaps[o].maker_transfer_receipt = Key(swaps[o].maker, o)
                /\ Key(swaps[o].maker, o) \in events
                /\ Claims(Key(swaps[o].maker, o)) = 0
           /\ swaps[o].state \in ExecutionStates =>
                /\ swaps[o].taker \in Addresses
                /\ swaps[o].taker # swaps[o].maker
                /\ swaps[o].taker_transfer_receipt = Key(swaps[o].taker, o)
                /\ Key(swaps[o].taker, o) \in events
                /\ Claims(Key(swaps[o].taker, o)) = 0
<1>1. swaps[o].taker_commitment_pool \subseteq Addresses
  BY DEF IInv, TypeOK, SwapCommitment
<1>2. OfferCollateral(o)
  BY DEF IInv, CollateralIntact
<1> QED BY <1>1, <1>2 DEF OfferCollateral, MakerCollateral, TakerCollateral, Key

\* The maker's deposit arrives and becomes security.
LEMMA MakerTransferSafe ==
    ASSUME IInv, TypeOK', NEW rc \in TransferReceipt, MakerTransfer(rc)
    PROVE  IInv'
<1> DEFINE o == rc.identifier
<1>1. o \in OfferIds /\ rc.initiator \in Addresses /\ rc = Key(rc.initiator, o)
  BY KeyFacts
<1>2. \A x \in TransferReceipt : Claims(x)' = Claims(x)
  BY ClaimsUnchanged DEF MakerTransfer
<1>3. rc \notin events /\ events' = events \cup {rc} /\ Claims(rc) = 0
  BY DEF MakerTransfer, DeliverOnce, IInv, UndeliveredUnclaimed
<1>4. ASSUME NEW p \in OfferIds, p # o PROVE OfferCollateral(p)'
  <2>1. swaps'[p] = swaps[p]
    BY <1>4 DEF IInv, TypeOK, MakerTransfer
  <2> QED BY <1>2, <1>3, <1>4, <2>1, KeyFacts, CollateralKept DEF IInv, CollateralIntact
<1>5. OfferCollateral(o)'
  <2>1. /\ swaps'[o].state = "wait_for_taker"
        /\ swaps'[o].maker = rc.initiator
        /\ swaps'[o].maker_transfer_receipt = rc
    BY <1>1 DEF IInv, TypeOK, MakerTransfer, SwapCommitment
  <2>2. MakerCollateral(o)'
    <3>1. Key(swaps'[o].maker, o) = rc
      BY <1>1, <2>1
    <3>2. Claims(rc)' = 0
      BY <1>2, <1>3
    <3> QED BY <1>1, <1>3, <2>1, <3>1, <3>2 DEF MakerCollateral, Key
  <2> QED BY <2>1, <2>2 DEF OfferCollateral, ExecutionStates
<1> QED BY <1>1, <1>2, <1>3, <1>4, <1>5
        DEF IInv, RefundedAtMostOnce, UndeliveredUnclaimed, CollateralIntact

\* A committed taker's deposit arrives and becomes security.  Were the taker the maker,
\* the deposit would be the one the swap already holds, which was delivered before.
LEMMA TakerTransferSafe ==
    ASSUME IInv, TypeOK', NEW rc \in TransferReceipt, TakerTransfer(rc)
    PROVE  IInv'
<1> DEFINE o == rc.identifier
<1>1. o \in OfferIds /\ rc.initiator \in Addresses /\ rc = Key(rc.initiator, o)
  BY KeyFacts
<1>2. \A x \in TransferReceipt : Claims(x)' = Claims(x)
  BY ClaimsUnchanged DEF TakerTransfer
<1>3. rc \notin events /\ events' = events \cup {rc} /\ Claims(rc) = 0
  BY DEF TakerTransfer, DeliverOnce, IInv, UndeliveredUnclaimed
<1>4. ASSUME NEW p \in OfferIds, p # o PROVE OfferCollateral(p)'
  <2>1. swaps'[p] = swaps[p]
    BY <1>4 DEF IInv, TypeOK, TakerTransfer
  <2> QED BY <1>2, <1>3, <1>4, <2>1, KeyFacts, CollateralKept DEF IInv, CollateralIntact
<1>5. OfferCollateral(o)'
  <2>1. /\ swaps'[o].state = "wait_for_execution"
        /\ swaps'[o].maker = swaps[o].maker
        /\ swaps'[o].maker_transfer_receipt = swaps[o].maker_transfer_receipt
        /\ swaps'[o].taker = rc.initiator
        /\ swaps'[o].taker_commitment_pool = swaps[o].taker_commitment_pool
        /\ swaps'[o].taker_transfer_receipt = rc
        /\ rc.initiator \in swaps[o].taker_commitment_pool
        /\ swaps[o].state = "wait_for_taker"
    BY <1>1 DEF IInv, TypeOK, TakerTransfer, SwapCommitment
  <2>2. PICK m \in Addresses : /\ m = swaps[o].maker
                               /\ swaps[o].maker_transfer_receipt = Key(m, o)
                               /\ Key(m, o) \in events
                               /\ Claims(Key(m, o)) = 0
    BY <1>1, <2>1, CollateralReceipts
  <2>3. rc.initiator # m
    BY <1>1, <1>3, <2>2
  <2>4. Claims(rc)' = 0 /\ Claims(Key(m, o))' = 0
    BY <1>1, <1>2, <1>3, <2>2, KeyFacts
  <2>5. MakerCollateral(o)'
    BY <1>3, <2>1, <2>2, <2>4 DEF MakerCollateral, Key
  <2>6. TakerCollateral(o)'
    BY <1>1, <1>3, <2>1, <2>2, <2>3, <2>4 DEF TakerCollateral, Key
  <2> QED BY <2>5, <2>6 DEF OfferCollateral
<1> QED BY <1>1, <1>2, <1>3, <1>4, <1>5
        DEF IInv, RefundedAtMostOnce, UndeliveredUnclaimed, CollateralIntact

\* A deposit that is of no use is claimed once, on its delivery.
LEMMA UnsuccessfulTransferSafe ==
    ASSUME IInv, TypeOK', NEW rc \in TransferReceipt, UnsuccessfulTransfer(rc)
    PROVE  IInv'
<1>1. /\ rc \notin events /\ events' = events \cup {rc} /\ swaps' = swaps
      /\ refund_queue' = QueueRefund(refund_queue, rc, FALSE)
      /\ UNCHANGED <<in_flight, refunded, lost>>
  BY DEF UnsuccessfulTransfer, DeliverOnce
<1>2. ASSUME NEW x \in TransferReceipt
      PROVE  Claims(x)' = IF x = rc THEN Claims(x) + 1 ELSE Claims(x)
  BY <1>1, QueueOne DEF IInv
<1>3. Claims(rc) = 0
  BY <1>1 DEF IInv, UndeliveredUnclaimed
<1>4. ASSUME NEW o \in OfferIds PROVE OfferCollateral(o)'
  <2>1. \A a \in Addresses : Key(a, o) \in events => Claims(Key(a, o))' = Claims(Key(a, o))
    BY <1>1, <1>2, KeyFacts
  <2> QED BY <1>1, <2>1, CollateralKept DEF IInv, CollateralIntact
<1>5. RefundedAtMostOnce'
  BY <1>2, <1>3 DEF IInv, RefundedAtMostOnce
<1>6. UndeliveredUnclaimed'
  BY <1>1, <1>2 DEF IInv, UndeliveredUnclaimed
<1> QED BY <1>4, <1>5, <1>6 DEF IInv, CollateralIntact

\* A deposit without a swap is only marked as delivered.
LEMMA TransferWithoutSwapSafe ==
    ASSUME IInv, TypeOK', NEW rc \in TransferReceipt, TransferWithoutSwap(rc)
    PROVE  IInv'
<1>1. events' = events \cup {rc} /\ swaps' = swaps
  BY DEF TransferWithoutSwap, DeliverOnce
<1>2. \A x \in TransferReceipt : Claims(x)' = Claims(x)
  BY ClaimsUnchanged DEF TransferWithoutSwap
<1>3. ASSUME NEW o \in OfferIds PROVE OfferCollateral(o)'
  BY <1>1, <1>2, KeyFacts, CollateralKept DEF IInv, CollateralIntact
<1> QED BY <1>1, <1>2, <1>3
        DEF IInv, RefundedAtMostOnce, UndeliveredUnclaimed, CollateralIntact

\* A taker's commitment adds to the pool, and nothing else depends on it.
LEMMA TakerCommitmentSafe ==
    ASSUME IInv, TypeOK', NEW o \in OfferIds, NEW a \in Addresses, TakerCommitment(a, o)
    PROVE  IInv'
<1>1. \A x \in TransferReceipt : Claims(x)' = Claims(x)
  BY ClaimsUnchanged DEF TakerCommitment
<1>2. events' = events
  BY DEF TakerCommitment
<1>3. ASSUME NEW p \in OfferIds, p # o PROVE OfferCollateral(p)'
  <2>1. swaps'[p] = swaps[p]
    BY <1>3 DEF IInv, TypeOK, TakerCommitment
  <2> QED BY <1>1, <1>2, <1>3, <2>1, KeyFacts, CollateralKept DEF IInv, CollateralIntact
<1>4. OfferCollateral(o)'
  <2>1. /\ swaps[o].state = "wait_for_taker" /\ swaps'[o].state = "wait_for_taker"
        /\ swaps'[o].maker = swaps[o].maker
        /\ swaps'[o].maker_transfer_receipt = swaps[o].maker_transfer_receipt
    BY DEF IInv, TypeOK, TakerCommitment, SwapCommitment
  <2>2. PICK m \in Addresses : /\ m = swaps[o].maker
                               /\ swaps[o].maker_transfer_receipt = Key(m, o)
                               /\ Key(m, o) \in events
                               /\ Claims(Key(m, o)) = 0
    BY <2>1, CollateralReceipts
  <2>3. Claims(Key(m, o))' = 0
    BY <1>1, <2>2, KeyFacts
  <2>4. MakerCollateral(o)'
    BY <1>2, <2>1, <2>2, <2>3 DEF MakerCollateral, Key
  <2> QED BY <2>1, <2>4 DEF OfferCollateral, ExecutionStates
<1> QED BY <1>1, <1>2, <1>3, <1>4
        DEF IInv, RefundedAtMostOnce, UndeliveredUnclaimed, CollateralIntact

\* The first confirmation moves the swap between execution states.
LEMMA FirstExecutionSafe ==
    ASSUME IInv, TypeOK', NEW o \in OfferIds, NEW a \in Addresses, FirstExecution(a, o)
    PROVE  IInv'
<1>1. \A x \in TransferReceipt : Claims(x)' = Claims(x)
  BY ClaimsUnchanged DEF FirstExecution
<1>2. events' = events
  BY DEF FirstExecution
<1>3. ASSUME NEW p \in OfferIds, p # o PROVE OfferCollateral(p)'
  <2>1. swaps'[p] = swaps[p]
    BY <1>3 DEF IInv, TypeOK, FirstExecution
  <2> QED BY <1>1, <1>2, <1>3, <2>1, KeyFacts, CollateralKept DEF IInv, CollateralIntact
<1>4. OfferCollateral(o)'
  <2>1. /\ swaps[o].state \in ExecutionStates
        /\ swaps'[o].maker = swaps[o].maker
        /\ swaps'[o].maker_transfer_receipt = swaps[o].maker_transfer_receipt
        /\ swaps'[o].taker = swaps[o].taker
        /\ swaps'[o].taker_transfer_receipt = swaps[o].taker_transfer_receipt
        /\ swaps'[o].taker_commitment_pool = swaps[o].taker_commitment_pool
    BY DEF IInv, TypeOK, FirstExecution, SwapCommitment, ExecutionStates
  <2>2. PICK m \in Addresses : /\ m = swaps[o].maker
                               /\ swaps[o].maker_transfer_receipt = Key(m, o)
                               /\ Key(m, o) \in events
                               /\ Claims(Key(m, o)) = 0
    BY <2>1, CollateralReceipts
  <2>3. PICK t \in Addresses : /\ t = swaps[o].taker
                               /\ t # m
                               /\ swaps[o].taker_transfer_receipt = Key(t, o)
                               /\ Key(t, o) \in events
                               /\ Claims(Key(t, o)) = 0
    BY <2>1, <2>2, CollateralReceipts
  <2>4. Claims(Key(m, o))' = 0 /\ Claims(Key(t, o))' = 0
    BY <1>1, <2>2, <2>3, KeyFacts
  <2>5. t \in swaps[o].taker_commitment_pool
    BY <2>1, <2>3 DEF IInv, CollateralIntact, OfferCollateral, TakerCollateral
  <2>6. MakerCollateral(o)'
    BY <1>2, <2>1, <2>2, <2>4 DEF MakerCollateral, Key
  <2>7. TakerCollateral(o)'
    BY <1>2, <2>1, <2>2, <2>3, <2>4, <2>5 DEF TakerCollateral, Key
  <2> QED BY <2>6, <2>7 DEF OfferCollateral
<1> QED BY <1>1, <1>2, <1>3, <1>4
        DEF IInv, RefundedAtMostOnce, UndeliveredUnclaimed, CollateralIntact

\* The second confirmation claims both deposits of a swap, and ends it.
LEMMA SecondExecutionSafe ==
    ASSUME IInv, TypeOK', NEW o \in OfferIds, NEW a \in Addresses, SecondExecution(a, o)
    PROVE  IInv'
<1>1. /\ swaps[o].state \in ExecutionStates
      /\ swaps' = [swaps EXCEPT ![o] = Absent]
      /\ events' = events
  BY DEF SecondExecution, ExecutionStates
<1>2. PICK m \in Addresses : /\ swaps[o].maker_transfer_receipt = Key(m, o)
                             /\ m = swaps[o].maker
                             /\ Key(m, o) \in events
                             /\ Claims(Key(m, o)) = 0
  BY <1>1, CollateralReceipts
<1>3. PICK t \in Addresses : /\ swaps[o].taker_transfer_receipt = Key(t, o)
                             /\ t # m
                             /\ Key(t, o) \in events
                             /\ Claims(Key(t, o)) = 0
  BY <1>1, <1>2, CollateralReceipts
<1>4. /\ Key(m, o) \in TransferReceipt /\ Key(t, o) \in TransferReceipt
      /\ Key(m, o) # Key(t, o)
  BY <1>3, KeyFacts
<1>5. /\ refund_queue' = QueueRefund(QueueRefund(refund_queue, Key(m, o), TRUE), Key(t, o), TRUE)
      /\ UNCHANGED <<in_flight, refunded, lost>>
  BY <1>2, <1>3 DEF SecondExecution
<1>6. ASSUME NEW x \in TransferReceipt
      PROVE  Claims(x)' = IF x \in {Key(m, o), Key(t, o)} THEN Claims(x) + 1 ELSE Claims(x)
  BY <1>4, <1>5, QueueTwo DEF IInv
<1>7. ASSUME NEW p \in OfferIds, p # o PROVE OfferCollateral(p)'
  <2>1. swaps'[p] = swaps[p]
    BY <1>1, <1>7 DEF IInv, TypeOK
  <2>2. \A b \in Addresses : Claims(Key(b, p))' = Claims(Key(b, p))
    BY <1>6, <1>7, KeyFacts
  <2> QED BY <1>1, <2>1, <2>2, CollateralKept DEF IInv, CollateralIntact
<1>8. OfferCollateral(o)'
  BY <1>1, NoCollateralNeeded DEF Absent, IInv, TypeOK
<1>9. RefundedAtMostOnce'
  BY <1>2, <1>3, <1>6 DEF IInv, RefundedAtMostOnce
<1>10. UndeliveredUnclaimed'
  BY <1>1, <1>2, <1>3, <1>6 DEF IInv, UndeliveredUnclaimed
<1> QED BY <1>7, <1>8, <1>9, <1>10 DEF IInv, CollateralIntact

\* An untraded offer: the timeout claims the maker's deposit and ends the swap.
LEMMA TimeoutUntradedSafe ==
    ASSUME IInv, TypeOK', NEW o \in OfferIds, TimeoutUntraded(o)
    PROVE  IInv'
<1>1. /\ swaps[o].state = "wait_for_taker"
      /\ swaps' = [swaps EXCEPT ![o] = Absent]
      /\ events' = events
  BY DEF TimeoutUntraded
<1>2. PICK m \in Addresses : /\ swaps[o].maker_transfer_receipt = Key(m, o)
                             /\ Key(m, o) \in events
                             /\ Claims(Key(m, o)) = 0
  BY <1>1, CollateralReceipts
<1>3. Key(m, o) \in TransferReceipt
  BY KeyFacts
<1>4. /\ refund_queue' = QueueRefund(refund_queue, Key(m, o), FALSE)
      /\ UNCHANGED <<in_flight, refunded, lost>>
  BY <1>2 DEF TimeoutUntraded
<1>5. ASSUME NEW x \in TransferReceipt
      PROVE  Claims(x)' = IF x = Key(m, o) THEN Claims(x) + 1 ELSE Claims(x)
  BY <1>3, <1>4, QueueOne DEF IInv
<1>6. ASSUME NEW p \in OfferIds, p # o PROVE OfferCollateral(p)'
  <2>1. swaps'[p] = swaps[p]
    BY <1>1, <1>6 DEF IInv, TypeOK
  <2>2. \A b \in Addresses : Claims(Key(b, p))' = Claims(Key(b, p))
    BY <1>5, <1>6, KeyFacts
  <2> QED BY <1>1, <2>1, <2>2, CollateralKept DEF IInv, CollateralIntact
<1>7. OfferCollateral(o)'
  BY <1>1, NoCollateralNeeded DEF Absent, IInv, TypeOK
<1>8. RefundedAtMostOnce'
  BY <1>2, <1>5 DEF IInv, RefundedAtMostOnce
<1>9. UndeliveredUnclaimed'
  BY <1>1, <1>2, <1>5 DEF IInv, UndeliveredUnclaimed
<1> QED BY <1>6, <1>7, <1>8, <1>9 DEF IInv, CollateralIntact

\* The invariant holds at the start: nothing is claimed and no swap is open.
LEMMA InvInit == Init => IInv
<1> SUFFICES ASSUME Init PROVE IInv
    OBVIOUS
<1>1. TypeOK
  BY TypeInit
<1>2. \A rc \in TransferReceipt : Claims(rc) = 0
  BY ClaimsType, <1>1 DEF Init, Claims, RefundsOf
<1>3. CollateralIntact
  BY DEF Init, CollateralIntact, OfferCollateral, Absent, ExecutionStates
<1> QED BY <1>1, <1>2, <1>3 DEF IInv, RefundedAtMostOnce, UndeliveredUnclaimed

\* Every step of every task keeps the invariant.
LEMMA InvStep == IInv /\ [Next]_vars => IInv'
<1> SUFFICES ASSUME IInv, [Next]_vars PROVE IInv'
    OBVIOUS
<1>0. TypeOK'
  BY TypeStep DEF IInv
<1>1. ASSUME NEW rc \in TransferReceipt, NEW amount \in Amounts, Pay(rc, amount)
      PROVE  IInv'
  BY <1>0, <1>1, ClaimsUnchanged, QuietStep DEF Pay
<1>2. ASSUME NEW o \in OfferIds, NEW a \in Addresses, MakerCommitment(a, o)
      PROVE  IInv'
  <2> DEFINE s == [Absent EXCEPT !.state = "wait_for_maker", !.maker = a]
  <2>1. s \in SwapCommitment /\ s.state = "wait_for_maker"
    BY DEF Absent, SwapCommitment, LiveStates
  <2>2. swaps' = [swaps EXCEPT ![o] = s] /\ events' = events /\ UNCHANGED refunds
    BY <1>2 DEF MakerCommitment
  <2> HIDE DEF s
  <2> QED BY <1>0, <2>1, <2>2, ClaimsUnchanged, OpenOrEnd
<1>3. ASSUME NEW o \in OfferIds, UnexpectedCommitment(o) PROVE IInv'
  BY <1>0, <1>3, ClaimsUnchanged, QuietStep DEF UnexpectedCommitment
<1>4. CASE PollRaises
  BY <1>0, <1>4, ClaimsUnchanged, QuietStep DEF PollRaises
<1>5. ASSUME NEW o \in OfferIds, UnexpectedExecution(o) PROVE IInv'
  BY <1>0, <1>5, ClaimsUnchanged, QuietStep DEF UnexpectedExecution
<1>6. ASSUME NEW o \in OfferIds, NEW a \in Addresses, UnreadExecution(a, o) PROVE IInv'
  BY <1>0, <1>6, ClaimsUnchanged, QuietStep DEF UnreadExecution
<1>7. ASSUME NEW o \in OfferIds, TimeoutUncommitted(o) \/ TimeoutFailed(o) PROVE IInv'
  <2>1. swaps' = [swaps EXCEPT ![o] = Absent] /\ events' = events /\ UNCHANGED refunds
    BY <1>7 DEF TimeoutUncommitted, TimeoutFailed
  <2>2. Absent.state = "absent"
    BY DEF Absent
  <2> QED BY <1>0, <2>1, <2>2, AbsentType, ClaimsUnchanged, OpenOrEnd
<1>8. ASSUME NEW r \in Refund,
             StartRefund(r) \/ RefundSucceeds(r) \/ RefundFails(r) \/ RefundRaises(r)
      PROVE  IInv'
  <2>1. swaps' = swaps /\ events' = events
    BY <1>8 DEF StartRefund, RefundSucceeds, RefundFails, RefundRaises
  <2>2. \A rc \in TransferReceipt : Claims(rc)' = Claims(rc)
    BY <1>8, RefundMoves DEF IInv
  <2> QED BY <1>0, <2>1, <2>2, QuietStep
<1>9. CASE SendMessage \/ SendRaises
  BY <1>0, <1>9, ClaimsUnchanged, QuietStep DEF SendMessage, SendRaises
<1>10. CASE UNCHANGED vars
  <2>1. swaps' = swaps /\ events' = events /\ UNCHANGED refunds
    BY <1>10 DEF vars, refunds
  <2> QED BY <1>0, <2>1, ClaimsUnchanged, QuietStep
<1> QED
  BY <1>0, <1>1, <1>2, <1>3, <1>4, <1>5, <1>6, <1>7, <1>8, <1>9, <1>10,
     TakerCommitmentSafe, MakerTransferSafe, TakerTransferSafe, UnsuccessfulTransferSafe,
     TransferWithoutSwapSafe, FirstExecutionSafe, SecondExecutionSafe, TimeoutUntradedSafe
  DEF Next, CommitmentTask, TransferReceivedTask, SwapExecutionTask, RefundTask,
      MessageSenderTask, Timeout, IgnoredExecution, IgnoredCancellation

\* The inductive invariant holds in every behaviour of the service.
THEOREM Invariant == Spec => []IInv
BY InvInit, InvStep, PTL DEF Spec

\* No deposit is ever refunded twice, whatever the order of polls, retries, timers,
\* cancellations and confirmations, and whichever tasks have ended.
THEOREM AtMostOnce == Spec => []RefundedAtMostOnce
BY Invariant, PTL DEF IInv

\* Every swap is backed: one deposit while it waits for a taker, two of two different
\* parties while it waits for its execution, and none of them is being paid back.
THEOREM Backed == Spec => []CollateralIntact
BY Invariant, PTL DEF IInv

-----------------------------------------------------------------------------
(* ProofBacked: the messages a step puts on the queue. *)

\* A step that adds nothing to the queue of messages queues nothing.
LEMMA QueuedNothing ==
    ASSUME TypeOK, \/ message_queue' = message_queue
                   \/ message_queue # <<>> /\ message_queue' = Tail(message_queue),
           NEW m, Queued(m)
    PROVE  FALSE
BY DEF TypeOK, Queued

\* A step that appends one message queues only that one.
LEMMA QueuedOne ==
    ASSUME TypeOK, NEW x \in Message, message_queue' = Append(message_queue, x),
           NEW m, Queued(m)
    PROVE  m = x
BY DEF TypeOK, Queued

\* A step that appends two messages queues only those two.
LEMMA QueuedTwo ==
    ASSUME TypeOK, NEW x \in Message, NEW y \in Message,
           message_queue' = message_queue \o <<x, y>>,
           NEW m, Queued(m)
    PROVE  m \in {x, y}
BY DEF TypeOK, Queued

\* What a step may queue without giving a word about a deposit.
LEMMA OtherMessageQueued ==
    ASSUME TypeOK, NEW x \in Message, x.type \in {"SwapCompleted", "CancellationProof"},
           message_queue' = Append(message_queue, x)
    PROVE  ProofStep
<1>1. \A o, a : x # CommitmentProof(o, a) /\ x # OfferTaken(o)
  BY DEF CommitmentProof, OfferTaken
<1> QED BY <1>1, QueuedOne DEF ProofStep

\* A step that queues nothing breaks no promise.
LEMMA NothingQueued ==
    ASSUME TypeOK, \/ message_queue' = message_queue
                   \/ message_queue # <<>> /\ message_queue' = Tail(message_queue)
    PROVE  ProofStep
BY QueuedNothing DEF ProofStep

\* The maker's deposit arrives: the proof goes to the maker, whose deposit is held now.
LEMMA MakerTransferProves ==
    ASSUME TypeOK, NEW rc \in TransferReceipt, MakerTransfer(rc)
    PROVE  ProofStep
<1> DEFINE o == rc.identifier
<1>1. o \in OfferIds /\ rc = Key(rc.initiator, o) /\ rc.initiator = swaps[o].maker
  BY KeyFacts DEF MakerTransfer
<1>2. CommitmentProof(o, swaps[o].maker) \in Message
  BY <1>1 DEF CommitmentProof, Message, MessageTypes, TypeOK, SwapCommitment
<1>3. message_queue' = Append(message_queue, CommitmentProof(o, swaps[o].maker))
  BY DEF MakerTransfer
<1>4. swaps'[o].maker_transfer_receipt = rc
  BY <1>1 DEF MakerTransfer, TypeOK, SwapCommitment
<1>5. ASSUME NEW p \in OfferIds, NEW a \in Addresses, Queued(CommitmentProof(p, a))
      PROVE  Held([initiator |-> a, identifier |-> p])'
  <2>1. CommitmentProof(p, a) = CommitmentProof(o, swaps[o].maker)
    BY <1>2, <1>3, <1>5, QueuedOne
  <2>2. p = o /\ a = swaps[o].maker
    BY <2>1 DEF CommitmentProof
  <2>3. [initiator |-> a, identifier |-> p] = rc
    BY <1>1, <2>2 DEF Key
  <2> QED BY <1>4, <2>2, <2>3 DEF Held
<1>6. ASSUME NEW p \in OfferIds, Queued(OfferTaken(p)) PROVE FALSE
  <2>1. OfferTaken(p) = CommitmentProof(o, swaps[o].maker)
    BY <1>2, <1>3, <1>6, QueuedOne
  <2> QED BY <2>1 DEF OfferTaken, CommitmentProof
<1> QED BY <1>5, <1>6 DEF ProofStep

\* The taker's deposit arrives: the proof goes to the taker, whose deposit is held now,
\* and the offer is announced as taken with both deposits behind it.
LEMMA TakerTransferProves ==
    ASSUME IInv, IInv', NEW rc \in TransferReceipt, TakerTransfer(rc)
    PROVE  ProofStep
<1> DEFINE o == rc.identifier
<1>1. o \in OfferIds /\ rc.initiator \in Addresses /\ rc = Key(rc.initiator, o)
  BY KeyFacts
<1>2. OfferTaken(o) \in Message /\ CommitmentProof(o, rc.initiator) \in Message
  BY <1>1 DEF OfferTaken, CommitmentProof, Message, MessageTypes
<1>3. message_queue' = message_queue \o <<OfferTaken(o), CommitmentProof(o, rc.initiator)>>
  BY DEF TakerTransfer
<1>4. swaps'[o].taker_transfer_receipt = rc /\ swaps'[o].state = "wait_for_execution"
  BY <1>1 DEF TakerTransfer, IInv, TypeOK, SwapCommitment
<1>5. ASSUME NEW p \in OfferIds, NEW a \in Addresses, Queued(CommitmentProof(p, a))
      PROVE  Held([initiator |-> a, identifier |-> p])'
  <2>1. CommitmentProof(p, a) \in {OfferTaken(o), CommitmentProof(o, rc.initiator)}
    BY <1>2, <1>3, <1>5, QueuedTwo DEF IInv
  <2>2. p = o /\ a = rc.initiator
    BY <2>1 DEF CommitmentProof, OfferTaken
  <2>3. [initiator |-> a, identifier |-> p] = rc
    BY <1>1, <2>2 DEF Key
  <2> QED BY <1>4, <2>2, <2>3 DEF Held
<1>6. ASSUME NEW p \in OfferIds, Queued(OfferTaken(p))
      PROVE  MakerCollateral(p)' /\ TakerCollateral(p)'
  <2>1. OfferTaken(p) \in {OfferTaken(o), CommitmentProof(o, rc.initiator)}
    BY <1>2, <1>3, <1>6, QueuedTwo DEF IInv
  <2>2. p = o
    BY <2>1 DEF CommitmentProof, OfferTaken
  <2>3. OfferCollateral(o)'
    BY <1>1 DEF IInv, CollateralIntact
  <2> QED BY <1>4, <2>2, <2>3 DEF OfferCollateral, ExecutionStates
<1> QED BY <1>5, <1>6 DEF ProofStep

\* Every step of every task keeps the promise of the proofs it queues.
LEMMA ProofStepHolds == IInv /\ IInv' /\ [Next]_vars => [ProofStep]_vars
<1> SUFFICES ASSUME IInv, IInv', Next PROVE ProofStep
    OBVIOUS
<1>0. TypeOK
  BY DEF IInv
<1>1. ASSUME NEW o \in OfferIds, NEW a \in Addresses, SecondExecution(a, o)
      PROVE  ProofStep
  <2>1. SwapCompleted(o) \in Message /\ SwapCompleted(o).type = "SwapCompleted"
    BY DEF SwapCompleted, Message, MessageTypes
  <2> QED BY <1>0, <1>1, <2>1, OtherMessageQueued DEF SecondExecution
<1>2. ASSUME NEW o \in OfferIds, TimeoutUntraded(o) PROVE ProofStep
  <2>1. /\ CancellationProof(o, swaps[o].maker) \in Message
        /\ CancellationProof(o, swaps[o].maker).type = "CancellationProof"
    BY <1>0 DEF CancellationProof, Message, MessageTypes, TypeOK, SwapCommitment
  <2> QED BY <1>0, <1>2, <2>1, OtherMessageQueued DEF TimeoutUntraded
<1>3. CASE SendMessage \/ SendRaises
  BY <1>0, <1>3, NothingQueued DEF SendMessage, SendRaises
<1>4. CASE message_queue' = message_queue
  BY <1>0, <1>4, NothingQueued
<1>5. \/ message_queue' = message_queue
      \/ SendMessage \/ SendRaises
      \/ \E o \in OfferIds, a \in Addresses : SecondExecution(a, o)
      \/ \E o \in OfferIds : TimeoutUntraded(o)
      \/ \E rc \in TransferReceipt : MakerTransfer(rc) \/ TakerTransfer(rc)
  BY DEF Next, CommitmentTask, TransferReceivedTask, SwapExecutionTask, RefundTask,
         MessageSenderTask, Timeout, IgnoredExecution, IgnoredCancellation, vars,
         Pay, MakerCommitment, TakerCommitment, UnexpectedCommitment,
         UnsuccessfulTransfer, TransferWithoutSwap, PollRaises, FirstExecution,
         UnreadExecution, UnexpectedExecution, TimeoutUncommitted, TimeoutFailed,
         StartRefund, RefundSucceeds, RefundFails, RefundRaises
<1> QED BY <1>0, <1>1, <1>2, <1>3, <1>4, <1>5, MakerTransferProves, TakerTransferProves

\* A CommitmentProof is queued only for a party whose deposit the service then holds,
\* OfferTaken only for a swap that both deposits back.
THEOREM ProofsBacked == Spec => ProofBacked
BY Invariant, ProofStepHolds, PTL DEF Spec, ProofBacked

-----------------------------------------------------------------------------
(* The refinement of DepositEscrow: the strengthened invariant.            *)

\* A swap has no receipt of a party whose deposit it still waits for.
OfferReceipts(s) ==
    /\ s.state \in {"absent", "wait_for_maker"} => s.maker_transfer_receipt = None
    /\ s.state \in {"absent", "wait_for_maker", "wait_for_taker"} => s.taker_transfer_receipt = None
NoEarlyReceipt == \A o \in OfferIds : OfferReceipts(swaps[o])

RInv == IInv /\ NoEarlyReceipt

\* A step that leaves the receipts of all swaps consistent with their states.
LEMMA ReceiptsStep == TypeOK /\ NoEarlyReceipt /\ [Next]_vars => NoEarlyReceipt'
<1> SUFFICES ASSUME TypeOK, NoEarlyReceipt, [Next]_vars, NEW p \in OfferIds
             PROVE  OfferReceipts(swaps'[p])
    BY DEF NoEarlyReceipt
<1> USE DEF TypeOK
<1>0. OfferReceipts(swaps[p]) /\ swaps[p] \in SwapCommitment
  BY DEF NoEarlyReceipt
<1>1. ASSUME NEW o \in OfferIds, NEW a \in Addresses, MakerCommitment(a, o)
      PROVE  OfferReceipts(swaps'[p])
  BY <1>0, <1>1 DEF MakerCommitment, OfferReceipts, Absent
<1>2. ASSUME NEW o \in OfferIds, NEW a \in Addresses, TakerCommitment(a, o)
      PROVE  OfferReceipts(swaps'[p])
  BY <1>0, <1>2 DEF TakerCommitment, OfferReceipts, SwapCommitment
<1>3. ASSUME NEW rc \in TransferReceipt, MakerTransfer(rc) PROVE OfferReceipts(swaps'[p])
  <2>1. rc.identifier \in OfferIds
    BY DEF TransferReceipt
  <2> QED BY <1>0, <1>3, <2>1 DEF MakerTransfer, OfferReceipts, SwapCommitment
<1>4. ASSUME NEW rc \in TransferReceipt, TakerTransfer(rc) PROVE OfferReceipts(swaps'[p])
  <2>1. rc.identifier \in OfferIds
    BY DEF TransferReceipt
  <2> QED BY <1>0, <1>4, <2>1 DEF TakerTransfer, OfferReceipts, SwapCommitment
<1>5. ASSUME NEW o \in OfferIds, NEW a \in Addresses, FirstExecution(a, o)
      PROVE  OfferReceipts(swaps'[p])
  BY <1>0, <1>5 DEF FirstExecution, OfferReceipts, SwapCommitment
<1>6. ASSUME NEW o \in OfferIds, swaps' = [swaps EXCEPT ![o] = Absent]
      PROVE  OfferReceipts(swaps'[p])
  BY <1>0, <1>6 DEF OfferReceipts, Absent
<1>7. CASE swaps' = swaps
  BY <1>0, <1>7
<1>8. \/ swaps' = swaps
      \/ \E o \in OfferIds : swaps' = [swaps EXCEPT ![o] = Absent]
      \/ \E o \in OfferIds, a \in Addresses :
           MakerCommitment(a, o) \/ TakerCommitment(a, o) \/ FirstExecution(a, o)
      \/ \E rc \in TransferReceipt : MakerTransfer(rc) \/ TakerTransfer(rc)
  BY DEF Next, CommitmentTask, TransferReceivedTask, SwapExecutionTask, RefundTask,
         MessageSenderTask, Timeout, IgnoredExecution, IgnoredCancellation, vars,
         Pay, UnexpectedCommitment, UnsuccessfulTransfer, TransferWithoutSwap,
         PollRaises, SecondExecution, UnreadExecution, UnexpectedExecution,
         TimeoutUncommitted, TimeoutUntraded, TimeoutFailed,
         StartRefund, RefundSucceeds, RefundFails, RefundRaises, SendMessage, SendRaises
<1> QED BY <1>1, <1>2, <1>3, <1>4, <1>5, <1>6, <1>7, <1>8

\* There is no receipt at the start.
LEMMA ReceiptsInit == Init => NoEarlyReceipt
<1>1. OfferReceipts(Absent)
  BY DEF OfferReceipts, Absent
<1>2. Init => swaps = [o \in OfferIds |-> Absent]
  BY DEF Init
<1> QED BY <1>1, <1>2, Zenon DEF NoEarlyReceipt

\* The strengthened invariant holds in every behaviour of the service.
THEOREM RefinementInvariant == Spec => []RInv
<1>1. IInv /\ NoEarlyReceipt /\ [Next]_vars => NoEarlyReceipt'
  BY ReceiptsStep DEF IInv
<1> QED BY <1>1, ReceiptsInit, Invariant, PTL DEF Spec, RInv

-----------------------------------------------------------------------------
(* The refinement mapping. *)

\* How a deposit that is held entered the service, and that nothing of it is due.
LEMMA HeldFacts ==
    ASSUME RInv, NEW rc \in TransferReceipt, Held(rc)
    PROVE  /\ rc \in events /\ Claims(rc) = 0
           /\ LET s == swaps[rc.identifier] IN
                \/ /\ s.state \in {"wait_for_taker"} \cup ExecutionStates
                   /\ rc = s.maker_transfer_receipt
                \/ s.state \in ExecutionStates /\ rc = s.taker_transfer_receipt
<1> DEFINE o == rc.identifier
<1>1. o \in OfferIds /\ rc # None
  BY KeyFacts, NoneAssumption
<1>2. OfferReceipts(swaps[o]) /\ swaps[o].state \in LiveStates \cup {"absent"}
  BY <1>1 DEF RInv, NoEarlyReceipt, IInv, TypeOK, SwapCommitment
<1>3. CASE rc = swaps[o].maker_transfer_receipt
  <2>1. swaps[o].state \in {"wait_for_taker"} \cup ExecutionStates
    BY <1>1, <1>2, <1>3 DEF OfferReceipts, LiveStates
  <2> QED BY <1>1, <1>3, <2>1, CollateralReceipts DEF RInv
<1>4. CASE rc = swaps[o].taker_transfer_receipt
  <2>1. swaps[o].state \in ExecutionStates
    BY <1>1, <1>2, <1>4 DEF OfferReceipts, LiveStates
  <2> QED BY <1>1, <1>4, <2>1, CollateralReceipts DEF RInv
<1> QED BY <1>3, <1>4 DEF Held

\* A deposit that no refund claims and that no swap holds was kept.
LEMMA UnclaimedIsKept ==
    ASSUME TypeOK, NEW rc \in TransferReceipt, Claims(rc) = 0
    PROVE  Settled(rc) = "kept"
<1>1. Full(rc) \in Refund /\ LessFee(rc) \in Refund
  BY ClaimsType
<1>2. RefundsOf(Full(rc)) = 0 /\ RefundsOf(LessFee(rc)) = 0
  BY <1>1, ClaimsType DEF Claims
<1>3. ASSUME NEW r \in Refund, RefundsOf(r) = 0 PROVE ~ Due(r) /\ ~ (refunded[r] > 0)
  BY <1>3 DEF TypeOK, RefundsOf, Due
<1> QED BY <1>1, <1>2, <1>3 DEF Settled

\* A step that changes no claim to a deposit and not what its swap holds.
LEMMA FateKept ==
    ASSUME NEW rc \in TransferReceipt, rc \in events' <=> rc \in events,
           Held(rc)' <=> Held(rc), Settled(rc)' = Settled(rc)
    PROVE  FateOf(rc)' = FateOf(rc)
BY DEF FateOf

\* A step that leaves the counts of refunds alone settles nothing.
LEMMA SettledKept ==
    ASSUME UNCHANGED refunds, NEW rc
    PROVE  Settled(rc)' = Settled(rc)
BY DEF refunds, Settled, Due

\* The deposits that secure an offer in the abstract specification are those held.
LEMMA SecuringIsHeld ==
    ASSUME RInv, NEW o \in OfferIds
    PROVE  Escrow!Securing(o) = {x \in TransferReceipt : x.identifier = o /\ Held(x)}
<1>1. ASSUME NEW x \in TransferReceipt PROVE FateOf(x) = "security" <=> Held(x)
  BY HeldFacts DEF FateOf, Settled
<1> QED BY <1>1 DEF Escrow!Securing

\* A step of the abstract specification, read receipt by receipt.
LEMMA BecomeIntro ==
    ASSUME NEW S, NEW f,
           \A x \in TransferReceipt : FateOf(x)' = IF x \in S THEN f ELSE FateOf(x)
    PROVE  Escrow!Become(S, f)
BY DEF Escrow!Become

\* No fate changes.
LEMMA StutterIntro ==
    ASSUME \A x \in TransferReceipt : FateOf(x)' = FateOf(x)
    PROVE  [rc \in TransferReceipt |-> FateOf(rc)]' = [rc \in TransferReceipt |-> FateOf(rc)]
OBVIOUS

-----------------------------------------------------------------------------
(* One lemma per kind of step. *)

\* Nothing is delivered, no swap gains or loses a receipt, no refund is queued.
LEMMA NoDepositMoves ==
    ASSUME TypeOK, events' = events, UNCHANGED refunds,
           \A x \in TransferReceipt : Held(x)' <=> Held(x)
    PROVE  \A x \in TransferReceipt : FateOf(x)' = FateOf(x)
BY FateKept, SettledKept

\* The first deposit of an offer is accepted, with none before it.
LEMMA MakerTransferAccepts ==
    ASSUME RInv, NEW rc \in TransferReceipt, MakerTransfer(rc)
    PROVE  Escrow!Accept(rc)
<1> DEFINE o == rc.identifier
<1>0. TypeOK /\ o \in OfferIds /\ rc # None
  BY KeyFacts, NoneAssumption DEF RInv, IInv
<1>1. rc \notin events /\ events' = events \cup {rc} /\ swaps[o].state = "wait_for_maker"
  BY DEF MakerTransfer, DeliverOnce
<1>2. /\ swaps[o].maker_transfer_receipt = None /\ swaps[o].taker_transfer_receipt = None
      /\ swaps'[o].maker_transfer_receipt = rc /\ swaps'[o].taker_transfer_receipt = None
      /\ \A p \in OfferIds : p # o => swaps'[p] = swaps[p]
  BY <1>0, <1>1 DEF RInv, NoEarlyReceipt, OfferReceipts, MakerTransfer, TypeOK, SwapCommitment
<1>3. ASSUME NEW x \in TransferReceipt, x # rc PROVE FateOf(x)' = FateOf(x)
  <2>1. x.identifier \in OfferIds /\ x # None
    BY KeyFacts, NoneAssumption
  <2>2. Held(x)' <=> Held(x)
    BY <1>2, <1>3, <2>1 DEF Held
  <2>3. Settled(x)' = Settled(x)
    BY SettledKept DEF MakerTransfer
  <2> QED BY <1>1, <1>3, <2>2, <2>3, FateKept
<1>4. FateOf(rc) = "outside" /\ FateOf(rc)' = "security"
  BY <1>1, <1>2 DEF FateOf, Held
<1>5. Escrow!Become({rc}, "security")
  BY <1>3, <1>4, BecomeIntro
<1>6. Escrow!Securing(o) = {}
  <2>1. ASSUME NEW x \in TransferReceipt, x.identifier = o PROVE ~ Held(x)
    BY <1>2, <2>1, NoneAssumption DEF Held
  <2> QED BY <1>0, <2>1, SecuringIsHeld
<1> QED BY <1>4, <1>5, <1>6 DEF Escrow!Accept

\* The second deposit is accepted beside the maker's.
LEMMA TakerTransferAccepts ==
    ASSUME RInv, NEW rc \in TransferReceipt, TakerTransfer(rc)
    PROVE  Escrow!Accept(rc)
<1> DEFINE o == rc.identifier
<1>0. TypeOK /\ o \in OfferIds /\ rc # None
  BY KeyFacts, NoneAssumption DEF RInv, IInv
<1>1. rc \notin events /\ events' = events \cup {rc} /\ swaps[o].state = "wait_for_taker"
  BY DEF TakerTransfer, DeliverOnce
<1>2. /\ swaps[o].taker_transfer_receipt = None /\ swaps'[o].taker_transfer_receipt = rc
      /\ swaps'[o].maker_transfer_receipt = swaps[o].maker_transfer_receipt
      /\ \A p \in OfferIds : p # o => swaps'[p] = swaps[p]
  BY <1>0, <1>1 DEF RInv, NoEarlyReceipt, OfferReceipts, TakerTransfer, TypeOK, SwapCommitment
<1>3. ASSUME NEW x \in TransferReceipt, x # rc PROVE FateOf(x)' = FateOf(x)
  <2>1. x.identifier \in OfferIds /\ x # None
    BY KeyFacts, NoneAssumption
  <2>2. Held(x)' <=> Held(x)
    BY <1>2, <1>3, <2>1 DEF Held
  <2>3. Settled(x)' = Settled(x)
    BY SettledKept DEF TakerTransfer
  <2> QED BY <1>1, <1>3, <2>2, <2>3, FateKept
<1>4. FateOf(rc) = "outside" /\ FateOf(rc)' = "security"
  BY <1>1, <1>2 DEF FateOf, Held
<1>5. Escrow!Become({rc}, "security")
  BY <1>3, <1>4, BecomeIntro
<1>6. Escrow!Securing(o) \subseteq {swaps[o].maker_transfer_receipt}
  <2>1. ASSUME NEW x \in TransferReceipt, x.identifier = o, Held(x)
        PROVE  x = swaps[o].maker_transfer_receipt
    BY <1>2, <2>1, NoneAssumption DEF Held
  <2> QED BY <1>0, <2>1, SecuringIsHeld
<1> QED BY <1>4, <1>5, <1>6 DEF Escrow!Accept

\* A deposit of no use is refused: it is owed in full from its delivery on.
LEMMA UnsuccessfulTransferRefuses ==
    ASSUME RInv, NEW rc \in TransferReceipt, UnsuccessfulTransfer(rc)
    PROVE  Escrow!Refuse(rc)
<1>0. TypeOK /\ Full(rc) \in Refund
  BY ClaimsType DEF RInv, IInv
<1>1. /\ rc \notin events /\ events' = events \cup {rc} /\ swaps' = swaps
      /\ refund_queue' = [refund_queue EXCEPT ![Full(rc)] = @ + 1]
      /\ in_flight' = in_flight /\ refunded' = refunded
  BY DEF UnsuccessfulTransfer, DeliverOnce, QueueRefund, Full
<1>2. \A x \in TransferReceipt : Held(x)' <=> Held(x)
  BY <1>1 DEF Held
<1>3. ASSUME NEW x \in TransferReceipt, x # rc PROVE FateOf(x)' = FateOf(x)
  <2>1. /\ Full(x) \in Refund /\ LessFee(x) \in Refund
        /\ Full(x) # Full(rc) /\ LessFee(x) # Full(rc)
    BY <1>0, <1>3, ClaimsType DEF Full, LessFee
  <2>2. Settled(x)' = Settled(x)
    <3>1. refund_queue'[Full(x)] = refund_queue[Full(x)]
      BY <1>0, <1>1, <2>1 DEF TypeOK
    <3>2. refund_queue'[LessFee(x)] = refund_queue[LessFee(x)]
      BY <1>0, <1>1, <2>1 DEF TypeOK
    <3> QED BY <1>1, <3>1, <3>2 DEF Settled, Due, Full, LessFee
  <2> QED BY <1>1, <1>2, <1>3, <2>2, FateKept
<1>4. FateOf(rc) = "outside"
  BY <1>1 DEF FateOf
<1>5. FateOf(rc)' = "owed"
  <2>1. ~ Held(rc)'
    BY <1>1, <1>2, HeldFacts
  <2>2. Due(Full(rc))'
    <3>1. refund_queue'[Full(rc)] = refund_queue[Full(rc)] + 1
      BY <1>0, <1>1 DEF TypeOK
    <3>2. refund_queue[Full(rc)] \in Nat /\ in_flight[Full(rc)] \in Nat
      BY <1>0 DEF TypeOK
    <3>3. refund_queue'[Full(rc)] + in_flight'[Full(rc)] > 0
      BY <1>1, <3>1, <3>2
    <3> QED BY <3>3 DEF Due, Full
  <2>3. Settled(rc)' = "owed"
    BY <2>2 DEF Settled, Full
  <2> QED BY <1>1, <2>1, <2>3 DEF FateOf
<1>6. Escrow!Become({rc}, "owed")
  BY <1>3, <1>5, BecomeIntro
<1> QED BY <1>4, <1>6 DEF Escrow!Refuse

\* A deposit without a swap is ignored: nobody ever pays it back.
LEMMA TransferWithoutSwapIgnores ==
    ASSUME RInv, NEW rc \in TransferReceipt, TransferWithoutSwap(rc)
    PROVE  Escrow!Ignore(rc)
<1>0. TypeOK /\ Claims(rc) = 0
  BY DEF RInv, IInv, UndeliveredUnclaimed, TransferWithoutSwap, DeliverOnce
<1>1. rc \notin events /\ events' = events \cup {rc} /\ swaps' = swaps /\ UNCHANGED refunds
  BY DEF TransferWithoutSwap, DeliverOnce
<1>2. \A x \in TransferReceipt : (Held(x)' <=> Held(x)) /\ Settled(x)' = Settled(x)
  BY <1>1, SettledKept DEF Held
<1>3. ASSUME NEW x \in TransferReceipt, x # rc PROVE FateOf(x)' = FateOf(x)
  BY <1>1, <1>2, <1>3, FateKept
<1>4. FateOf(rc) = "outside"
  BY <1>1 DEF FateOf
<1>5. FateOf(rc)' = "kept"
  <2>1. ~ Held(rc)' /\ Settled(rc)' = "kept"
    BY <1>0, <1>1, <1>2, HeldFacts, UnclaimedIsKept
  <2> QED BY <1>1, <2>1 DEF FateOf
<1>6. Escrow!Become({rc}, "kept")
  BY <1>3, <1>5, BecomeIntro
<1> QED BY <1>4, <1>6 DEF Escrow!Ignore

\* An offer that nobody took: its only deposit is released and owed in full.
LEMMA TimeoutUntradedReleases ==
    ASSUME RInv, NEW o \in OfferIds, TimeoutUntraded(o)
    PROVE  \E rc \in TransferReceipt : Escrow!Release(rc)
<1>0. TypeOK /\ IInv
  BY DEF RInv, IInv
<1>1. /\ swaps[o].state = "wait_for_taker" /\ swaps' = [swaps EXCEPT ![o] = Absent]
      /\ events' = events
  BY DEF TimeoutUntraded
<1>2. PICK rc \in TransferReceipt :
           rc.identifier = o /\ rc \in events /\ swaps[o].maker_transfer_receipt = rc
  <2> DEFINE k == Key(swaps[o].maker, o)
  <2>1. k \in TransferReceipt /\ k \in events /\ swaps[o].maker_transfer_receipt = k
    BY <1>0, <1>1, CollateralReceipts, KeyFacts
  <2>2. k.identifier = o
    BY DEF Key
  <2> QED BY <2>1, <2>2
<1>3. swaps[o].taker_transfer_receipt = None
  BY <1>1 DEF RInv, NoEarlyReceipt, OfferReceipts
<1>4. /\ refund_queue' = [refund_queue EXCEPT ![Full(rc)] = @ + 1]
      /\ in_flight' = in_flight /\ refunded' = refunded
  BY <1>2 DEF TimeoutUntraded, QueueRefund, Full
<1>5. Escrow!Securing(o) = {rc}
  <2>1. ASSUME NEW x \in TransferReceipt PROVE x.identifier = o /\ Held(x) <=> x = rc
    BY <1>2, <1>3, NoneAssumption DEF Held
  <2> QED BY <1>2, <2>1, SecuringIsHeld
<1>6. /\ \A p \in OfferIds : p # o => swaps'[p] = swaps[p]
      /\ swaps'[o].maker_transfer_receipt = None /\ swaps'[o].taker_transfer_receipt = None
  BY <1>0, <1>1 DEF TypeOK, Absent
<1>7. ASSUME NEW x \in TransferReceipt, x # rc PROVE FateOf(x)' = FateOf(x)
  <2>1. /\ Full(x) \in Refund /\ LessFee(x) \in Refund
        /\ Full(x) # Full(rc) /\ LessFee(x) # Full(rc)
    BY <1>0, <1>7, ClaimsType DEF Full, LessFee
  <2>2. Settled(x)' = Settled(x)
    <3>1. refund_queue'[Full(x)] = refund_queue[Full(x)]
      BY <1>0, <1>4, <2>1 DEF TypeOK
    <3>2. refund_queue'[LessFee(x)] = refund_queue[LessFee(x)]
      BY <1>0, <1>4, <2>1 DEF TypeOK
    <3> QED BY <1>4, <3>1, <3>2 DEF Settled, Due, Full, LessFee
  <2>3. x.identifier \in OfferIds
    BY KeyFacts
  <2>4. Held(x)' <=> Held(x)
    BY <1>2, <1>3, <1>6, <1>7, <2>3, NoneAssumption DEF Held
  <2> QED BY <1>1, <2>2, <2>4, FateKept
<1>8. FateOf(rc)' = "owed"
  <2>1. ~ Held(rc)'
    BY <1>2, <1>6, NoneAssumption DEF Held
  <2>2. Due(Full(rc))'
    <3>0. Full(rc) \in Refund
      BY <1>0, <1>2, ClaimsType
    <3>1. refund_queue'[Full(rc)] = refund_queue[Full(rc)] + 1
      BY <1>0, <1>4, <3>0 DEF TypeOK
    <3>2. refund_queue[Full(rc)] \in Nat /\ in_flight[Full(rc)] \in Nat
      BY <1>0, <3>0 DEF TypeOK
    <3>3. refund_queue'[Full(rc)] + in_flight'[Full(rc)] > 0
      BY <1>4, <3>1, <3>2
    <3> QED BY <3>3, <1>2 DEF Due, Full
  <2> QED BY <1>1, <1>2, <2>1, <2>2 DEF FateOf, Settled
<1>9. Escrow!Become({rc}, "owed")
  BY <1>7, <1>8, BecomeIntro
<1> QED BY <1>2, <1>5, <1>9 DEF Escrow!Release

\* The two deposits behind a swap that waits for its execution.
LEMMA TwoHeld ==
    ASSUME RInv, NEW o \in OfferIds, swaps[o].state \in ExecutionStates
    PROVE  \E x, y \in TransferReceipt :
             /\ x # y /\ x.identifier = o /\ y.identifier = o
             /\ x \in events /\ y \in events /\ Claims(x) = 0 /\ Claims(y) = 0
             /\ swaps[o].maker_transfer_receipt = x /\ swaps[o].taker_transfer_receipt = y
             /\ Escrow!Securing(o) = {x, y}
<1>1. PICK x \in TransferReceipt, y \in TransferReceipt :
         /\ x # y /\ x.identifier = o /\ y.identifier = o
         /\ x \in events /\ y \in events /\ Claims(x) = 0 /\ Claims(y) = 0
         /\ swaps[o].maker_transfer_receipt = x /\ swaps[o].taker_transfer_receipt = y
  <2> DEFINE x == Key(swaps[o].maker, o)  y == Key(swaps[o].taker, o)
  <2>1. /\ x \in TransferReceipt /\ y \in TransferReceipt /\ x # y
        /\ x \in events /\ y \in events /\ Claims(x) = 0 /\ Claims(y) = 0
        /\ swaps[o].maker_transfer_receipt = x /\ swaps[o].taker_transfer_receipt = y
    BY CollateralReceipts, KeyFacts DEF RInv
  <2>2. x.identifier = o /\ y.identifier = o
    BY DEF Key
  <2> QED BY <2>1, <2>2
<1>2. ASSUME NEW z \in TransferReceipt PROVE z.identifier = o /\ Held(z) <=> z \in {x, y}
  BY <1>1 DEF Held
<1>3. Escrow!Securing(o) = {x, y}
  BY <1>2, SecuringIsHeld
<1> QED BY <1>1, <1>3

\* When a swap ends, the deposits it held are held no longer, and no other changes.
LEMMA EndedHolds ==
    ASSUME TypeOK, NEW o \in OfferIds, swaps' = [swaps EXCEPT ![o] = Absent],
           NEW x \in TransferReceipt
    PROVE  /\ x.identifier = o => ~ Held(x)'
           /\ x.identifier # o => (Held(x)' <=> Held(x))
<1>1. /\ \A p \in OfferIds : p # o => swaps'[p] = swaps[p]
      /\ swaps'[o].maker_transfer_receipt = None /\ swaps'[o].taker_transfer_receipt = None
  BY DEF TypeOK, Absent
<1>2. x.identifier \in OfferIds /\ x # None
  BY KeyFacts, NoneAssumption
<1> QED BY <1>1, <1>2 DEF Held

\* A swap that fails: the service keeps both deposits, in one step.
LEMMA TimeoutFailedSettles ==
    ASSUME RInv, NEW o \in OfferIds, TimeoutFailed(o)
    PROVE  \E x, y \in TransferReceipt : Escrow!Settle(x, y)
<1>0. TypeOK
  BY DEF RInv, IInv
<1>1. /\ swaps[o].state \in ExecutionStates /\ swaps' = [swaps EXCEPT ![o] = Absent]
      /\ events' = events /\ UNCHANGED refunds
  BY DEF TimeoutFailed
<1>2. PICK x \in TransferReceipt, y \in TransferReceipt :
         /\ x # y /\ x.identifier = o /\ y.identifier = o
         /\ x \in events /\ y \in events /\ Claims(x) = 0 /\ Claims(y) = 0
         /\ swaps[o].maker_transfer_receipt = x /\ swaps[o].taker_transfer_receipt = y
         /\ Escrow!Securing(o) = {x, y}
  BY <1>1, TwoHeld
<1>3. ASSUME NEW z \in TransferReceipt, z \notin {x, y} PROVE FateOf(z)' = FateOf(z)
  <2>1. Settled(z)' = Settled(z)
    BY <1>1, SettledKept
  <2>2. Held(z)' <=> Held(z)
    BY <1>0, <1>1, <1>2, <1>3, EndedHolds DEF Held
  <2> QED BY <1>1, <2>1, <2>2, FateKept
<1>4. ASSUME NEW z \in {x, y} PROVE FateOf(z)' = "kept"
  <2>1. z \in TransferReceipt /\ z \in events' /\ z.identifier = o /\ Claims(z) = 0
    BY <1>1, <1>2
  <2>2. ~ Held(z)'
    BY <1>0, <1>1, <2>1, EndedHolds
  <2>3. Settled(z)' = "kept"
    BY <1>0, <1>1, <2>1, SettledKept, UnclaimedIsKept
  <2> QED BY <2>1, <2>2, <2>3 DEF FateOf
<1>5. Escrow!Become({x, y}, "kept")
  BY <1>3, <1>4, BecomeIntro
<1> QED BY <1>2, <1>5 DEF Escrow!Settle

\* A swap that both confirmed: both deposits are owed less the fee, in one step.
LEMMA SecondExecutionSettles ==
    ASSUME RInv, NEW o \in OfferIds, NEW a \in Addresses, SecondExecution(a, o)
    PROVE  \E x, y \in TransferReceipt : Escrow!Settle(x, y)
<1>0. TypeOK
  BY DEF RInv, IInv
<1>1. /\ swaps[o].state \in ExecutionStates /\ swaps' = [swaps EXCEPT ![o] = Absent]
      /\ events' = events /\ in_flight' = in_flight /\ refunded' = refunded
  BY DEF SecondExecution, ExecutionStates
<1>2. PICK x \in TransferReceipt, y \in TransferReceipt :
         /\ x # y /\ x.identifier = o /\ y.identifier = o
         /\ x \in events /\ y \in events /\ Claims(x) = 0 /\ Claims(y) = 0
         /\ swaps[o].maker_transfer_receipt = x /\ swaps[o].taker_transfer_receipt = y
         /\ Escrow!Securing(o) = {x, y}
  BY <1>1, TwoHeld
<1>3. refund_queue' = [[refund_queue EXCEPT ![LessFee(x)] = @ + 1] EXCEPT ![LessFee(y)] = @ + 1]
  BY <1>2 DEF SecondExecution, QueueRefund, LessFee
<1>4. /\ LessFee(x) \in Refund /\ LessFee(y) \in Refund /\ LessFee(x) # LessFee(y)
      /\ Full(x) \in Refund /\ Full(y) \in Refund
  BY <1>0, <1>2, ClaimsType DEF LessFee
<1>5. /\ \A r \in Refund : r \notin {LessFee(x), LessFee(y)} => refund_queue'[r] = refund_queue[r]
      /\ refund_queue'[LessFee(x)] = refund_queue[LessFee(x)] + 1
      /\ refund_queue'[LessFee(y)] = refund_queue[LessFee(y)] + 1
  <2> DEFINE lx == LessFee(x)  ly == LessFee(y)
  <2>1. /\ lx \in Refund /\ ly \in Refund /\ lx # ly
        /\ refund_queue' = [[refund_queue EXCEPT ![lx] = @ + 1] EXCEPT ![ly] = @ + 1]
    BY <1>3, <1>4
  <2> HIDE DEF lx, ly
  <2>2. /\ \A r \in Refund : r \notin {lx, ly} => refund_queue'[r] = refund_queue[r]
        /\ refund_queue'[lx] = refund_queue[lx] + 1
        /\ refund_queue'[ly] = refund_queue[ly] + 1
    BY <1>0, <2>1 DEF TypeOK
  <2> QED BY <2>2 DEF lx, ly
<1>6. ASSUME NEW z \in TransferReceipt, z \notin {x, y} PROVE FateOf(z)' = FateOf(z)
  <2>1. /\ Full(z) \in Refund /\ LessFee(z) \in Refund
        /\ Full(z) \notin {LessFee(x), LessFee(y)} /\ LessFee(z) \notin {LessFee(x), LessFee(y)}
    BY <1>0, <1>6, ClaimsType DEF Full, LessFee
  <2>2. /\ refund_queue'[Full(z)] = refund_queue[Full(z)]
        /\ refund_queue'[LessFee(z)] = refund_queue[LessFee(z)]
    BY <1>5, <2>1
  <2>3. Settled(z)' = Settled(z)
    BY <1>1, <2>2 DEF Settled, Due, Full, LessFee
  <2>4. Held(z)' <=> Held(z)
    BY <1>0, <1>1, <1>2, <1>6, EndedHolds DEF Held
  <2> QED BY <1>1, <2>3, <2>4, FateKept
<1>7. ASSUME NEW z \in {x, y} PROVE FateOf(z)' = "owed_less_fee"
  <2>1. z \in TransferReceipt /\ z \in events' /\ z.identifier = o /\ Claims(z) = 0
    BY <1>1, <1>2
  <2>2. ~ Held(z)'
    BY <1>0, <1>1, <2>1, EndedHolds
  <2>3. ~ Due(Full(z)) /\ Full(z) \in Refund /\ LessFee(z) \in Refund
    <3>1. Settled(z) = "kept"
      BY <1>0, <2>1, UnclaimedIsKept
    <3> QED BY <1>0, <2>1, <3>1, ClaimsType DEF Settled
  <2>4. refund_queue'[Full(z)] = refund_queue[Full(z)]
    <3>1. Full(z) \notin {LessFee(x), LessFee(y)}
      BY DEF Full, LessFee
    <3> QED BY <1>5, <2>3, <3>1
  <2>5. ~ Due(Full(z))'
    BY <1>1, <2>3, <2>4 DEF Due, Full
  <2>6. Due(LessFee(z))'
    <3>1. refund_queue'[LessFee(z)] = refund_queue[LessFee(z)] + 1
      BY <1>5
    <3>2. refund_queue[LessFee(z)] \in Nat /\ in_flight[LessFee(z)] \in Nat
      BY <1>0, <2>3 DEF TypeOK
    <3>3. refund_queue'[LessFee(z)] + in_flight'[LessFee(z)] > 0
      BY <1>1, <3>1, <3>2
    <3> QED BY <3>3 DEF Due, LessFee
  <2> QED BY <2>1, <2>2, <2>5, <2>6 DEF FateOf, Settled
<1>8. Escrow!Become({x, y}, "owed_less_fee")
  BY <1>6, <1>7, BecomeIntro
<1> QED BY <1>2, <1>8 DEF Escrow!Settle

\* Taking a refund from the queue, or putting it back, leaves it due.
LEMMA RefundStaysDue ==
    ASSUME TypeOK, NEW r \in Refund, StartRefund(r) \/ RefundFails(r)
    PROVE  \A x \in TransferReceipt : FateOf(x)' = FateOf(x)
<1>1. ASSUME NEW q \in Refund PROVE Due(q)' <=> Due(q)
  <2>1. CASE StartRefund(r)
    BY <2>1 DEF StartRefund, TypeOK, Due
  <2>2. CASE RefundFails(r)
    BY <2>2 DEF RefundFails, TypeOK, Due
  <2> QED BY <2>1, <2>2
<1>2. swaps' = swaps /\ events' = events /\ refunded' = refunded
  BY DEF StartRefund, RefundFails
<1>3. ASSUME NEW x \in TransferReceipt PROVE FateOf(x)' = FateOf(x)
  <2>1. Full(x) \in Refund /\ LessFee(x) \in Refund
    BY ClaimsType
  <2>2. Settled(x)' = Settled(x)
    BY <1>1, <1>2, <2>1 DEF Settled, Full, LessFee
  <2> QED BY <1>2, <2>2, FateKept DEF Held
<1> QED BY <1>3

\* The transfer of a refund that waits for its answer is the only claim to the deposit.
LEMMA OnlyClaim ==
    ASSUME RInv, NEW r \in Refund, in_flight[r] > 0
    PROVE  \E rc \in TransferReceipt :
             /\ rc \in events /\ ~ Held(rc)
             /\ \/ r = Full(rc) /\ RefundsOf(LessFee(rc)) = 0
                \/ r = LessFee(rc) /\ RefundsOf(Full(rc)) = 0
             /\ refund_queue[r] = 0 /\ in_flight[r] = 1 /\ refunded[r] = 0
<1>0. TypeOK
  BY DEF RInv, IInv
<1>1. PICK rc \in TransferReceipt : r = Full(rc) \/ r = LessFee(rc)
  BY DEF Refund, Full, LessFee
<1>2. /\ Full(rc) \in Refund /\ LessFee(rc) \in Refund
      /\ RefundsOf(Full(rc)) \in Nat /\ RefundsOf(LessFee(rc)) \in Nat
  BY <1>0, ClaimsType
<1>3. RefundsOf(r) > 0
  BY <1>0 DEF TypeOK, RefundsOf
<1>4. RefundsOf(Full(rc)) + RefundsOf(LessFee(rc)) <= 1
  BY DEF RInv, IInv, RefundedAtMostOnce, Claims
<1>5. /\ Claims(rc) # 0
      /\ RefundsOf(r) = 1
      /\ \/ r = Full(rc) /\ RefundsOf(LessFee(rc)) = 0
         \/ r = LessFee(rc) /\ RefundsOf(Full(rc)) = 0
  BY <1>1, <1>2, <1>3, <1>4 DEF Claims
<1>6. refund_queue[r] = 0 /\ in_flight[r] = 1 /\ refunded[r] = 0
  BY <1>0, <1>5 DEF TypeOK, RefundsOf
<1>7. rc \in events /\ ~ Held(rc)
  BY <1>5, HeldFacts DEF RInv, IInv, UndeliveredUnclaimed
<1> QED BY <1>5, <1>6, <1>7

\* The deposits other than the one a refund is of keep their fate.
LEMMA OtherFatesKept ==
    ASSUME TypeOK, NEW rc \in TransferReceipt, NEW r \in {Full(rc), LessFee(rc)},
           RefundSucceeds(r) \/ RefundRaises(r),
           NEW x \in TransferReceipt, x # rc
    PROVE  FateOf(x)' = FateOf(x)
<1>1. /\ Full(x) \in Refund /\ LessFee(x) \in Refund
      /\ Full(x) # r /\ LessFee(x) # r
  BY ClaimsType DEF Full, LessFee
<1>2. \A q \in Refund : q # r => /\ in_flight'[q] = in_flight[q]
                                 /\ refunded'[q] = refunded[q]
                                 /\ refund_queue'[q] = refund_queue[q]
  BY DEF TypeOK, RefundSucceeds, RefundRaises
<1>3. Settled(x)' = Settled(x)
  BY <1>1, <1>2 DEF Settled, Due, Full, LessFee
<1>4. swaps' = swaps /\ events' = events
  BY DEF RefundSucceeds, RefundRaises
<1> QED BY <1>3, <1>4, FateKept DEF Held

\* A refund that succeeds pays the deposit back.
LEMMA RefundSucceedsPaysBack ==
    ASSUME RInv, NEW r \in Refund, RefundSucceeds(r)
    PROVE  \E rc \in TransferReceipt : Escrow!PayBack(rc)
<1>0. TypeOK
  BY DEF RInv, IInv
<1>1. in_flight[r] > 0
  BY DEF RefundSucceeds
<1>2. PICK rc \in TransferReceipt :
         /\ rc \in events /\ ~ Held(rc)
         /\ \/ r = Full(rc) /\ RefundsOf(LessFee(rc)) = 0
            \/ r = LessFee(rc) /\ RefundsOf(Full(rc)) = 0
         /\ refund_queue[r] = 0 /\ in_flight[r] = 1 /\ refunded[r] = 0
  BY <1>1, OnlyClaim
<1>3. /\ Full(rc) \in Refund /\ LessFee(rc) \in Refund /\ Full(rc) # LessFee(rc)
  BY <1>0, ClaimsType DEF Full, LessFee
<1>4. /\ in_flight'[r] = 0 /\ refunded'[r] = 1 /\ refund_queue' = refund_queue
      /\ swaps' = swaps /\ events' = events
      /\ \A q \in Refund : q # r => in_flight'[q] = in_flight[q] /\ refunded'[q] = refunded[q]
  BY <1>0, <1>2 DEF RefundSucceeds, TypeOK
<1>5. \A q \in Refund : RefundsOf(q) = 0 => ~ Due(q) /\ ~ (refunded[q] > 0)
  BY <1>0 DEF TypeOK, RefundsOf, Due
<1>6. ~ Held(rc)' /\ rc \in events'
  BY <1>2, <1>4 DEF Held
<1>7. ~ Due(r)' /\ Due(r)
  BY <1>2, <1>4 DEF Due
<1>8. CASE r = Full(rc) /\ RefundsOf(LessFee(rc)) = 0
  <2>1. FateOf(rc) = "owed"
    BY <1>2, <1>7, <1>8 DEF FateOf, Settled
  <2>2. ~ Due(LessFee(rc))'
    BY <1>3, <1>4, <1>5, <1>8 DEF Due, LessFee
  <2>3. FateOf(rc)' = "returned"
    BY <1>4, <1>6, <1>7, <1>8, <2>2 DEF FateOf, Settled
  <2>4. Escrow!Become({rc}, "returned")
    BY <1>0, <1>8, <2>3, OtherFatesKept, BecomeIntro
  <2> QED BY <2>1, <2>4 DEF Escrow!PayBack
<1>9. CASE r = LessFee(rc) /\ RefundsOf(Full(rc)) = 0
  <2>1. ~ Due(Full(rc)) /\ ~ (refunded[Full(rc)] > 0)
    BY <1>3, <1>5, <1>9
  <2>2. FateOf(rc) = "owed_less_fee"
    BY <1>2, <1>7, <1>9, <2>1 DEF FateOf, Settled
  <2>3. ~ Due(Full(rc))' /\ ~ (refunded'[Full(rc)] > 0)
    BY <1>3, <1>4, <1>9, <2>1 DEF Due, Full
  <2>4. FateOf(rc)' = "returned_less_fee"
    BY <1>4, <1>6, <1>7, <1>9, <2>3 DEF FateOf, Settled
  <2>5. Escrow!Become({rc}, "returned_less_fee")
    BY <1>0, <1>9, <2>4, OtherFatesKept, BecomeIntro
  <2> QED BY <2>2, <2>5 DEF Escrow!PayBack
<1> QED BY <1>2, <1>8, <1>9

\* A refund whose request raises is lost: the service keeps the deposit.
LEMMA RefundRaisesLoses ==
    ASSUME RInv, NEW r \in Refund, RefundRaises(r)
    PROVE  \E rc \in TransferReceipt : Escrow!Lose(rc)
<1>0. TypeOK
  BY DEF RInv, IInv
<1>1. in_flight[r] > 0
  BY DEF RefundRaises
<1>2. PICK rc \in TransferReceipt :
         /\ rc \in events /\ ~ Held(rc)
         /\ \/ r = Full(rc) /\ RefundsOf(LessFee(rc)) = 0
            \/ r = LessFee(rc) /\ RefundsOf(Full(rc)) = 0
         /\ refund_queue[r] = 0 /\ in_flight[r] = 1 /\ refunded[r] = 0
  BY <1>1, OnlyClaim
<1>3. /\ Full(rc) \in Refund /\ LessFee(rc) \in Refund /\ Full(rc) # LessFee(rc)
  BY <1>0, ClaimsType DEF Full, LessFee
<1>4. /\ in_flight'[r] = 0 /\ refunded' = refunded /\ refund_queue' = refund_queue
      /\ swaps' = swaps /\ events' = events
      /\ \A q \in Refund : q # r => in_flight'[q] = in_flight[q]
  BY <1>0, <1>2 DEF RefundRaises, TypeOK
<1>5. \A q \in Refund : RefundsOf(q) = 0 => ~ Due(q) /\ ~ (refunded[q] > 0)
  BY <1>0 DEF TypeOK, RefundsOf, Due
<1>6. ~ Held(rc)' /\ rc \in events'
  BY <1>2, <1>4 DEF Held
<1>7. ~ Due(r)' /\ Due(r) /\ ~ (refunded'[r] > 0)
  BY <1>2, <1>4 DEF Due
<1>8. FateOf(rc) \in {"owed", "owed_less_fee"}
  BY <1>2, <1>7 DEF FateOf, Settled
<1>9. ASSUME NEW q \in {Full(rc), LessFee(rc)} PROVE ~ Due(q)' /\ ~ (refunded'[q] > 0)
  <2>1. CASE q = r
    BY <1>7, <2>1
  <2>2. CASE q # r
    <3>1. q \in Refund /\ RefundsOf(q) = 0
      BY <1>2, <1>3, <2>2
    <3> QED BY <1>4, <1>5, <2>2, <3>1 DEF Due
  <2> QED BY <2>1, <2>2
<1>10. FateOf(rc)' = "kept"
  BY <1>6, <1>9 DEF FateOf, Settled, Full, LessFee
<1>11. Escrow!Become({rc}, "kept")
  BY <1>0, <1>2, <1>10, OtherFatesKept, BecomeIntro
<1> QED BY <1>8, <1>11 DEF Escrow!Lose

-----------------------------------------------------------------------------
(* The refinement. *)

\* What a step of the service does to the deposits: it accepts one and tells its owner, or
\* moves deposits the service had accepted or does not accept, or moves none.
LEMMA EscrowMoves ==
    ASSUME RInv, [Next]_vars
    PROVE  \/ \E rc \in TransferReceipt : /\ MakerTransfer(rc) \/ TakerTransfer(rc)
                                         /\ Escrow!Accept(rc)
           \/ \E rc \in TransferReceipt :
                 \/ Escrow!Refuse(rc) \/ Escrow!Ignore(rc) \/ Escrow!Release(rc)
                 \/ Escrow!PayBack(rc) \/ Escrow!Lose(rc)
                 \/ \E other \in TransferReceipt : Escrow!Settle(rc, other)
           \/ \A x \in TransferReceipt : FateOf(x)' = FateOf(x)
<1>0. TypeOK
  BY DEF RInv, IInv
<1>1. ASSUME NEW rc \in TransferReceipt, NEW amount \in Amounts, Pay(rc, amount)
      PROVE  \A x \in TransferReceipt : FateOf(x)' = FateOf(x)
  BY <1>0, <1>1, NoDepositMoves DEF Pay, Held
<1>2. ASSUME NEW o \in OfferIds, NEW a \in Addresses, MakerCommitment(a, o)
      PROVE  \A x \in TransferReceipt : FateOf(x)' = FateOf(x)
  <2>1. /\ swaps[o].maker_transfer_receipt = None /\ swaps[o].taker_transfer_receipt = None
        /\ swaps'[o].maker_transfer_receipt = None /\ swaps'[o].taker_transfer_receipt = None
        /\ \A p \in OfferIds : p # o => swaps'[p] = swaps[p]
    BY <1>0, <1>2 DEF MakerCommitment, Absent, RInv, NoEarlyReceipt, OfferReceipts, TypeOK
  <2>2. \A x \in TransferReceipt : Held(x)' <=> Held(x)
    BY <2>1, KeyFacts DEF Held
  <2> QED BY <1>0, <1>2, <2>2, NoDepositMoves DEF MakerCommitment
<1>3. ASSUME NEW o \in OfferIds, NEW a \in Addresses,
             TakerCommitment(a, o) \/ FirstExecution(a, o)
      PROVE  \A x \in TransferReceipt : FateOf(x)' = FateOf(x)
  <2>1. ASSUME NEW p \in OfferIds
        PROVE  /\ swaps'[p].maker_transfer_receipt = swaps[p].maker_transfer_receipt
               /\ swaps'[p].taker_transfer_receipt = swaps[p].taker_transfer_receipt
    <3>1. CASE TakerCommitment(a, o)
      BY <1>0, <3>1 DEF TakerCommitment, TypeOK, SwapCommitment
    <3>2. CASE FirstExecution(a, o)
      <4>1. PICK e : swaps' = [swaps EXCEPT ![o] = [swaps[o] EXCEPT !.state = e]]
        BY <3>2 DEF FirstExecution
      <4> QED BY <1>0, <4>1 DEF TypeOK, SwapCommitment
    <3> QED BY <1>3, <3>1, <3>2
  <2>2. \A x \in TransferReceipt : Held(x)' <=> Held(x)
    BY <2>1, KeyFacts DEF Held
  <2> QED BY <1>0, <1>3, <2>2, NoDepositMoves DEF TakerCommitment, FirstExecution
<1>4. ASSUME NEW o \in OfferIds, TimeoutUncommitted(o)
      PROVE  \A x \in TransferReceipt : FateOf(x)' = FateOf(x)
  <2>1. /\ swaps[o].maker_transfer_receipt = None /\ swaps[o].taker_transfer_receipt = None
        /\ swaps'[o].maker_transfer_receipt = None /\ swaps'[o].taker_transfer_receipt = None
        /\ \A p \in OfferIds : p # o => swaps'[p] = swaps[p]
    BY <1>0, <1>4 DEF TimeoutUncommitted, Absent, RInv, NoEarlyReceipt, OfferReceipts, TypeOK
  <2>2. \A x \in TransferReceipt : Held(x)' <=> Held(x)
    BY <2>1, KeyFacts DEF Held
  <2> QED BY <1>0, <1>4, <2>2, NoDepositMoves DEF TimeoutUncommitted
<1>5. ASSUME NEW r \in Refund, StartRefund(r) \/ RefundFails(r)
      PROVE  \A x \in TransferReceipt : FateOf(x)' = FateOf(x)
  BY <1>0, <1>5, RefundStaysDue
<1>6. ASSUME swaps' = swaps, events' = events, UNCHANGED refunds
      PROVE  \A x \in TransferReceipt : FateOf(x)' = FateOf(x)
  BY <1>0, <1>6, NoDepositMoves DEF Held
<1>7. \/ \E rc \in TransferReceipt, amount \in Amounts : Pay(rc, amount)
      \/ \E o \in OfferIds, a \in Addresses :
           \/ MakerCommitment(a, o) \/ TakerCommitment(a, o)
           \/ FirstExecution(a, o) \/ SecondExecution(a, o)
      \/ \E o \in OfferIds : TimeoutUncommitted(o) \/ TimeoutUntraded(o) \/ TimeoutFailed(o)
      \/ \E rc \in TransferReceipt : \/ MakerTransfer(rc) \/ TakerTransfer(rc)
                                     \/ UnsuccessfulTransfer(rc) \/ TransferWithoutSwap(rc)
      \/ \E r \in Refund : \/ StartRefund(r) \/ RefundSucceeds(r)
                           \/ RefundFails(r) \/ RefundRaises(r)
      \/ swaps' = swaps /\ events' = events /\ UNCHANGED refunds
  BY DEF Next, CommitmentTask, TransferReceivedTask, SwapExecutionTask, RefundTask,
         MessageSenderTask, Timeout, IgnoredExecution, IgnoredCancellation, vars, refunds,
         UnexpectedCommitment, PollRaises, UnreadExecution, UnexpectedExecution,
         SendMessage, SendRaises
<1> QED BY <1>1, <1>2, <1>3, <1>4, <1>5, <1>6, <1>7,
           MakerTransferAccepts, TakerTransferAccepts, UnsuccessfulTransferRefuses,
           TransferWithoutSwapIgnores, TimeoutUntradedReleases, TimeoutFailedSettles,
           SecondExecutionSettles, RefundSucceedsPaysBack, RefundRaisesLoses

\* Every step of the service is a step of the escrow or moves no deposit.
LEMMA EscrowStep ==
    RInv /\ [Next]_vars =>
        [Escrow!Next]_([rc \in TransferReceipt |-> FateOf(rc)])
<1> SUFFICES ASSUME RInv, [Next]_vars
             PROVE  \/ Escrow!Next
                    \/ \A x \in TransferReceipt : FateOf(x)' = FateOf(x)
    BY StutterIntro
<1> QED BY EscrowMoves DEF Escrow!Next

\* The commitment service is an escrow of deposits, whatever its tasks do and in
\* whatever order: a deposit is security for one offer, or goes back, or is ignored;
\* the two deposits of a swap are settled in one step, and alike; a deposit that is
\* owed is paid back at most once.
THEOREM ImplementsEscrow == Spec => RefinesEscrow
<1>1. Init => Escrow!Init
  BY DEF Init, Escrow!Init, FateOf
<1> QED BY <1>1, RefinementInvariant, EscrowStep, PTL DEF Spec, RefinesEscrow, Escrow!Spec

-----------------------------------------------------------------------------
(* What the nodes see of the service.                                      *)

\* Only the second confirmation of a swap takes a fee: whatever else is refunded, and
\* whatever RefundTask does, no refund less the fee appears.
LEMMA LessFeeKept ==
    ASSUME TypeOK, NEW rc \in TransferReceipt,
           \/ UNCHANGED refunds
           \/ \E x \in TransferReceipt : /\ refund_queue' = QueueRefund(refund_queue, x, FALSE)
                                        /\ UNCHANGED <<in_flight, refunded, lost>>
           \/ \E r \in Refund :
                  StartRefund(r) \/ RefundSucceeds(r) \/ RefundFails(r) \/ RefundRaises(r)
    PROVE  RefundsOf(LessFee(rc))' = RefundsOf(LessFee(rc))
<1>1. LessFee(rc) \in Refund
  BY ClaimsType
<1>2. CASE UNCHANGED refunds
  BY <1>2 DEF refunds, RefundsOf
<1>3. ASSUME NEW x \in TransferReceipt, refund_queue' = QueueRefund(refund_queue, x, FALSE),
             UNCHANGED <<in_flight, refunded, lost>>
      PROVE  RefundsOf(LessFee(rc))' = RefundsOf(LessFee(rc))
  <2>1. LessFee(rc) # Full(x)
    BY DEF LessFee, Full
  <2>2. refund_queue'[LessFee(rc)] = refund_queue[LessFee(rc)]
    BY <1>1, <1>3, <2>1 DEF TypeOK, QueueRefund, Full
  <2> QED BY <1>3, <2>2 DEF RefundsOf
<1>4. ASSUME NEW r \in Refund,
             StartRefund(r) \/ RefundSucceeds(r) \/ RefundFails(r) \/ RefundRaises(r)
      PROVE  RefundsOf(LessFee(rc))' = RefundsOf(LessFee(rc))
  <2> PICK q \in Refund : q = LessFee(rc)
    BY <1>1
  <2>1. CASE StartRefund(r)
    BY <2>1 DEF StartRefund, TypeOK, RefundsOf
  <2>2. CASE RefundSucceeds(r)
    BY <2>2 DEF RefundSucceeds, TypeOK, RefundsOf
  <2>3. CASE RefundFails(r)
    BY <2>3 DEF RefundFails, TypeOK, RefundsOf
  <2>4. CASE RefundRaises(r)
    BY <2>4 DEF RefundRaises, TypeOK, RefundsOf
  <2> QED BY <1>4, <2>1, <2>2, <2>3, <2>4
<1> QED BY <1>2, <1>3, <1>4

-----------------------------------------------------------------------------
(* The service can pay what it owes. *)

\* The receipts and the refunds are finitely many.
LEMMA FiniteReceipts == IsFiniteSet(TransferReceipt) /\ IsFiniteSet(Refund)
<1>1. IsFiniteSet(TransferReceipt)
  <2> DEFINE P == Addresses \X OfferIds
             f == [p \in P |-> [initiator |-> p[1], identifier |-> p[2]]]
  <2>1. IsFiniteSet(P)
    BY FiniteAssumption, FS_Product
  <2>2. f \in [P -> TransferReceipt]
    BY DEF TransferReceipt
  <2>3. ASSUME NEW rc \in TransferReceipt PROVE \E p \in P : f[p] = rc
    <3>1. <<rc.initiator, rc.identifier>> \in P /\ f[<<rc.initiator, rc.identifier>>] = rc
      BY DEF TransferReceipt
    <3> QED BY <3>1
  <2>4. f \in Surjection(P, TransferReceipt)
    BY <2>2, <2>3 DEF Surjection
  <2> QED BY <2>1, <2>4, FS_Surjection
<1>2. IsFiniteSet(BOOLEAN)
  <2>1. BOOLEAN = {TRUE} \cup {FALSE}
    OBVIOUS
  <2>2. IsFiniteSet({TRUE})
    BY FS_Singleton
  <2>3. IsFiniteSet({TRUE} \cup {FALSE})
    BY <2>2, FS_AddElement
  <2> QED BY <2>1, <2>3
<1>3. IsFiniteSet(Refund)
  <2> DEFINE P == TransferReceipt \X BOOLEAN
             f == [p \in P |-> [receipt |-> p[1], claim_fee |-> p[2]]]
  <2>1. IsFiniteSet(P)
    BY <1>1, <1>2, FS_Product
  <2>2. f \in [P -> Refund]
    BY DEF Refund
  <2>3. ASSUME NEW r \in Refund PROVE \E p \in P : f[p] = r
    <3>1. <<r.receipt, r.claim_fee>> \in P /\ f[<<r.receipt, r.claim_fee>>] = r
      BY DEF Refund
    <3> QED BY <3>1
  <2>4. f \in Surjection(P, Refund)
    BY <2>2, <2>3 DEF Surjection
  <2> QED BY <2>1, <2>4, FS_Surjection
<1> QED BY <1>1, <1>3

\* int() of a part of an amount is at most the amount.
LEMMA PartOfAmount ==
    ASSUME NEW d \in Nat, NEW p \in 0 .. 100
    PROVE  (d * (100 - p)) \div 100 \in Nat /\ (d * (100 - p)) \div 100 <= d
<1>1. 100 - p \in Nat /\ 100 - p <= 100
  OBVIOUS
<1>2. d * (100 - p) \in Nat /\ d * (100 - p) <= d * 100
  BY <1>1
<1> DEFINE x == d * (100 - p)
<1> HIDE DEF x
<1>3. x \in Nat /\ x <= d * 100 => x \div 100 \in Nat /\ x \div 100 <= d
  OBVIOUS
<1> QED BY <1>2, <1>3 DEF x

\* A refund transfers at most the deposit.
LEMMA RefundWithinDeposit ==
    ASSUME TypeOK, NEW r \in Refund
    PROVE  RefundAmount(r) \in Nat /\ RefundAmount(r) <= deposits[r.receipt]
<1>1. deposits[r.receipt] \in Nat
  BY DEF TypeOK, Refund
<1>2. FeePercent \in 0 .. 100
  BY FeeAssumption
<1> DEFINE part == (deposits[r.receipt] * (100 - FeePercent)) \div 100
<1>3. part \in Nat /\ part <= deposits[r.receipt]
  BY <1>1, <1>2, PartOfAmount
<1> HIDE DEF part
<1> QED BY <1>1, <1>3 DEF RefundAmount, part

PaidBackOf == [r \in Refund |-> refunded[r] * RefundAmount(r)]
OwedOf == [r \in Refund |-> (refund_queue[r] + in_flight[r]) * RefundAmount(r)]


\* Of one deposit no more is paid back, owed and held together than was paid in.
LEMMA EachCovered ==
    ASSUME RInv, NEW rc \in TransferReceipt
    PROVE  /\ Full(rc) \in Refund /\ LessFee(rc) \in Refund /\ Full(rc) # LessFee(rc)
           /\ PaidBackOf \in [Refund -> Nat] /\ OwedOf \in [Refund -> Nat] /\ deposits \in [TransferReceipt -> Nat]
           /\ LET given == PaidBackOf[Full(rc)] + PaidBackOf[LessFee(rc)]
                  owed == OwedOf[Full(rc)] + OwedOf[LessFee(rc)]
              IN  /\ given + owed <= deposits[rc]
                  /\ Held(rc) => given + owed = 0 /\ rc \in events
                  /\ rc \notin events => given + owed = 0
<1>1. /\ Full(rc) \in Refund /\ LessFee(rc) \in Refund /\ Full(rc) # LessFee(rc)
      /\ Full(rc).receipt = rc /\ LessFee(rc).receipt = rc
  BY DEF Full, LessFee, Refund
<1>2. TypeOK /\ deposits \in [TransferReceipt -> Nat] /\ deposits[rc] \in Nat
  BY DEF RInv, IInv, TypeOK
<1>3. \A r \in Refund :
         /\ RefundAmount(r) \in Nat /\ RefundAmount(r) <= deposits[r.receipt]
         /\ refunded[r] \in Nat /\ refund_queue[r] \in Nat /\ in_flight[r] \in Nat /\ lost[r] \in Nat
  BY <1>2, RefundWithinDeposit DEF TypeOK
<1>4. PaidBackOf \in [Refund -> Nat] /\ OwedOf \in [Refund -> Nat]
  <2>1. \A a, b \in Nat : a * b \in Nat
    OBVIOUS
  <2> QED BY <1>3, <2>1 DEF PaidBackOf, OwedOf
<1>5. ASSUME NEW r \in Refund
      PROVE  /\ RefundsOf(r) \in Nat
             /\ RefundsOf(r) = 0 => PaidBackOf[r] + OwedOf[r] = 0
             /\ RefundsOf(r) = 1 => PaidBackOf[r] + OwedOf[r] <= deposits[r.receipt]
  <2> DEFINE a == RefundAmount(r)  x == refunded[r]  y == refund_queue[r] + in_flight[r]
  <2>1. a \in Nat /\ x \in Nat /\ y \in Nat /\ a <= deposits[r.receipt] /\ deposits[r.receipt] \in Nat
    BY <1>2, <1>3 DEF Refund
  <2>2. PaidBackOf[r] = x * a /\ OwedOf[r] = y * a
    BY DEF PaidBackOf, OwedOf
  <2>3. RefundsOf(r) \in Nat /\ x + y <= RefundsOf(r)
    BY <1>3 DEF RefundsOf
  <2> HIDE DEF a, x, y
  <2>4. x + y = 0 \/ x + y = 1 => (x = 0 /\ y = 0) \/ (x = 1 /\ y = 0) \/ (x = 0 /\ y = 1)
    BY <2>1
  <2>5. 0 * a = 0 /\ 1 * a = a
    BY <2>1
  <2> QED BY <2>1, <2>2, <2>3, <2>4, <2>5
<1>6. Claims(rc) <= 1 /\ (rc \notin events => Claims(rc) = 0) /\ (Held(rc) => Claims(rc) = 0 /\ rc \in events)
  BY HeldFacts DEF RInv, IInv, RefundedAtMostOnce, UndeliveredUnclaimed
<1>7. Claims(rc) = RefundsOf(Full(rc)) + RefundsOf(LessFee(rc))
  BY DEF Claims
<1>8. /\ PaidBackOf[Full(rc)] \in Nat /\ PaidBackOf[LessFee(rc)] \in Nat
      /\ OwedOf[Full(rc)] \in Nat /\ OwedOf[LessFee(rc)] \in Nat
  BY <1>1, <1>4
<1> DEFINE f == Full(rc)  l == LessFee(rc)
<1>9. /\ RefundsOf(f) \in Nat /\ RefundsOf(l) \in Nat
      /\ RefundsOf(f) = 0 => PaidBackOf[f] + OwedOf[f] = 0
      /\ RefundsOf(l) = 0 => PaidBackOf[l] + OwedOf[l] = 0
      /\ RefundsOf(f) = 1 => PaidBackOf[f] + OwedOf[f] <= deposits[rc]
      /\ RefundsOf(l) = 1 => PaidBackOf[l] + OwedOf[l] <= deposits[rc]
  BY <1>1, <1>5
<1>10. /\ PaidBackOf[f] + PaidBackOf[l] + (OwedOf[f] + OwedOf[l]) <= deposits[rc]
       /\ Claims(rc) = 0 => PaidBackOf[f] + PaidBackOf[l] + (OwedOf[f] + OwedOf[l]) = 0
  <2> HIDE DEF f, l
  <2>1. Claims(rc) = RefundsOf(f) + RefundsOf(l)
    BY <1>7 DEF f, l
  <2>2. PaidBackOf[f] \in Nat /\ PaidBackOf[l] \in Nat /\ OwedOf[f] \in Nat /\ OwedOf[l] \in Nat
    BY <1>8 DEF f, l
  <2>3. RefundsOf(f) + RefundsOf(l) <= 1
    BY <1>6, <2>1
  <2>4. \/ RefundsOf(f) = 0 /\ RefundsOf(l) = 0
        \/ RefundsOf(f) = 1 /\ RefundsOf(l) = 0
        \/ RefundsOf(f) = 0 /\ RefundsOf(l) = 1
    BY <1>9, <2>3
  <2> DEFINE a == PaidBackOf[f]  b == PaidBackOf[l]  c == OwedOf[f]  d == OwedOf[l]  e == deposits[rc]
  <2>5. a \in Nat /\ b \in Nat /\ c \in Nat /\ d \in Nat /\ e \in Nat
    BY <1>2, <2>2
  <2>6. (a + c = 0 /\ b + d = 0) \/ (a + c <= e /\ b + d = 0 /\ Claims(rc) # 0)
            \/ (a + c = 0 /\ b + d <= e /\ Claims(rc) # 0)
    BY <1>9, <2>1, <2>4
  <2> HIDE DEF a, b, c, d, e
  <2>7. a + b + (c + d) <= e /\ (Claims(rc) = 0 => a + b + (c + d) = 0)
    BY <2>5, <2>6
  <2> QED BY <2>7 DEF a, b, c, d, e
<1> QED BY <1>1, <1>2, <1>4, <1>6, <1>10

\* The refunds of some deposits.
RefundsOfAll(T) == {r \in Refund : r.receipt \in T}

\* The sums over the refunds of deposits, one deposit apart.
LEMMA OneDepositApart ==
    ASSUME RInv, NEW w \in [Refund -> Nat], NEW T \in SUBSET TransferReceipt, NEW rc \in T
    PROVE  /\ SumFunctionOnSet(w, RefundsOfAll(T)) =
                w[Full(rc)] + w[LessFee(rc)] + SumFunctionOnSet(w, RefundsOfAll(T \ {rc}))
           /\ SumFunctionOnSet(w, RefundsOfAll(T \ {rc})) \in Nat
           /\ w[Full(rc)] \in Nat /\ w[LessFee(rc)] \in Nat
<1> DEFINE S == RefundsOfAll(T)  f == Full(rc)  l == LessFee(rc)
<1>1. f \in Refund /\ l \in Refund /\ f # l /\ f.receipt = rc /\ l.receipt = rc
  BY DEF Full, LessFee, Refund
<1>2. ASSUME NEW r \in Refund, r.receipt = rc PROVE r = f \/ r = l
  BY <1>2 DEF Full, LessFee, Refund
<1>3. S \in SUBSET Refund /\ f \in S /\ S \ {f} \in SUBSET Refund /\ l \in S \ {f}
  BY <1>1 DEF RefundsOfAll
<1>4. (S \ {f}) \ {l} = RefundsOfAll(T \ {rc})
  BY <1>1, <1>2 DEF RefundsOfAll
<1>5. /\ SumFunctionOnSet(w, S) = w[f] + SumFunctionOnSet(w, S \ {f})
      /\ SumFunctionOnSet(w, S \ {f}) = w[l] + SumFunctionOnSet(w, (S \ {f}) \ {l})
      /\ SumFunctionOnSet(w, (S \ {f}) \ {l}) \in Nat
  BY <1>3, <1>4, FiniteReceipts, SumSteps
<1>6. w[f] \in Nat /\ w[l] \in Nat
  BY <1>1
<1> HIDE DEF S, f, l
<1>7. SumFunctionOnSet(w, S) = w[f] + w[l] + SumFunctionOnSet(w, (S \ {f}) \ {l})
  BY <1>5, <1>6
<1> QED BY <1>4, <1>5, <1>6, <1>7 DEF S, f, l

\* What is paid back, owed and held of some deposits is covered by what was paid in of them.
Covered(T) ==
    SumFunctionOnSet(PaidBackOf, RefundsOfAll(T)) + SumFunctionOnSet(OwedOf, RefundsOfAll(T))
      + SumFunctionOnSet(deposits, {rc \in T : Held(rc)})
        <= SumFunctionOnSet(deposits, T \cap events)

\* One more deposit stays covered.
LEMMA OneMoreCovered ==
    ASSUME RInv, NEW T \in SUBSET TransferReceipt, NEW rc \in T, Covered(T \ {rc})
    PROVE  Covered(T)
<1> DEFINE U == T \ {rc}
           p == PaidBackOf[Full(rc)] + PaidBackOf[LessFee(rc)]
           q == OwedOf[Full(rc)] + OwedOf[LessFee(rc)]
           H(V) == {x \in V : Held(x)}
           E(V) == V \cap events
           s == SumFunctionOnSet(PaidBackOf, RefundsOfAll(U))
           t == SumFunctionOnSet(OwedOf, RefundsOfAll(U))
           h == SumFunctionOnSet(deposits, H(U))
           e == SumFunctionOnSet(deposits, E(U))
           d == deposits[rc]
<1>1. /\ PaidBackOf \in [Refund -> Nat] /\ OwedOf \in [Refund -> Nat] /\ deposits \in [TransferReceipt -> Nat]
      /\ p + q <= d
      /\ Held(rc) => p + q = 0 /\ rc \in events
      /\ rc \notin events => p + q = 0
  BY EachCovered
<1>2. SumFunctionOnSet(PaidBackOf, RefundsOfAll(T)) = p + s /\ s \in Nat /\ p \in Nat
  <2>1. /\ SumFunctionOnSet(PaidBackOf, RefundsOfAll(T)) = PaidBackOf[Full(rc)] + PaidBackOf[LessFee(rc)] + s
        /\ s \in Nat /\ PaidBackOf[Full(rc)] \in Nat /\ PaidBackOf[LessFee(rc)] \in Nat
    BY <1>1, OneDepositApart
  <2> HIDE DEF s
  <2> QED BY <2>1
<1>3. SumFunctionOnSet(OwedOf, RefundsOfAll(T)) = q + t /\ t \in Nat /\ q \in Nat
  <2>1. /\ SumFunctionOnSet(OwedOf, RefundsOfAll(T)) = OwedOf[Full(rc)] + OwedOf[LessFee(rc)] + t
        /\ t \in Nat /\ OwedOf[Full(rc)] \in Nat /\ OwedOf[LessFee(rc)] \in Nat
    BY <1>1, OneDepositApart
  <2> HIDE DEF t
  <2> QED BY <2>1
<1>4. d \in Nat
  BY <1>1
<1>5. \A V \in SUBSET TransferReceipt :
          /\ SumFunctionOnSet(deposits, V) \in Nat
          /\ \A x \in V : SumFunctionOnSet(deposits, V) = deposits[x] + SumFunctionOnSet(deposits, V \ {x})
  BY <1>1, FiniteReceipts, SumSteps
<1>6. SumFunctionOnSet(deposits, H(T)) = (IF Held(rc) THEN d ELSE 0) + h /\ h \in Nat
  <2>1. H(T) \in SUBSET TransferReceipt /\ H(U) \in SUBSET TransferReceipt
    OBVIOUS
  <2>2. CASE Held(rc)
    <3>1. rc \in H(T) /\ H(T) \ {rc} = H(U)
      BY <2>2
    <3>2. SumFunctionOnSet(deposits, H(T)) = d + h /\ h \in Nat
      <4> HIDE DEF H
      <4> QED BY <1>5, <2>1, <3>1
    <3> QED BY <2>2, <3>2
  <2>3. CASE ~ Held(rc)
    <3>1. H(T) = H(U)
      BY <2>3
    <3>2. SumFunctionOnSet(deposits, H(T)) = h /\ h \in Nat
      <4> HIDE DEF H
      <4> QED BY <1>5, <2>1, <3>1
    <3> HIDE DEF h
    <3>3. 0 + h = h
      BY <3>2
    <3> QED BY <2>3, <3>2, <3>3
  <2> QED BY <2>2, <2>3
<1>7. SumFunctionOnSet(deposits, E(T)) = (IF rc \in events THEN d ELSE 0) + e /\ e \in Nat
  <2>1. E(T) \in SUBSET TransferReceipt /\ E(U) \in SUBSET TransferReceipt
    OBVIOUS
  <2>2. CASE rc \in events
    <3>1. rc \in E(T) /\ E(T) \ {rc} = E(U)
      BY <2>2
    <3>2. SumFunctionOnSet(deposits, E(T)) = d + e /\ e \in Nat
      <4> HIDE DEF E
      <4> QED BY <1>5, <2>1, <3>1
    <3> QED BY <2>2, <3>2
  <2>3. CASE rc \notin events
    <3>1. E(T) = E(U)
      BY <2>3
    <3>2. SumFunctionOnSet(deposits, E(T)) = e /\ e \in Nat
      <4> HIDE DEF E
      <4> QED BY <1>5, <2>1, <3>1
    <3> HIDE DEF e
    <3>3. 0 + e = e
      BY <3>2
    <3> QED BY <2>3, <3>2, <3>3
  <2> QED BY <2>2, <2>3
<1>8. s + t + h <= e
  BY DEF Covered
<1>9. p + s + (q + t) + ((IF Held(rc) THEN d ELSE 0) + h) <= (IF rc \in events THEN d ELSE 0) + e
  <2> HIDE DEF p, q, s, t, h, e, d
  <2> QED BY <1>1, <1>2, <1>3, <1>4, <1>6, <1>7, <1>8
<1> HIDE DEF p, q, s, t, h, e, d
<1> QED BY <1>2, <1>3, <1>6, <1>7, <1>9 DEF Covered

\* The service is solvent: what it was paid covers what it has paid back, the refunds it
\* still owes and the deposits it holds for live swaps (Solvent).  No deposit is claimed
\* twice or while a swap holds it, and a refund never exceeds its deposit.
THEOREM StaysSolvent == Spec => []Solvent
<1>1. RInv => Solvent
  <2> SUFFICES ASSUME RInv PROVE Solvent
    OBVIOUS
  <2> DEFINE G == {T \in SUBSET TransferReceipt : Covered(T)}
  <2>1. Covered({})
    <3>1. RefundsOfAll({}) = {} /\ {rc \in {} : Held(rc)} = {} /\ {} \cap events = {}
      BY DEF RefundsOfAll
    <3>2. PaidBackOf \in [Refund -> Nat] /\ OwedOf \in [Refund -> Nat] /\ deposits \in [TransferReceipt -> Nat]
      <4>1. deposits \in [TransferReceipt -> Nat] /\ TypeOK
        BY DEF RInv, IInv, TypeOK
      <4>2. \A r \in Refund : RefundAmount(r) \in Nat /\ refunded[r] \in Nat
                                /\ refund_queue[r] + in_flight[r] \in Nat
        BY <4>1, RefundWithinDeposit DEF TypeOK
      <4>3. \A a, b \in Nat : a * b \in Nat
        OBVIOUS
      <4> QED BY <4>1, <4>2, <4>3 DEF PaidBackOf, OwedOf
    <3>3. /\ SumFunctionOnSet(PaidBackOf, {}) = 0 /\ SumFunctionOnSet(OwedOf, {}) = 0
          /\ SumFunctionOnSet(deposits, {}) = 0
      BY <3>2, FiniteReceipts, SumSteps
    <3> QED BY <3>1, <3>3 DEF Covered
  <2>2. ASSUME NEW T \in SUBSET TransferReceipt, T # {}, \A rc \in T : T \ {rc} \in G PROVE T \in G
    <3>1. PICK rc \in T : TRUE
      BY <2>2
    <3>2. Covered(T \ {rc})
      BY <2>2, <3>1
    <3> QED BY <3>1, <3>2, OneMoreCovered
  <2>3. TransferReceipt \in G
    <3>1. {} \in G
      BY <2>1
    <3> HIDE DEF G
    <3> QED BY <2>2, <3>1, FiniteReceipts, SubsetInduction
  <2>4. RefundsOfAll(TransferReceipt) = Refund
    BY DEF RefundsOfAll, Refund
  <2>5. TransferReceipt \cap events = events
    BY DEF RInv, IInv, TypeOK
  <2>6. PaidBack = SumFunctionOnSet(PaidBackOf, Refund) /\ Owed = SumFunctionOnSet(OwedOf, Refund)
    <3>1. DOMAIN PaidBackOf = Refund /\ DOMAIN OwedOf = Refund
      BY DEF PaidBackOf, OwedOf
    <3> QED BY <3>1 DEF PaidBack, Owed, SumFunction, PaidBackOf, OwedOf
  <2> QED BY <2>3, <2>4, <2>5, <2>6 DEF Covered, Solvent, Received, HeldForSwaps
<1> QED BY RefinementInvariant, <1>1, PTL

=============================================================================
