-------------------------- MODULE RaidexNodeProofs --------------------------
(***************************************************************************)
(* The inductive invariant of a raidEX node, for any offers, peers and     *)
(* orders, with the lemmas about its queues and the types of its variables.*)
(* The steps and the theorems are in RaidexNodeTheorems.                   *)
(*                                                                         *)
(* None of the properties of the node is inductive: each of them follows   *)
(* from where an event can be.  A payment is started once because its event*)
(* is queued once, in the step that changes the state of the offer, and is *)
(* taken from the queue when the transfer starts (DepositOnce, SwapOnce); a*)
(* taker is matched once because there is one CommitmentProved event, then *)
(* one listener, then one call (TakerOnce); a payment is believed once     *)
(* because the poll hands it on once (PaymentOnce, Watch).                 *)
(***************************************************************************)
EXTENDS RaidexNode, SequenceTheorems, FiniteSetTheorems, TLAPS

\* The queue holds the event at most once.
Once(q, e) == \A i, j \in DOMAIN q : q[i] = e /\ q[j] = e => i = j

-----------------------------------------------------------------------------
(* The inductive invariant, by the things it is about. *)

\* What may wait in the queues, besides what TypeOK says of them.
StateChange ==
    {NewLimitOrder(x) : x \in OrderIds} \cup {CancelLimitOrder(x) : x \in OrderIds}
    \cup {OfferTimeout(o) : o \in Ids}
    \cup {OfferPublished(o, p) : o \in Ids, p \in Peers \cup {None}}
    \cup {CommitmentProof(o) : o \in Ids} \cup {CancellationProof(o) : o \in Ids}
    \cup {TakerCall(o, p) : o \in OwnIds, p \in Peers}
    \cup {TransferReceived(key) : key \in Keys} \cup {MakeChannel}
Messages ==
    [type : {"Commitment", "ProvenOffer", "SwapExecution", "Cancellation"},
     offer : Ids, target : Peers \cup {CS, "broadcast"}]
ListenerEvents ==
    {ExpectInbound(a, o) : a \in Peers \cup {CS}, o \in Ids} \cup {PaymentReceived(key) : key \in Keys}
QueueTypes ==
    /\ state_changes \in Seq(StateChange)
    /\ cs_events \in Seq(CsEvents)
    /\ trader_events \in Seq(Transfers \cup {OpenChannel})
    /\ transport_events \in Seq(Messages)
    /\ listener_events \in Seq(ListenerEvents)
    /\ orders \in [OrderIds -> Seq(Ids)]
    /\ sent \subseteq Messages

\* The offers a payment to the counterparty was started for.
Exchanged == Pending \cup {"completed"}
Confirmed == {"wait_for_refund", "completed"}

\* What the state of an offer says of its proof, its match and its side.
Progress(o) ==
    /\ offers[o] \in {"proved", "published"} \cup Exchanged => o \in proofs
    /\ offers[o] \in {"proved", "published"} => o \in OwnIds
    /\ offers[o] = "created" => ~ Alive
    /\ offers[o] \in Exchanged => matches[o] \in Peers
    /\ o \in RemoteIds /\ offers[o] \notin {"absent", "created"} => matches[o] \in Peers
    /\ \/ CommitmentProof(o) \in In(state_changes)
       \/ o \in proofs
       => transfers[Deposit(o)] > 0

\* The deposit of an offer: one Commit event, then one transfer event, then one transfer.
DepositOnce(o) ==
    LET commit == <<"Commit", o>> IN
    /\ Once(cs_events, commit) /\ Once(trader_events, Deposit(o)) /\ transfers[Deposit(o)] <= 1
    /\ commit \in In(cs_events) =>
          Deposit(o) \notin In(trader_events) /\ transfers[Deposit(o)] = 0
    /\ Deposit(o) \in In(trader_events) => transfers[Deposit(o)] = 0
    /\ offers[o] \in {"absent", "created"} =>
          /\ commit \notin In(cs_events)
          /\ Deposit(o) \notin In(trader_events) /\ transfers[Deposit(o)] = 0

\* The payment to the counterparty: one transfer event, then one transfer.
SwapOnce(o) ==
    \A p \in Peers :
        LET swap == SwapInit(o, p) IN
        /\ Once(trader_events, swap) /\ transfers[swap] <= 1
        /\ swap \in In(trader_events) => transfers[swap] = 0
        /\ swap \in In(trader_events) \/ transfers[swap] > 0 =>
              offers[o] \in Exchanged /\ matches[o] = p

\* One taker is matched to an offer of the node: from the publication on there is one
\* event, then one listener, then one call, and none of them once the taker is matched.
TakerOnce(o) ==
    LET proved == <<"CommitmentProved", o>> IN
    /\ Once(cs_events, proved) /\ \A p \in Peers : Once(state_changes, TakerCall(o, p))
    /\ proved \in In(cs_events) => o \in OwnIds /\ o \notin taker_listeners
    /\ \A p \in Peers : TakerCall(o, p) \in In(state_changes) =>
          /\ proved \notin In(cs_events) /\ o \notin taker_listeners
          /\ \A q \in Peers : TakerCall(o, q) \in In(state_changes) => p = q
    /\ \/ proved \in In(cs_events) \/ o \in taker_listeners
       \/ \E p \in Peers : TakerCall(o, p) \in In(state_changes)
       => offers[o] \in {"published", "cancellation_requested", "canceled"}

\* A payment the poll has seen is handed on once.
PaymentOnce(key) ==
    /\ Once(listener_events, PaymentReceived(key)) /\ Once(state_changes, TransferReceived(key))
    /\ PaymentReceived(key) \in In(listener_events) => key \in raiden_events
    /\ TransferReceived(key) \in In(state_changes) =>
          key \in raiden_events /\ PaymentReceived(key) \notin In(listener_events)

\* What is expected, and noticed, is a payment of the counterparty or the refund.
Noticed(a, o) == \/ <<a, o>> \in event_filters
                 \/ ExpectInbound(a, o) \in In(listener_events)
                 \/ TransferReceived(<<a, o>>) \in In(state_changes)
Watch(o) ==
    /\ \A a \in Peers : Noticed(a, o) => offers[o] \in Exchanged /\ matches[o] = a
    /\ Noticed(CS, o) => offers[o] \in Confirmed
    /\ \/ <<"ReceivedInbound", o>> \in In(cs_events)
       \/ Message("SwapExecution", o, CS) \in In(transport_events) \cup sent
       => offers[o] \in Confirmed
    /\ offers[o] \in Confirmed =>
          /\ Paid(o)
          /\ TransferReceived(<<matches[o], o>>) \notin In(state_changes)
          /\ PaymentReceived(<<matches[o], o>>) \notin In(listener_events)
    /\ offers[o] = "completed" => <<CS, o>> \in raiden_events
    /\ offers[o] = "exchanging" /\ ~ Paid(o) => Expected(<<matches[o], o>>)
    /\ offers[o] = "wait_for_refund" /\ <<CS, o>> \notin raiden_events =>
          Expected(<<CS, o>>) \/ <<"ReceivedInbound", o>> \in In(cs_events)

\* The offers of an order were made for it and for no other order.
OrderOnce(x) ==
    /\ Once(state_changes, NewLimitOrder(x))
    /\ NewLimitOrder(x) \in In(state_changes) => orders[x] = <<>> /\ x \in asked
    /\ orders[x] # <<>> => x \in asked
    /\ \A o \in In(orders[x]) : offers[o] # "absent"
    /\ \A y \in OrderIds : y # x => In(orders[x]) \cap In(orders[y]) = {}

Offers ==
    /\ \A o \in Ids : Progress(o) /\ DepositOnce(o) /\ SwapOnce(o) /\ TakerOnce(o)
    /\ \A o \in Ids : Watch(o)
    /\ \A key \in Keys : PaymentOnce(key)
    /\ \A x \in OrderIds : OrderOnce(x)

IInv == TypeOK /\ QueueTypes /\ Offers /\ EverythingTimesOut

-----------------------------------------------------------------------------
(* Queues. *)

\* What is in a queue after an event was appended.
LEMMA Appended ==
    ASSUME NEW S, NEW q \in Seq(S), NEW e \in S
    PROVE  /\ Append(q, e) \in Seq(S)
           /\ In(Append(q, e)) = In(q) \cup {e}
           /\ \A x : Once(q, x) /\ (x # e \/ e \notin In(q)) => Once(Append(q, e), x)
<1>1. /\ Append(q, e) \in Seq(S) /\ DOMAIN Append(q, e) = 1 .. Len(q) + 1
      /\ DOMAIN q = 1 .. Len(q) /\ Len(q) \in Nat
      /\ Append(q, e)[Len(q) + 1] = e
      /\ \A i \in 1 .. Len(q) : Append(q, e)[i] = q[i]
  BY AppendProperties, LenProperties
<1> DEFINE a == Append(q, e)
<1> HIDE DEF a
<1>2. In(a) = In(q) \cup {e}
  <2>1. ASSUME NEW x \in In(a) PROVE x \in In(q) \cup {e}
    BY <1>1, <2>1 DEF In, a
  <2>2. ASSUME NEW x \in In(q) \cup {e} PROVE x \in In(a)
    <3>1. CASE x = e
      BY <1>1, <3>1 DEF In, a
    <3>2. CASE x \in In(q)
      <4>1. PICK i \in 1 .. Len(q) : q[i] = x
        BY <1>1, <3>2 DEF In
      <4> QED BY <1>1, <4>1 DEF In, a
    <3> QED BY <2>2, <3>1, <3>2
  <2> QED BY <2>1, <2>2
<1>3. ASSUME NEW x, Once(q, x), x # e \/ e \notin In(q) PROVE Once(a, x)
  <2> SUFFICES ASSUME NEW i \in 1 .. Len(q) + 1, NEW j \in 1 .. Len(q) + 1, a[i] = x, a[j] = x
               PROVE  i = j
    BY <1>1 DEF Once, a
  <2>1. CASE i \in 1 .. Len(q) /\ j \in 1 .. Len(q)
    BY <1>1, <1>3, <2>1 DEF Once, a
  <2>2. CASE i = Len(q) + 1 /\ j # Len(q) + 1
    BY <1>1, <1>3, <2>2 DEF In, a
  <2>3. CASE j = Len(q) + 1 /\ i # Len(q) + 1
    BY <1>1, <1>3, <2>3 DEF In, a
  <2> QED BY <1>1, <2>1, <2>2, <2>3
<1> QED BY <1>1, <1>2, <1>3 DEF a

\* What is in a queue after its first event was taken.
LEMMA Popped ==
    ASSUME NEW S, NEW q \in Seq(S), q # <<>>
    PROVE  /\ Tail(q) \in Seq(S) /\ Head(q) \in S
           /\ In(q) = In(Tail(q)) \cup {Head(q)}
           /\ \A x : Once(q, x) => Once(Tail(q), x)
           /\ Once(q, Head(q)) => Head(q) \notin In(Tail(q))
<1>1. /\ Tail(q) \in Seq(S) /\ Head(q) \in S /\ Head(q) = q[1]
      /\ DOMAIN q = 1 .. Len(q) /\ Len(q) \in Nat /\ Len(q) > 0
      /\ DOMAIN Tail(q) = 1 .. Len(q) - 1
      /\ \A i \in 1 .. Len(q) - 1 : Tail(q)[i] = q[i + 1]
  BY HeadTailProperties, LenProperties, EmptySeq
<1> DEFINE t == Tail(q)  h == Head(q)
<1> HIDE DEF t, h
<1>2. In(q) = In(t) \cup {h}
  <2>1. ASSUME NEW x \in In(q) PROVE x \in In(t) \cup {h}
    <3>1. PICK i \in 1 .. Len(q) : q[i] = x
      BY <1>1, <2>1 DEF In
    <3>2. CASE i = 1
      BY <1>1, <3>1, <3>2 DEF h
    <3>3. CASE i # 1
      <4>1. i - 1 \in 1 .. Len(q) - 1 /\ t[i - 1] = x
        BY <1>1, <3>1, <3>3 DEF t
      <4> QED BY <1>1, <4>1 DEF In, t
    <3> QED BY <3>2, <3>3
  <2>2. ASSUME NEW x \in In(t) PROVE x \in In(q)
    <3>1. PICK i \in 1 .. Len(q) - 1 : t[i] = x
      BY <1>1, <2>2 DEF In, t
    <3>2. i + 1 \in 1 .. Len(q) /\ q[i + 1] = x
      BY <1>1, <3>1 DEF t
    <3> QED BY <1>1, <3>2 DEF In
  <2>3. h \in In(q)
    BY <1>1 DEF In, h
  <2> QED BY <2>1, <2>2, <2>3
<1>3. ASSUME NEW x, Once(q, x) PROVE Once(t, x)
  <2> SUFFICES ASSUME NEW i \in 1 .. Len(q) - 1, NEW j \in 1 .. Len(q) - 1, t[i] = x, t[j] = x
               PROVE  i = j
    BY <1>1 DEF Once, t
  <2>1. i + 1 \in 1 .. Len(q) /\ j + 1 \in 1 .. Len(q) /\ q[i + 1] = x /\ q[j + 1] = x
    BY <1>1 DEF t
  <2>2. i + 1 = j + 1
    BY <1>1, <1>3, <2>1 DEF Once
  <2> QED BY <2>2
<1>4. ASSUME Once(q, h), h \in In(t) PROVE FALSE
  <2>1. PICK i \in 1 .. Len(q) - 1 : t[i] = h
    BY <1>1, <1>4 DEF In, t
  <2>2. i + 1 \in 1 .. Len(q) /\ q[i + 1] = h /\ q[1] = h /\ i + 1 # 1 /\ 1 \in 1 .. Len(q)
    BY <1>1, <2>1 DEF t, h
  <2> QED BY <1>1, <1>4, <2>2 DEF Once
<1> QED BY <1>1, <1>2, <1>3, <1>4 DEF t, h

\* How often an event waits in a queue that holds it at most once.
LEMMA WaitsOnce ==
    ASSUME NEW S, NEW q \in Seq(S), NEW e
    PROVE  /\ Waits(q, e) \in Nat
           /\ e \notin In(q) => Waits(q, e) = 0
           /\ Waits(q, e) = 0 => e \notin In(q)
           /\ Once(q, e) => Waits(q, e) <= 1
<1> DEFINE W == {i \in DOMAIN q : q[i] = e}
<1>1. IsFiniteSet(W) /\ Cardinality(W) \in Nat
  <2>1. DOMAIN q = 1 .. Len(q) /\ Len(q) \in Nat
    BY LenProperties
  <2>2. IsFiniteSet(1 .. Len(q))
    BY <2>1, FS_Interval
  <2> QED BY <2>1, <2>2, FS_Subset, FS_CardinalityType
<1>2. W = {} <=> e \notin In(q)
  BY DEF In
<1>3. Cardinality(W) = 0 <=> W = {}
  BY <1>1, FS_EmptySet
<1>4. ASSUME Once(q, e) PROVE Cardinality(W) <= 1
  <2>1. CASE W = {}
    BY <1>3, <2>1
  <2>2. CASE W # {}
    <3>1. PICK i \in W : TRUE
      BY <2>2
    <3>2. W = {i}
      BY <1>4, <3>1 DEF Once
    <3>3. Cardinality({i}) = 1
      BY FS_Singleton
    <3> HIDE DEF W
    <3> QED BY <3>2, <3>3
  <2> QED BY <2>1, <2>2
<1> HIDE DEF W
<1>5. Waits(q, e) = Cardinality(W)
  BY DEF Waits, W
<1> QED BY <1>1, <1>2, <1>3, <1>4, <1>5

\* What is in a queue after the commitments of some offers were appended.
LEMMA Committed ==
    ASSUME NEW S, NEW q \in Seq(S), NEW s \in Seq(Ids),
           \A o \in Ids : <<"Commit", o>> \in S,
           \A i, j \in DOMAIN s : s[i] = s[j] => i = j
    PROVE  /\ q \o Commits(s) \in Seq(S)
           /\ In(q \o Commits(s)) = In(q) \cup {<<"Commit", o>> : o \in In(s)}
           /\ \A x : Once(q, x) /\ (\A o \in In(s) : x = <<"Commit", o>> => x \notin In(q))
                     => Once(q \o Commits(s), x)
<1> DEFINE n == Len(q)  m == Len(s)  c == Commits(s)  a == q \o c
<1>1. n \in Nat /\ m \in Nat /\ DOMAIN q = 1 .. n /\ DOMAIN s = 1 .. m
  BY LenProperties
<1>2. c \in Seq(S) /\ Len(c) = m /\ \A i \in 1 .. m : c[i] = <<"Commit", s[i]>>
  <2>1. \A i \in 1 .. m : s[i] \in Ids
    BY LenProperties
  <2>2. c = [i \in 1 .. m |-> <<"Commit", s[i]>>]
    BY <1>1 DEF Commits
  <2>3. \A i \in 1 .. m : <<"Commit", s[i]>> \in S
    BY <2>1
  <2> HIDE DEF c, m
  <2>4. c \in Seq(S)
    BY <1>1, <2>2, <2>3
  <2>5. Len(c) = m
    BY <1>1, <2>2
  <2> QED BY <2>2, <2>4, <2>5
<1>3. a \in Seq(S) /\ DOMAIN a = 1 .. n + m
  BY <1>1, <1>2, ConcatProperties, LenProperties
<1>4. /\ \A i \in 1 .. n : i \in 1 .. n + m /\ a[i] = q[i]
      /\ \A k \in 1 .. m : k + n \in 1 .. n + m /\ a[k + n] = <<"Commit", s[k]>>
      /\ \A i \in 1 .. n + m : i \in 1 .. n \/ (i - n \in 1 .. m /\ i = (i - n) + n)
  <2> HIDE DEF c
  <2>1. \A i \in 1 .. n + m : a[i] = IF i <= n THEN q[i] ELSE c[i - n]
    BY <1>2, ConcatProperties
  <2> HIDE DEF a, n, m
  <2>2. ASSUME NEW k \in 1 .. m
        PROVE  k + n \in 1 .. n + m /\ ~ (k + n <= n) /\ (k + n) - n = k
    BY <1>1
  <2>3. ASSUME NEW k \in 1 .. m PROVE a[k + n] = <<"Commit", s[k]>>
    BY <1>2, <2>1, <2>2
  <2>4. ASSUME NEW i \in 1 .. n PROVE i \in 1 .. n + m /\ i <= n
    BY <1>1
  <2>5. ASSUME NEW i \in 1 .. n PROVE a[i] = q[i]
    BY <2>1, <2>4
  <2>6. \A i \in 1 .. n + m : i \in 1 .. n \/ (i - n \in 1 .. m /\ i = (i - n) + n)
    BY <1>1
  <2> QED BY <2>2, <2>3, <2>4, <2>5, <2>6
<1> HIDE DEF n, m, c, a
<1>5. ASSUME NEW x
      PROVE  x \in In(a) <=> \/ \E i \in 1 .. n : q[i] = x
                            \/ \E k \in 1 .. m : x = <<"Commit", s[k]>>
  <2>1. ASSUME NEW i \in 1 .. n + m, a[i] = x
        PROVE  (\E j \in 1 .. n : q[j] = x) \/ (\E k \in 1 .. m : x = <<"Commit", s[k]>>)
    <3>1. CASE i \in 1 .. n
      BY <1>4, <2>1, <3>1
    <3>2. CASE i - n \in 1 .. m /\ i = (i - n) + n
      <4>1. PICK k \in 1 .. m : i = k + n
        BY <3>2
      <4> QED BY <1>4, <2>1, <4>1
    <3> QED BY <1>4, <3>1, <3>2
  <2>2. ASSUME NEW i \in 1 .. n, q[i] = x PROVE x \in In(a)
    BY <1>3, <1>4, <2>2 DEF In
  <2>3. ASSUME NEW k \in 1 .. m, x = <<"Commit", s[k]>> PROVE x \in In(a)
    <3>1. k + n \in DOMAIN a /\ a[k + n] = x
      BY <1>3, <1>4, <2>3
    <3> QED BY <3>1 DEF In
  <2>4. ASSUME x \in In(a) PROVE \E i \in 1 .. n + m : a[i] = x
    BY <1>3, <2>4 DEF In
  <2> QED BY <2>1, <2>2, <2>3, <2>4
<1>6. In(a) = In(q) \cup {<<"Commit", o>> : o \in In(s)}
  <2>1. ASSUME NEW x PROVE x \in In(q) <=> \E i \in 1 .. n : q[i] = x
    BY <1>1 DEF In
  <2>2. ASSUME NEW x
        PROVE  x \in {<<"Commit", o>> : o \in In(s)} <=> \E k \in 1 .. m : x = <<"Commit", s[k]>>
    BY <1>1 DEF In
  <2> QED BY <1>5, <2>1, <2>2
<1>7. ASSUME NEW x, Once(q, x), \A o \in In(s) : x = <<"Commit", o>> => x \notin In(q)
      PROVE  Once(a, x)
  <2> SUFFICES ASSUME NEW i \in 1 .. n + m, NEW j \in 1 .. n + m, a[i] = x, a[j] = x
               PROVE  i = j
    BY <1>3 DEF Once
  <2>1. ASSUME NEW k \in 1 .. m, NEW i1 \in 1 .. n, x = <<"Commit", s[k]>>, q[i1] = x PROVE FALSE
    BY <1>1, <1>7, <2>1 DEF In
  <2>2. CASE i \in 1 .. n /\ j \in 1 .. n
    BY <1>1, <1>4, <1>7, <2>2 DEF Once
  <2>3. ASSUME NEW k \in 1 .. m, i = k + n, j \in 1 .. n PROVE FALSE
    BY <1>4, <2>1, <2>3
  <2>4. ASSUME NEW k \in 1 .. m, j = k + n, i \in 1 .. n PROVE FALSE
    BY <1>4, <2>1, <2>4
  <2>5. ASSUME NEW k \in 1 .. m, NEW l \in 1 .. m, i = k + n, j = l + n PROVE i = j
    <3>1. <<"Commit", s[k]>> = <<"Commit", s[l]>>
      BY <1>4, <2>5
    <3>2. s[k] = s[l]
      BY <3>1
    <3> QED BY <1>1, <2>5, <3>2
  <2>6. /\ i \in 1 .. n \/ \E k \in 1 .. m : i = k + n
        /\ j \in 1 .. n \/ \E k \in 1 .. m : j = k + n
    BY <1>4
  <2> QED BY <2>2, <2>3, <2>4, <2>5, <2>6
<1> QED BY <1>3, <1>6, <1>7 DEF a, c

\* Joining two sequences joins what is in them.
LEMMA Joined ==
    ASSUME NEW S, NEW s \in Seq(S), NEW t \in Seq(S)
    PROVE  s \o t \in Seq(S) /\ In(s \o t) = In(s) \cup In(t)
<1>1. s \o t \in Seq(S)
  BY ConcatProperties
<1>2. Range(s \o t) = Range(s) \cup Range(t)
  BY RangeConcatenation
<1>3. In(s \o t) = Range(s \o t) /\ In(s) = Range(s) /\ In(t) = Range(t)
  BY DEF In, Range
<1> QED BY <1>1, <1>2, <1>3

-----------------------------------------------------------------------------
(* State changes and the other events. *)

\* The fields of a state change.
LEMMA Fields ==
    /\ \A x : NewLimitOrder(x).type = "NewLimitOrder" /\ NewLimitOrder(x).order = x
    /\ \A x : CancelLimitOrder(x).type = "CancelLimitOrder" /\ CancelLimitOrder(x).order = x
    /\ \A o : OfferTimeout(o).type = "OfferTimeout" /\ OfferTimeout(o).offer = o
    /\ \A o, p : /\ OfferPublished(o, p).type = "OfferPublished"
                 /\ OfferPublished(o, p).offer = o /\ OfferPublished(o, p).initiator = p
    /\ \A o : CommitmentProof(o).type = "CommitmentProof" /\ CommitmentProof(o).offer = o
    /\ \A o : CancellationProof(o).type = "CancellationProof" /\ CancellationProof(o).offer = o
    /\ \A o, p : /\ TakerCall(o, p).type = "TakerCall"
                 /\ TakerCall(o, p).offer = o /\ TakerCall(o, p).initiator = p
    /\ \A key : /\ TransferReceived(key).type = "TransferReceived"
                /\ TransferReceived(key).offer = key[2] /\ TransferReceived(key).initiator = key[1]
    /\ MakeChannel.type = "MakeChannel"
BY DEF NewLimitOrder, CancelLimitOrder, OfferTimeout, OfferPublished, CommitmentProof,
       CancellationProof, TakerCall, TransferReceived, MakeChannel

\* State changes have their types.
LEMMA StateChangeTypes ==
    /\ \A x \in OrderIds : NewLimitOrder(x) \in StateChange /\ CancelLimitOrder(x) \in StateChange
    /\ \A o \in Ids : /\ OfferTimeout(o) \in StateChange /\ CommitmentProof(o) \in StateChange
                      /\ CancellationProof(o) \in StateChange
    /\ \A o \in Ids, p \in Peers \cup {None} : OfferPublished(o, p) \in StateChange
    /\ \A o \in OwnIds, p \in Peers : TakerCall(o, p) \in StateChange
    /\ \A key \in Keys : TransferReceived(key) \in StateChange
    /\ MakeChannel \in StateChange
BY DEF StateChange

\* The state change the node handles, by its type.
LEMMA Handled ==
    ASSUME QueueTypes, state_changes # <<>>
    PROVE  /\ sc.type = "NewLimitOrder" => \E x \in OrderIds : sc = NewLimitOrder(x)
           /\ sc.type = "CancelLimitOrder" => \E x \in OrderIds : sc = CancelLimitOrder(x)
           /\ sc.type = "OfferTimeout" => \E o \in Ids : sc = OfferTimeout(o)
           /\ sc.type = "OfferPublished" =>
                \E o \in Ids, p \in Peers \cup {None} : sc = OfferPublished(o, p)
           /\ sc.type = "CommitmentProof" => \E o \in Ids : sc = CommitmentProof(o)
           /\ sc.type = "CancellationProof" => \E o \in Ids : sc = CancellationProof(o)
           /\ sc.type = "TakerCall" => \E o \in OwnIds, p \in Peers : sc = TakerCall(o, p)
           /\ sc.type = "TransferReceived" => \E key \in Keys : sc = TransferReceived(key)
<1>1. sc \in StateChange
  BY Popped DEF QueueTypes, sc
<1>2. \/ \E x \in OrderIds : sc = NewLimitOrder(x) \/ sc = CancelLimitOrder(x)
      \/ \E o \in Ids : sc = OfferTimeout(o) \/ sc = CommitmentProof(o) \/ sc = CancellationProof(o)
      \/ \E o \in Ids, p \in Peers \cup {None} : sc = OfferPublished(o, p)
      \/ \E o \in OwnIds, p \in Peers : sc = TakerCall(o, p)
      \/ \E key \in Keys : sc = TransferReceived(key)
      \/ sc = MakeChannel
  BY <1>1 DEF StateChange
<1> QED BY <1>2, Fields

\* Handling a state change takes it from the queue.
LEMMA HandlingPops ==
    ASSUME QueueTypes, state_changes # <<>>, state_changes' = Tail(state_changes)
    PROVE  /\ state_changes' \in Seq(StateChange)
           /\ In(state_changes) = In(state_changes') \cup {sc}
           /\ \A x : Once(state_changes, x) => Once(state_changes', x)
           /\ Once(state_changes, sc) => sc \notin In(state_changes')
BY Popped DEF QueueTypes, sc

\* An exception ends the node: nothing is in the queue then.
LEMMA RaiseClears ==
    ASSUME state_changes' = <<>>
    PROVE  /\ state_changes' \in Seq(StateChange)
           /\ In(state_changes') = {} /\ \A x : Once(state_changes', x)
BY DEF In, Once

\* Dispatching a state change to the node.
LEMMA Dispatched ==
    ASSUME QueueTypes, NEW e \in StateChange, Dispatch(e)
    PROVE  /\ state_changes' \in Seq(StateChange)
           /\ In(state_changes) \subseteq In(state_changes')
           /\ In(state_changes') \subseteq In(state_changes) \cup {e}
           /\ Alive => e \in In(state_changes')
           /\ \A x : Once(state_changes, x) /\ (x # e \/ e \notin In(state_changes))
                     => Once(state_changes', x)
<1>1. CASE "node" \in consumers
  BY <1>1, Appended DEF QueueTypes, Dispatch
<1>2. CASE "node" \notin consumers
  BY <1>2 DEF QueueTypes, Dispatch, Alive
<1> QED BY <1>1, <1>2

\* The other events have their types, and different events are different.
LEMMA EventTypes ==
    /\ \A o \in Ids : /\ <<"Commit", o>> \in CsEvents /\ <<"CommitmentProved", o>> \in CsEvents
                      /\ <<"ReceivedInbound", o>> \in CsEvents
                      /\ <<"CancellationRequest", o>> \in CsEvents
    /\ \A o \in Ids : Deposit(o) \in Transfers
    /\ \A o \in Ids, p \in Peers : SwapInit(o, p) \in Transfers
    /\ \A o \in Ids : /\ Message("Commitment", o, CS) \in Messages
                      /\ Message("SwapExecution", o, CS) \in Messages
                      /\ Message("Cancellation", o, CS) \in Messages
                      /\ Message("ProvenOffer", o, "broadcast") \in Messages
    /\ \A o \in Ids, p \in Peers : Message("ProvenOffer", o, p) \in Messages
    /\ \A o \in Ids, a \in Peers \cup {CS} : ExpectInbound(a, o) \in ListenerEvents
    /\ \A key \in Keys : PaymentReceived(key) \in ListenerEvents
BY DEF CsEvents, Deposit, SwapInit, Transfers, Message, Messages, ListenerEvents

\* The transfers are different for different offers and targets.
LEMMA TransfersDiffer ==
    /\ \A o, p : Deposit(o) = Deposit(p) => o = p
    /\ \A o, p, q : Deposit(o) # SwapInit(p, q)
    /\ \A o, p, q, r : SwapInit(o, p) = SwapInit(q, r) => o = q /\ p = r
    /\ \A o, p : Deposit(o) # OpenChannel /\ SwapInit(o, p) # OpenChannel
    /\ OpenChannel \notin Transfers
    /\ \A t \in Transfers : \/ \E o \in Ids : t = Deposit(o)
                            \/ \E o \in Ids, p \in Peers : t = SwapInit(o, p)
<1>1. /\ \A o : Deposit(o).kind = "deposit" /\ Deposit(o).offer = o
      /\ \A o, p : /\ SwapInit(o, p).kind = "swap"
                   /\ SwapInit(o, p).offer = o /\ SwapInit(o, p).target = p
      /\ OpenChannel.kind = "channel"
      /\ \A t \in Transfers : t.kind \in {"deposit", "swap"}
  BY DEF Deposit, SwapInit, OpenChannel, Transfers
<1>2. ASSUME NEW t \in Transfers
      PROVE  \/ \E o \in Ids : t = Deposit(o)
             \/ \E o \in Ids, p \in Peers : t = SwapInit(o, p)
  BY DEF Deposit, SwapInit, Transfers
<1> QED BY <1>1, <1>2

\* The events of the listener are different for different keys.
LEMMA ListenerEventsDiffer ==
    /\ \A a, o, key : ExpectInbound(a, o) # PaymentReceived(key)
    /\ \A a, o, b, p : ExpectInbound(a, o) = ExpectInbound(b, p) => a = b /\ o = p
    /\ \A key, k : PaymentReceived(key) = PaymentReceived(k) => key = k
    /\ \A a, o : /\ ExpectInbound(a, o).type = "ExpectInbound"
                 /\ ExpectInbound(a, o).key = <<a, o>>
    /\ \A key : PaymentReceived(key).type = "PaymentReceived" /\ PaymentReceived(key).key = key
<1>1. /\ \A a, o : /\ ExpectInbound(a, o).type = "ExpectInbound"
                   /\ ExpectInbound(a, o).key = <<a, o>>
      /\ \A key : PaymentReceived(key).type = "PaymentReceived" /\ PaymentReceived(key).key = key
  BY DEF ExpectInbound, PaymentReceived
<1>2. \A a, o, b, p : <<a, o>> = <<b, p>> => a = b /\ o = p
  OBVIOUS
<1> QED BY <1>1, <1>2

\* The messages are different for different types, offers and targets.
LEMMA MessagesDiffer ==
    \A t, o, a, u, p, b : Message(t, o, a) = Message(u, p, b) => t = u /\ o = p /\ a = b
<1>1. \A t, o, a : /\ Message(t, o, a).type = t /\ Message(t, o, a).offer = o
                   /\ Message(t, o, a).target = a
  BY DEF Message
<1> QED BY <1>1

\* The offers an order takes and the one it makes.
LEMMA TakenAndMade ==
    ASSUME NEW take \in Takes, NEW make \in Makes
    PROVE  /\ take \in Seq(Ids) /\ In(take) \subseteq RemoteIds
           /\ \A o \in In(take) : offer_book[o] # None
           /\ make \in Seq(Ids) /\ In(make) \subseteq OwnIds
           /\ \A o \in In(make) : offers[o] = "absent"
           /\ take \o make \in Seq(Ids) /\ In(take \o make) = In(take) \cup In(make)
           /\ \A i, j \in DOMAIN (take \o make) : (take \o make)[i] = (take \o make)[j] => i = j
<1>1. PICK n \in 0 .. Cardinality(RemoteIds) : take \in [1 .. n -> RemoteIds]
  BY DEF Takes
<1>2. n \in Nat
  BY <1>1, FS_CardinalityType, RemoteIdsAssumption
<1>3. /\ take \in Seq(RemoteIds) /\ take \in Seq(Ids) /\ DOMAIN take = 1 .. n /\ Len(take) = n
  BY <1>1, <1>2 DEF Ids
<1>4. /\ \A i, j \in 1 .. n : take[i] = take[j] => i = j
      /\ \A i \in 1 .. n : take[i] \in RemoteIds /\ offer_book[take[i]] # None
  BY <1>1, <1>3 DEF Takes
<1>5. In(take) \subseteq RemoteIds /\ \A o \in In(take) : offer_book[o] # None
  BY <1>3, <1>4 DEF In
<1>6. CASE make = <<>>
  <2>1. take \o make = take /\ make \in Seq(Ids)
    BY <1>3, <1>6, ConcatEmptySeq
  <2>2. In(make) = {}
    BY <1>6 DEF In
  <2> QED BY <1>3, <1>4, <1>5, <2>1, <2>2
<1>7. CASE \E o \in OwnIds : offers[o] = "absent" /\ make = <<o>>
  <2>1. PICK o \in OwnIds : offers[o] = "absent" /\ make = <<o>>
    BY <1>7
  <2>2. make \in Seq(Ids) /\ Len(make) = 1 /\ make[1] = o /\ DOMAIN make = 1 .. 1
    BY <2>1 DEF Ids
  <2>3. In(make) = {o}
    BY <2>2 DEF In
  <2>4. take \o make \in Seq(Ids) /\ In(take \o make) = In(take) \cup In(make)
    BY <1>3, <2>2, Joined
  <2>5. /\ DOMAIN (take \o make) = 1 .. n + 1
        /\ \A i \in 1 .. n : (take \o make)[i] = take[i]
        /\ (take \o make)[n + 1] = o
    <3> DEFINE c == take \o make
    <3>1. /\ c \in Seq(Ids) /\ Len(c) = n + 1
          /\ \A i \in 1 .. n + 1 : c[i] = IF i <= n THEN take[i] ELSE make[i - n]
      <4>1. /\ c \in Seq(Ids) /\ Len(c) = Len(take) + Len(make)
            /\ \A i \in 1 .. Len(take) + Len(make) :
                  c[i] = IF i <= Len(take) THEN take[i] ELSE make[i - Len(take)]
        BY <1>3, <2>2, ConcatProperties
      <4>2. Len(take) = n /\ Len(make) = 1
        BY <1>3, <2>2
      <4> HIDE DEF c
      <4> QED BY <4>1, <4>2
    <3>2. DOMAIN c = 1 .. n + 1
      BY <3>1, LenProperties
    <3> HIDE DEF c
    <3>3. \A i \in 1 .. n : i \in 1 .. n + 1 /\ i <= n
      BY <1>2
    <3>4. n + 1 \in 1 .. n + 1 /\ ~ (n + 1 <= n) /\ (n + 1) - n = 1
      BY <1>2
    <3>5. c[n + 1] = o
      BY <2>2, <3>1, <3>4
    <3>6. \A i \in 1 .. n : c[i] = take[i]
      BY <3>1, <3>3
    <3> QED BY <3>2, <3>5, <3>6 DEF c
  <2>6. \A i \in 1 .. n + 1 : i \in 1 .. n \/ i = n + 1
    BY <1>2
  <2>7. \A i \in 1 .. n : take[i] # o
    BY <1>4, IdsAssumption
  <2> DEFINE all == take \o make
  <2> HIDE DEF all
  <2>8. \A i, j \in 1 .. n + 1 : all[i] = all[j] => i = j
    BY <1>4, <2>5, <2>6, <2>7 DEF all
  <2> QED BY <1>3, <1>5, <2>1, <2>2, <2>3, <2>4, <2>5, <2>8 DEF all
<1> QED BY <1>6, <1>7 DEF Makes

\* What initiating the offers of an order does to the queue of commitments.
LEMMA Initiated ==
    ASSUME QueueTypes, NEW x \in OrderIds, NEW take \in Takes, NEW make \in Makes,
           Initiate(x, take, make)
    PROVE  LET all == In(take) \cup In(make) IN
           /\ orders' = [orders EXCEPT ![x] = take \o make]
           /\ take \o make \in Seq(Ids) /\ In(take \o make) = all
           /\ all \subseteq Ids
           /\ matches' = [o \in Ids |-> IF o \in In(take) THEN offer_book[o] ELSE matches[o]]
           /\ offer_book' = [o \in RemoteIds |-> IF o \in In(take) THEN None ELSE offer_book[o]]
           /\ timers' = [o \in Ids |-> IF o \in all THEN "running" ELSE timers[o]]
           /\ cs_events' \in Seq(CsEvents)
           /\ In(cs_events') = In(cs_events) \cup {<<"Commit", o>> : o \in all}
           /\ \A e : /\ Once(cs_events, e)
                     /\ \A o \in all : e = <<"Commit", o>> => e \notin In(cs_events)
                     => Once(cs_events', e)
           /\ UNCHANGED <<proofs, trader_events, transport_events, listener_events>>
<1>1. /\ take \o make \in Seq(Ids) /\ In(take \o make) = In(take) \cup In(make)
      /\ \A i, j \in DOMAIN (take \o make) : (take \o make)[i] = (take \o make)[j] => i = j
      /\ In(take) \subseteq Ids /\ In(make) \subseteq Ids
  BY TakenAndMade DEF Ids
<1> DEFINE s == take \o make
<1>2. cs_events \in Seq(CsEvents) /\ \A o \in Ids : <<"Commit", o>> \in CsEvents
  BY EventTypes DEF QueueTypes
<1>3. cs_events' = cs_events \o Commits(s)
  BY DEF Initiate
<1>4. s \in Seq(Ids) /\ \A i, j \in DOMAIN s : s[i] = s[j] => i = j
  BY <1>1
<1> HIDE DEF s
<1>5. /\ cs_events' \in Seq(CsEvents)
      /\ In(cs_events') = In(cs_events) \cup {<<"Commit", o>> : o \in In(s)}
      /\ \A e : /\ Once(cs_events, e)
                /\ \A o \in In(s) : e = <<"Commit", o>> => e \notin In(cs_events)
                => Once(cs_events', e)
  BY <1>2, <1>3, <1>4, Committed
<1>6. In(s) = In(take) \cup In(make)
  BY <1>1 DEF s
<1> QED BY <1>1, <1>5, <1>6 DEF Initiate

-----------------------------------------------------------------------------
(* Types. *)

\* Handling a state change either ends with it taken from the queue or ends the node.
LEMMA Handler ==
    ASSUME HandleStateChange
    PROVE  /\ Alive /\ state_changes # <<>>
           /\ UNCHANGED <<event_filters, taker_listeners, raiden_events, transfers, sent, asked, heard>>
           /\ \/ state_changes' = Tail(state_changes) /\ consumers' = consumers
              \/ state_changes' = <<>> /\ consumers' = consumers \ {"node"}
<1>1. /\ Alive /\ state_changes # <<>> /\ (Done \/ Raise)
  BY DEF HandleStateChange, HandleNewLimitOrder, HandleNewLimitOrderRaises, HandleCancelLimitOrder,
         HandleCancelClosedOrder, HandleOfferTimeout, HandleOfferTimeoutRaises, HandleEntryTimeout,
         HandleOwnOfferPublished, HandleOwnOfferPublishedRaises, HandleOfferPublished,
         HandleMakerProof, HandleTakerProof, HandleProofRaises, HandleCancellationProof,
         HandleCancellationProofRaises, HandleTakerCall, HandleTakerCallRaises, HandleInbound,
         HandleRefund, HandleMakeChannel, Handling, Alive
<1> QED BY <1>1 DEF Done, Raise, outside

\* What is in the queues has its type.
LEMMA QueuesTyped ==
    ASSUME QueueTypes
    PROVE  /\ \A x \in OrderIds : In(orders[x]) \subseteq Ids
           /\ In(cs_events) \subseteq CsEvents
           /\ In(trader_events) \subseteq Transfers \cup {OpenChannel}
<1>1. ASSUME NEW S, NEW q \in Seq(S) PROVE In(q) \subseteq S
  BY LenProperties DEF In
<1> QED BY <1>1 DEF QueueTypes

\* The types that are not those of a queue.
StateTypes ==
    /\ offers \in [Ids -> OfferStates \cup {"absent"}]
    /\ proofs \subseteq Ids
    /\ matches \in [Ids -> Peers \cup {None}]
    /\ offer_book \in [RemoteIds -> Peers \cup {None}]
    /\ timers \in [Ids -> {"none", "running", "dead"}]
    /\ consumers \subseteq AllConsumers
    /\ event_filters \subseteq Keys
    /\ taker_listeners \subseteq OwnIds
    /\ raiden_events \subseteq Keys
    /\ transfers \in [Transfers -> Nat]

\* The types of the invariant are these.
LEMMA TypeParts == StateTypes /\ QueueTypes <=> TypeOK /\ QueueTypes
BY QueuesTyped DEF StateTypes, TypeOK

\* The types hold initially.
LEMMA TypeInit ==
    ASSUME Init
    PROVE  StateTypes /\ QueueTypes
<1>1. transfers \in [Transfers -> Nat]
  BY DEF Init
<1>2. StateTypes
  BY <1>1 DEF Init, StateTypes
<1>3. QueueTypes
  BY DEF Init, QueueTypes
<1> QED BY <1>2, <1>3

\* Initiating offers keeps the types.
LEMMA InitiatedTypes ==
    ASSUME StateTypes, QueueTypes, NEW x \in OrderIds, NEW take \in Takes, NEW make \in Makes,
           Initiate(x, take, make)
    PROVE  /\ proofs' \subseteq Ids
           /\ matches' \in [Ids -> Peers \cup {None}]
           /\ offer_book' \in [RemoteIds -> Peers \cup {None}]
           /\ timers' \in [Ids -> {"none", "running", "dead"}]
           /\ cs_events' \in Seq(CsEvents)
           /\ trader_events' \in Seq(Transfers \cup {OpenChannel})
           /\ transport_events' \in Seq(Messages)
           /\ listener_events' \in Seq(ListenerEvents)
           /\ orders' \in [OrderIds -> Seq(Ids)]
<1>1. In(take) \subseteq RemoteIds
  BY TakenAndMade
<1>2. /\ orders' = [orders EXCEPT ![x] = take \o make] /\ take \o make \in Seq(Ids)
      /\ matches' = [o \in Ids |-> IF o \in In(take) THEN offer_book[o] ELSE matches[o]]
      /\ offer_book' = [o \in RemoteIds |-> IF o \in In(take) THEN None ELSE offer_book[o]]
      /\ timers' = [o \in Ids |-> IF o \in In(take) \cup In(make) THEN "running" ELSE timers[o]]
      /\ cs_events' \in Seq(CsEvents)
      /\ UNCHANGED <<proofs, trader_events, transport_events, listener_events>>
  BY Initiated
<1>3. matches' \in [Ids -> Peers \cup {None}]
  BY <1>1, <1>2 DEF StateTypes, Ids
<1>4. offer_book' \in [RemoteIds -> Peers \cup {None}]
  BY <1>2 DEF StateTypes
<1>5. timers' \in [Ids -> {"none", "running", "dead"}]
  BY <1>2 DEF StateTypes
<1>6. orders' \in [OrderIds -> Seq(Ids)]
  BY <1>2 DEF QueueTypes
<1> QED BY <1>2, <1>3, <1>4, <1>5, <1>6 DEF StateTypes, QueueTypes

\* An event for the client of the commitment service.
LEMMA CsEventAdds ==
    ASSUME QueueTypes, NEW kind, NEW o, <<kind, o>> \in CsEvents, CsEvent(kind, o)
    PROVE  /\ cs_events' \in Seq(CsEvents)
           /\ In(cs_events') = In(cs_events) \cup {<<kind, o>>}
           /\ \A x : Once(cs_events, x) /\ (x # <<kind, o>> \/ x \notin In(cs_events))
                     => Once(cs_events', x)
           /\ UNCHANGED <<trader_events, transport_events, listener_events>>
<1> DEFINE e == <<kind, o>>
<1>1. cs_events \in Seq(CsEvents) /\ e \in CsEvents /\ cs_events' = Append(cs_events, e)
  BY DEF QueueTypes, CsEvent
<1> HIDE DEF e
<1>2. /\ cs_events' \in Seq(CsEvents) /\ In(cs_events') = In(cs_events) \cup {e}
      /\ \A x : Once(cs_events, x) /\ (x # e \/ e \notin In(cs_events)) => Once(cs_events', x)
  BY <1>1, Appended
<1> QED BY <1>2 DEF e, CsEvent

\* Each handler keeps the types.
LEMMA HandlerTypes ==
    ASSUME StateTypes, QueueTypes, HandleStateChange
    PROVE  (StateTypes /\ QueueTypes)'
<1>1. /\ state_changes' \in Seq(StateChange) /\ consumers' \subseteq AllConsumers
      /\ event_filters' \subseteq Keys /\ taker_listeners' \subseteq OwnIds
      /\ raiden_events' \subseteq Keys /\ transfers' \in [Transfers -> Nat] /\ sent' \subseteq Messages
      /\ state_changes # <<>>
  BY Handler, HandlingPops, RaiseClears DEF StateTypes, QueueTypes
<1> DEFINE Rest == /\ offers' \in [Ids -> OfferStates \cup {"absent"}]
                   /\ proofs' \subseteq Ids
                   /\ matches' \in [Ids -> Peers \cup {None}]
                   /\ offer_book' \in [RemoteIds -> Peers \cup {None}]
                   /\ timers' \in [Ids -> {"none", "running", "dead"}]
                   /\ cs_events' \in Seq(CsEvents)
                   /\ trader_events' \in Seq(Transfers \cup {OpenChannel})
                   /\ transport_events' \in Seq(Messages)
                   /\ listener_events' \in Seq(ListenerEvents)
                   /\ orders' \in [OrderIds -> Seq(Ids)]
<1> SUFFICES Rest
  BY <1>1 DEF StateTypes, QueueTypes
<1>2. CASE HandleNewLimitOrder
  <2>1. PICK x \in OrderIds : sc.order = x
    BY <1>1, <1>2, Handled, Fields DEF HandleNewLimitOrder, Handling, sc
  <2>2. PICK take \in Takes, make \in Makes :
          /\ Initiate(x, take, make)
          /\ offers' = [o \in Ids |-> IF o \in In(take \o make) THEN "unproved" ELSE offers[o]]
    BY <1>2, <2>1 DEF HandleNewLimitOrder
  <2>3. "unproved" \in OfferStates
    BY DEF OfferStates, Open, Waiting
  <2>4. offers' \in [Ids -> OfferStates \cup {"absent"}]
    BY <2>2, <2>3 DEF StateTypes
  <2> QED BY <2>2, <2>4, Initiated, InitiatedTypes
<1>3. CASE HandleNewLimitOrderRaises
  <2>1. PICK x \in OrderIds : sc.order = x
    BY <1>1, <1>3, Handled, Fields DEF HandleNewLimitOrderRaises, Handling, sc
  <2>2. PICK take \in Takes, o \in RemoteIds :
          /\ Initiate(x, take, <<>>)
          /\ offers' = [p \in Ids |-> CASE p \in In(take) -> "unproved"
                                        [] p = o -> "created"
                                        [] OTHER -> offers[p]]
          /\ o \notin In(take)
    BY <1>3, <2>1 DEF HandleNewLimitOrderRaises
  <2>3. <<>> \in Makes
    BY DEF Makes
  <2>4. offers' = [p \in Ids |-> IF p \in In(take) THEN "unproved"
                                 ELSE IF p = o THEN "created" ELSE offers[p]]
    BY <2>2
  <2>5. "unproved" \in OfferStates /\ "created" \in OfferStates
    BY DEF OfferStates, Open, Waiting
  <2>6. offers' \in [Ids -> OfferStates \cup {"absent"}]
    BY <2>4, <2>5 DEF StateTypes
  <2> QED BY <2>2, <2>3, <2>6, InitiatedTypes
<1>4. CASE HandleCancelLimitOrder
  <2>1. PICK x \in OrderIds : sc.order = x
    BY <1>1, <1>4, Handled, Fields DEF HandleCancelLimitOrder, Handling, sc
  <2>2. PICK i \in DOMAIN orders[x] :
          /\ offers' = [offers EXCEPT ![orders[x][i]] = "cancellation_requested"]
          /\ CsEvent("CancellationRequest", orders[x][i])
    BY <1>4, <2>1 DEF HandleCancelLimitOrder
  <2>3. orders[x][i] \in Ids
    BY QueuesTyped DEF In
  <2>4. UNCHANGED <<proofs, orders, matches, offer_book, timers>>
    BY <1>4 DEF HandleCancelLimitOrder
  <2> QED BY <2>2, <2>3, <2>4, CsEventAdds, EventTypes DEF StateTypes, QueueTypes, OfferStates, Open
<1>5. CASE HandleOfferTimeout
  <2>1. PICK o \in Ids : sc.offer = o
    BY <1>1, <1>5, Handled, Fields DEF HandleOfferTimeout, Handling, sc
  <2> QED BY <1>5, <2>1, CsEventAdds, EventTypes
          DEF HandleOfferTimeout, StateTypes, QueueTypes, OfferStates, Open
<1>6. CASE HandleEntryTimeout
  BY <1>6 DEF HandleEntryTimeout, NoEvents, StateTypes, QueueTypes
<1>7. CASE HandleOwnOfferPublished
  <2>1. PICK o \in Ids : sc.offer = o
    BY <1>1, <1>7, Handled, Fields DEF HandleOwnOfferPublished, Handling, sc
  <2> QED BY <1>7, <2>1, CsEventAdds, EventTypes
          DEF HandleOwnOfferPublished, StateTypes, QueueTypes, OfferStates, Open, Waiting
<1>8. CASE HandleOfferPublished
  <2>1. sc.initiator \in Peers \cup {None}
    BY <1>1, <1>8, Handled, Fields DEF HandleOfferPublished, Handling, sc
  <2> QED BY <1>8, <2>1 DEF HandleOfferPublished, NoEvents, StateTypes, QueueTypes
<1>9. CASE HandleMakerProof
  <2>1. PICK o \in Ids : sc.offer = o
    BY <1>1, <1>9, Handled, Fields DEF HandleMakerProof, Handling, sc
  <2> QED BY <1>9, <2>1, Appended, EventTypes
          DEF HandleMakerProof, StateTypes, QueueTypes, OfferStates, Open, Waiting
<1>10. CASE HandleTakerProof
  <2>1. PICK o \in Ids : sc.offer = o
    BY <1>1, <1>10, Handled, Fields DEF HandleTakerProof, Handling, sc
  <2>2. matches[o] \in Peers
    BY <1>10, <2>1 DEF HandleTakerProof, StateTypes
  <2> QED BY <1>10, <2>1, <2>2, Appended, EventTypes
          DEF HandleTakerProof, Exchange, StateTypes, QueueTypes, OfferStates, Pending
<1>11. CASE HandleCancellationProof
  BY <1>11 DEF HandleCancellationProof, NoEvents, StateTypes, QueueTypes, OfferStates
<1>12. CASE HandleTakerCall
  <2>1. PICK o \in OwnIds, p \in Peers : sc.offer = o /\ sc.initiator = p
    BY <1>1, <1>12, Handled, Fields DEF HandleTakerCall, Handling, sc
  <2>2. o \in Ids
    BY DEF Ids
  <2> QED BY <1>12, <2>1, <2>2, Appended, EventTypes
          DEF HandleTakerCall, Exchange, StateTypes, QueueTypes, OfferStates, Pending
<1>13. CASE HandleTakerCallRaises
  <2>1. sc.initiator \in Peers
    BY <1>1, <1>13, Handled, Fields DEF HandleTakerCallRaises, Handling, sc
  <2> QED BY <1>13, <2>1 DEF HandleTakerCallRaises, NoEvents, StateTypes, QueueTypes
<1>14. CASE HandleInbound
  <2>1. PICK o \in Ids : sc.offer = o
    BY <1>1, <1>14, Handled, Fields DEF HandleInbound, Handling, sc, Keys
  <2> QED BY <1>14, <2>1, CsEventAdds, EventTypes
          DEF HandleInbound, StateTypes, QueueTypes, OfferStates, Pending
<1>15. CASE HandleRefund
  BY <1>15 DEF HandleRefund, NoEvents, StateTypes, QueueTypes, OfferStates
<1>16. CASE HandleMakeChannel
  BY <1>16, Appended DEF HandleMakeChannel, node, StateTypes, QueueTypes
<1>17. CASE UNCHANGED node /\ NoEvents
  BY <1>17 DEF node, NoEvents, StateTypes, QueueTypes
<1>18. \/ HandleNewLimitOrder \/ HandleNewLimitOrderRaises \/ HandleCancelLimitOrder
       \/ HandleOfferTimeout \/ HandleEntryTimeout \/ HandleOwnOfferPublished
       \/ HandleOfferPublished \/ HandleMakerProof \/ HandleTakerProof \/ HandleCancellationProof
       \/ HandleTakerCall \/ HandleTakerCallRaises \/ HandleInbound \/ HandleRefund
       \/ HandleMakeChannel \/ (UNCHANGED node /\ NoEvents)
  BY DEF HandleStateChange, HandleCancelClosedOrder, HandleOfferTimeoutRaises,
         HandleOwnOfferPublishedRaises, HandleProofRaises, HandleCancellationProofRaises
<1> QED BY <1>2, <1>3, <1>4, <1>5, <1>6, <1>7, <1>8, <1>9, <1>10, <1>11, <1>12, <1>13, <1>14,
           <1>15, <1>16, <1>17, <1>18

\* What comes from outside is a state change for the node or a payment for the listener.
LEMMA EnvironmentDispatches ==
    ASSUME Environment
    PROVE  \/ \E key \in Keys : PollPayment(key)
           \/ /\ \E e \in StateChange : Dispatch(e)
              /\ UNCHANGED <<node, consumers, cs_events, trader_events, transport_events,
                             listener_events, event_filters, raiden_events, transfers, sent>>
              /\ taker_listeners' \subseteq taker_listeners
<1> DEFINE Same == /\ UNCHANGED <<node, consumers, cs_events, trader_events, transport_events,
                                  listener_events, event_filters, raiden_events, transfers, sent>>
                   /\ taker_listeners' \subseteq taker_listeners
<1>1. ASSUME NEW x \in OrderIds, PlaceOrder(x) PROVE Dispatch(NewLimitOrder(x)) /\ Same
  BY <1>1 DEF PlaceOrder, on_api_call
<1>2. ASSUME NEW x \in OrderIds, RequestCancel(x) PROVE Dispatch(CancelLimitOrder(x)) /\ Same
  BY <1>2 DEF RequestCancel, on_api_call, outside
<1>3. ASSUME RequestChannel PROVE Dispatch(MakeChannel) /\ Same
  BY <1>3 DEF RequestChannel, on_api_call
<1>4. ASSUME NEW kind, NEW o, NEW e, Hear(kind, o, e) PROVE Dispatch(e) /\ Same
  BY <1>4 DEF Hear
<1>5. ASSUME NEW o \in OwnIds, NEW p \in Peers, HearTaker(o, p) PROVE Dispatch(TakerCall(o, p)) /\ Same
  BY <1>5 DEF HearTaker, outside
<1> HIDE DEF Same
<1>6. \/ \E x \in OrderIds : PlaceOrder(x) \/ RequestCancel(x)
      \/ RequestChannel
      \/ \E o \in RemoteIds, p \in Peers : Hear("offer", o, OfferPublished(o, p))
      \/ \E o \in OwnIds : \/ Hear("offer", o, OfferPublished(o, None))
                           \/ \E p \in Peers : HearTaker(o, p)
      \/ \E o \in Ids : \/ Hear("proof", o, CommitmentProof(o))
                        \/ Hear("cancellation", o, CancellationProof(o))
      \/ \E key \in Keys : PollPayment(key)
  BY DEF Environment, HearOffer, HearOwnOffer, HearCommitmentProof, HearCancellationProof
<1>7. (\E e \in StateChange : Dispatch(e) /\ Same) \/ \E key \in Keys : PollPayment(key)
  BY <1>1, <1>2, <1>3, <1>4, <1>5, <1>6, StateChangeTypes DEF Ids
<1> QED BY <1>7 DEF Same

\* The steps outside the node keep the types.
LEMMA TypeStep ==
    ASSUME StateTypes, QueueTypes, [Next]_vars,
           \A o \in Ids : <<"CommitmentProved", o>> \in In(cs_events) => o \in OwnIds
    PROVE  (StateTypes /\ QueueTypes)'
<1>1. CASE HandleStateChange
  BY <1>1, HandlerTypes
<1>2. CASE CsClient
  <2>1. cs_events # <<>>
    BY <1>2 DEF CsClient, ClientCommit, ClientWaitForTaker, ClientReceivedInbound, ClientCancellation
  <2>2. /\ Head(cs_events) \in CsEvents /\ Tail(cs_events) \in Seq(CsEvents)
        /\ Head(cs_events) \in In(cs_events)
    BY <2>1, Popped DEF QueueTypes
  <2>3. PICK o \in Ids : Head(cs_events)[2] = o /\ Head(cs_events) = <<Head(cs_events)[1], o>>
    BY <2>2 DEF CsEvents
  <2>4. CASE ClientCommit
    BY <2>2, <2>3, <2>4, Appended, EventTypes
       DEF ClientCommit, node, outside, StateTypes, QueueTypes
  <2>5. CASE ClientWaitForTaker
    <3>1. <<"CommitmentProved", o>> \in In(cs_events)
      BY <2>2, <2>3, <2>5 DEF ClientWaitForTaker
    <3> QED BY <2>2, <2>3, <2>5, <3>1 DEF ClientWaitForTaker, node, outside, StateTypes, QueueTypes
  <2>6. CASE ClientReceivedInbound
    BY <2>2, <2>3, <2>6, Appended, EventTypes
       DEF ClientReceivedInbound, node, outside, StateTypes, QueueTypes
  <2>7. CASE ClientCancellation
    BY <2>2, <2>3, <2>7, Appended, EventTypes
       DEF ClientCancellation, node, outside, StateTypes, QueueTypes
  <2> QED BY <1>2, <2>4, <2>5, <2>6, <2>7 DEF CsClient
<1>3. CASE Trader
  <2>1. trader_events # <<>>
    BY <1>3 DEF Trader, StartTransfer, TraderMakeChannel
  <2>2. /\ Head(trader_events) \in Transfers \cup {OpenChannel}
        /\ Tail(trader_events) \in Seq(Transfers \cup {OpenChannel})
    BY <2>1, Popped DEF QueueTypes
  <2>3. CASE StartTransfer
    BY <2>2, <2>3 DEF StartTransfer, node, StateTypes, QueueTypes
  <2>4. CASE TraderMakeChannel
    BY <2>2, <2>4 DEF TraderMakeChannel, node, outside, StateTypes, QueueTypes
  <2> QED BY <1>3, <2>3, <2>4 DEF Trader
<1>4. CASE Transport
  <2>1. transport_events # <<>>
    BY <1>4 DEF Transport, TransportSend, TransportRaises
  <2>2. Head(transport_events) \in Messages /\ Tail(transport_events) \in Seq(Messages)
    BY <2>1, Popped DEF QueueTypes
  <2> QED BY <1>4, <2>2 DEF Transport, TransportSend, TransportRaises, node, outside, StateTypes, QueueTypes
<1>5. CASE RaidenListener
  <2>1. listener_events # <<>>
    BY <1>5 DEF RaidenListener, ListenerExpect, ListenerPayment
  <2>2. Head(listener_events) \in ListenerEvents /\ Tail(listener_events) \in Seq(ListenerEvents)
    BY <2>1, Popped DEF QueueTypes
  <2>3. Head(listener_events).key \in Keys
    <3>1. \/ \E a \in Peers \cup {CS}, o \in Ids : Head(listener_events) = ExpectInbound(a, o)
          \/ \E key \in Keys : Head(listener_events) = PaymentReceived(key)
      BY <2>2 DEF ListenerEvents
    <3>2. \A a \in Peers \cup {CS}, o \in Ids : ExpectInbound(a, o).key \in Keys
      BY DEF ExpectInbound, Keys
    <3> QED BY <3>1, <3>2, ListenerEventsDiffer
  <2>4. CASE ListenerExpect
    BY <2>2, <2>3, <2>4 DEF ListenerExpect, node, outside, StateTypes, QueueTypes
  <2>5. CASE ListenerPayment
    <3>1. state_changes' \in Seq(StateChange)
      BY <2>3, <2>5, Dispatched, StateChangeTypes DEF ListenerPayment, QueueTypes
    <3> QED BY <2>2, <2>5, <3>1 DEF ListenerPayment, node, outside, StateTypes, QueueTypes
  <2> QED BY <1>5, <2>4, <2>5 DEF RaidenListener
<1>6. CASE \E o \in Ids : TimerFires(o)
  <2>1. PICK o \in Ids : TimerFires(o)
    BY <1>6
  <2>2. state_changes' \in Seq(StateChange)
    BY <2>1, Dispatched, StateChangeTypes DEF TimerFires
  <2> QED BY <2>1, <2>2 DEF TimerFires, outside, StateTypes, QueueTypes
<1>7. CASE Environment
  <2>1. CASE /\ \E e \in StateChange : Dispatch(e)
             /\ UNCHANGED <<node, consumers, cs_events, trader_events, transport_events,
                            listener_events, event_filters, raiden_events, transfers, sent>>
             /\ taker_listeners' \subseteq taker_listeners
    <3>1. state_changes' \in Seq(StateChange)
      BY <2>1, Dispatched
    <3> QED BY <2>1, <3>1 DEF node, StateTypes, QueueTypes
  <2>2. CASE \E key \in Keys : PollPayment(key)
    BY <2>2, Appended, EventTypes DEF PollPayment, node, StateTypes, QueueTypes
  <2> QED BY <1>7, <2>1, <2>2, EnvironmentDispatches
<1>8. CASE UNCHANGED vars
  BY <1>8 DEF vars, StateTypes, QueueTypes
<1> QED BY <1>1, <1>2, <1>3, <1>4, <1>5, <1>6, <1>7, <1>8 DEF Next

=============================================================================
