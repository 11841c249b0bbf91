------------------------- MODULE MessageBrokerProofs -------------------------
(***************************************************************************)
(* Proofs about the message broker and its clients, for any clients,       *)
(* topics, listeners and number of messages.                               *)
(*                                                                         *)
(* InOrder is not inductive: it says nothing of the messages that are on   *)
(* the way.  The invariant adds that a queue of the broker holds messages  *)
(* of its topic in the order they were sent, all of them later than what   *)
(* the listeners of the stream have got, and that a listener is only told  *)
(* of by its own stream.  NothingMissed needs that a stream which is ready *)
(* for a listener stays connected, unless it broke or was left by all.     *)
(***************************************************************************)
EXTENDS MessageBroker, SequenceTheorems, TLAPS

\* The positions in a queue increase.
Increasing(q) == \A i, j \in DOMAIN q : i < j => q[i][1] < q[j][1]

\* What is in the queue was sent on the topic, at the position it carries.
Genuine(t, q) == \A m \in In(q) : m[1] \in 1 .. Len(sent[t]) /\ sent[t][m[1]] = m[2]

\* What is in the first queue was sent before all that is in the second.
Before(p, q) == \A m \in In(p), n \in In(q) : m[1] < n[1]

StreamInv(s) ==
    /\ Genuine(s[2], queues[s]) /\ Increasing(queues[s])
    /\ tasks[s] = "closing" => s \in left
    /\ \A l \in In(listeners[s]) : StreamOf(l) = s

InboxInv(l) ==
    /\ Genuine(l.topic, inbox[l]) /\ Increasing(inbox[l])
    /\ \A m \in In(inbox[l]) : m[2] \in l.wants
    /\ Before(inbox[l], queues[StreamOf(l)])

\* A listener whose stream has become ready for it.
ReadyInv(l) ==
    Active(l) /\ StreamOf(l) \notin broken \cup left /\ since[l] <= MaxSent[l.topic] =>
        StreamOf(l) \in connected

IInv ==
    /\ TypeOK
    /\ \A t \in Topics : Len(sent[t]) <= MaxSent[t]
    /\ \A s \in Streams : StreamInv(s)
    /\ \A l \in Listeners : InboxInv(l) /\ ReadyInv(l)
    /\ NothingMissed

-----------------------------------------------------------------------------
(* Queues of messages. *)

\* A message is a pair of a position and a kind.
LEMMA MessagePairs ==
    /\ \A m \in Messages : m = <<m[1], m[2]>> /\ m[1] \in Nat /\ m[2] \in Kinds
    /\ \A t \in Topics, n \in Nat, kind \in Kinds : 1 <= n /\ n <= MaxSent[t] => <<n, kind>> \in Messages
<1>1. ASSUME NEW m \in Messages PROVE m = <<m[1], m[2]>> /\ m[1] \in Nat /\ m[2] \in Kinds
  <2>1. PICK t \in Topics : m \in (1 .. MaxSent[t]) \X Kinds
    BY DEF Messages
  <2>2. MaxSent[t] \in Nat
    BY MaxSentAssumption
  <2> QED BY <2>1, <2>2
<1>2. ASSUME NEW t \in Topics, NEW n \in Nat, NEW kind \in Kinds, 1 <= n, n <= MaxSent[t]
      PROVE  <<n, kind>> \in Messages
  <2>1. MaxSent[t] \in Nat
    BY MaxSentAssumption
  <2>2. <<n, kind>> \in (1 .. MaxSent[t]) \X Kinds
    BY <1>2, <2>1
  <2> QED BY <2>2 DEF Messages
<1> QED BY <1>1, <1>2

\* A message that is later than all in a queue is appended to it.
LEMMA Appended ==
    ASSUME NEW S, NEW q \in Seq(S), NEW e \in S
    PROVE  /\ Append(q, e) \in Seq(S)
           /\ In(Append(q, e)) = In(q) \cup {e}
           /\ Increasing(q) /\ (\A m \in In(q) : m[1] < e[1]) => Increasing(Append(q, e))
<1>1. /\ Append(q, e) \in Seq(S) /\ DOMAIN Append(q, e) = 1 .. Len(q) + 1
      /\ DOMAIN q = 1 .. Len(q) /\ Len(q) \in Nat
      /\ Append(q, e)[Len(q) + 1] = e
      /\ \A i \in 1 .. Len(q) : Append(q, e)[i] = q[i]
  BY AppendProperties, LenProperties
<1> DEFINE a == Append(q, e)  n == Len(q)
<1> HIDE DEF a
<1>2. ASSUME NEW x \in In(a) PROVE x \in In(q) \cup {e}
  BY <1>1, <1>2 DEF In, a
<1>3. ASSUME NEW x \in In(q) PROVE x \in In(a)
  <2>1. PICK i \in 1 .. n : q[i] = x
    BY <1>1, <1>3 DEF In
  <2> QED BY <1>1, <2>1 DEF In, a
<1>4. e \in In(a)
  BY <1>1 DEF In, a
<1>5. ASSUME Increasing(q), \A m \in In(q) : m[1] < e[1] PROVE Increasing(a)
  <2> SUFFICES ASSUME NEW i \in 1 .. n + 1, NEW j \in 1 .. n + 1, i < j PROVE a[i][1] < a[j][1]
    BY <1>1 DEF Increasing, a
  <2>1. i \in 1 .. n /\ a[i] = q[i] /\ q[i] \in In(q)
    BY <1>1 DEF In, a
  <2>2. CASE j = n + 1
    BY <1>1, <1>5, <2>1, <2>2 DEF a
  <2>3. CASE j \in 1 .. n
    BY <1>1, <1>5, <2>1, <2>3 DEF Increasing, a
  <2> QED BY <1>1, <2>2, <2>3
<1> QED BY <1>1, <1>2, <1>3, <1>4, <1>5 DEF a

\* The first message of a queue is taken.
LEMMA Popped ==
    ASSUME NEW S, NEW q \in Seq(S), q # <<>>
    PROVE  /\ Tail(q) \in Seq(S) /\ Head(q) \in S
           /\ In(q) = In(Tail(q)) \cup {Head(q)}
           /\ Increasing(q) => Increasing(Tail(q)) /\ \A m \in In(Tail(q)) : Head(q)[1] < m[1]
<1>1. /\ Tail(q) \in Seq(S) /\ Head(q) \in S /\ Head(q) = q[1]
      /\ DOMAIN q = 1 .. Len(q) /\ Len(q) \in Nat /\ Len(q) > 0
      /\ DOMAIN Tail(q) = 1 .. Len(q) - 1
      /\ \A i \in 1 .. Len(q) - 1 : Tail(q)[i] = q[i + 1]
  BY HeadTailProperties, LenProperties, EmptySeq
<1> DEFINE t == Tail(q)  h == Head(q)
<1> HIDE DEF t, h
<1>2. ASSUME NEW x \in In(t) PROVE \E i \in 1 .. Len(q) - 1 : t[i] = x /\ q[i + 1] = x /\ i + 1 \in DOMAIN q
  <2>1. PICK i \in 1 .. Len(q) - 1 : t[i] = x
    BY <1>1, <1>2 DEF In, t
  <2>2. i + 1 \in 1 .. Len(q) /\ q[i + 1] = x
    BY <1>1, <2>1 DEF t
  <2> QED BY <1>1, <2>1, <2>2
<1>3. In(q) = In(t) \cup {h}
  <2>1. ASSUME NEW x \in In(q) PROVE x \in In(t) \cup {h}
    <3>1. PICK i \in 1 .. Len(q) : q[i] = x
      BY <1>1, <2>1 DEF In
    <3>2. CASE i = 1
      BY <1>1, <3>1, <3>2 DEF h
    <3>3. CASE i # 1
      <4>1. i - 1 \in 1 .. Len(q) - 1 /\ t[i - 1] = x
        BY <1>1, <3>1, <3>3 DEF t
      <4> QED BY <1>1, <4>1 DEF In, t
    <3> QED BY <3>2, <3>3
  <2>2. h \in In(q)
    BY <1>1 DEF In, h
  <2> QED BY <1>2, <2>1, <2>2 DEF In
<1>4. ASSUME Increasing(q), NEW m \in In(t) PROVE h[1] < m[1]
  <2>1. PICK i \in 1 .. Len(q) - 1 : q[i + 1] = m /\ i + 1 \in DOMAIN q
    BY <1>2
  <2>2. 1 < i + 1 /\ 1 \in DOMAIN q
    BY <1>1
  <2> QED BY <1>1, <1>4, <2>1, <2>2 DEF Increasing, h
<1>5. ASSUME Increasing(q) PROVE Increasing(t)
  <2> SUFFICES ASSUME NEW i \in 1 .. Len(q) - 1, NEW j \in 1 .. Len(q) - 1, i < j
               PROVE  t[i][1] < t[j][1]
    BY <1>1 DEF Increasing, t
  <2>1. i + 1 \in DOMAIN q /\ j + 1 \in DOMAIN q /\ i + 1 < j + 1
    BY <1>1
  <2>2. q[i + 1][1] < q[j + 1][1]
    BY <1>5, <2>1 DEF Increasing
  <2> QED BY <1>1, <2>2 DEF t
<1> QED BY <1>1, <1>3, <1>4, <1>5 DEF t, h

\* A listener is taken out of a list that has it.
LEMMA TakenOut ==
    ASSUME NEW S, NEW q \in Seq(S), NEW l, l \in In(q)
    PROVE  Without(q, l) \in Seq(S) /\ In(Without(q, l)) \subseteq In(q)
<1> DEFINE P(i) == q[i] = l /\ \A j \in 1 .. i - 1 : q[j] # l
           k == CHOOSE i \in DOMAIN q : P(i)
           n == Len(q)
           w == [j \in 1 .. n - 1 |-> IF j < k THEN q[j] ELSE q[j + 1]]
<1>1. DOMAIN q = 1 .. n /\ n \in Nat /\ n > 0 /\ \A i \in 1 .. n : q[i] \in S
  BY LenProperties DEF In
<1>2. Without(q, l) = w
  BY DEF Without
<1> HIDE DEF k
<1>3. \A j \in 1 .. n - 1 : w[j] \in In(q) /\ w[j] \in S
  <2>1. \A j \in 1 .. n - 1 : j \in 1 .. n /\ j + 1 \in 1 .. n
    BY <1>1
  <2> QED BY <1>1, <2>1 DEF In
<1>4. n - 1 \in Nat /\ DOMAIN w = 1 .. n - 1
  BY <1>1
<1> HIDE DEF w
<1>5. w \in [1 .. n - 1 -> S]
  BY <1>3 DEF w
<1>6. w \in Seq(S)
  BY <1>4, <1>5
<1>7. In(w) \subseteq In(q)
  BY <1>3, <1>4 DEF In
<1> QED BY <1>2, <1>6, <1>7

-----------------------------------------------------------------------------
(* The parts of the invariant. *)

\* What NothingMissed says of one listener.
Complete(l) ==
    Active(l) /\ StreamOf(l) \notin broken \cup left =>
        \A n \in since[l] + 1 .. Len(sent[l.topic]) :
            sent[l.topic][n] \in l.wants =>
                <<n, sent[l.topic][n]>> \in In(inbox[l]) \cup In(queues[StreamOf(l)])

SentInv == \A t \in Topics : Len(sent[t]) <= MaxSent[t]

\* The invariant is about each stream and each listener by itself.
LEMMA InvParts ==
    IInv <=> /\ TypeOK /\ SentInv
             /\ \A s \in Streams : StreamInv(s)
             /\ \A l \in Listeners : InboxInv(l) /\ ReadyInv(l) /\ Complete(l)
<1>1. NothingMissed <=> \A l \in Listeners : Complete(l)
  BY DEF NothingMissed, Complete
<1> QED BY <1>1 DEF IInv, SentInv

\* The stream of a listener, and the bound that says it is not ready.
LEMMA ListenerFacts ==
    ASSUME NEW l \in Listeners
    PROVE  /\ StreamOf(l) \in Streams /\ StreamOf(l)[2] = l.topic /\ l.topic \in Topics
           /\ MaxSent[l.topic] \in Nat /\ Unready(l) \in Nat /\ Unready(l) = MaxSent[l.topic] + 1
           /\ l.wants \subseteq Kinds
           /\ \A kind \in l.wants : kind \notin l.raises
<1>1. StreamOf(l) \in Streams /\ l.wants \subseteq Kinds /\ l.raises \subseteq Kinds \ l.wants
  BY ListenersAssumption
<1>2. StreamOf(l)[2] = l.topic /\ l.topic \in Topics
  BY <1>1 DEF StreamOf, Streams
<1>3. MaxSent[l.topic] \in Nat
  BY <1>2, MaxSentAssumption
<1> QED BY <1>1, <1>2, <1>3 DEF Unready

\* Initially nothing was sent and nobody listens.
LEMMA InvInit == Init => IInv
<1> SUFFICES ASSUME Init PROVE IInv
  OBVIOUS
<1>1. TypeOK
  <2>1. \A l \in Listeners : Unready(l) \in Nat
    BY ListenerFacts
  <2> QED BY <2>1 DEF Init, TypeOK, TaskStates
<1>2. SentInv
  BY MaxSentAssumption DEF Init, SentInv
<1>3. In(<<>>) = {} /\ Increasing(<<>>)
  BY DEF In, Increasing
<1>4. ASSUME NEW s \in Streams PROVE StreamInv(s)
  BY <1>3 DEF Init, StreamInv, Genuine
<1>5. ASSUME NEW l \in Listeners PROVE InboxInv(l) /\ ReadyInv(l) /\ Complete(l)
  <2>1. StreamOf(l) \in Streams
    BY ListenerFacts
  <2> QED BY <1>3, <2>1 DEF Init, InboxInv, ReadyInv, Complete, Active, Genuine, Before
<1> QED BY <1>1, <1>2, <1>4, <1>5, InvParts

-----------------------------------------------------------------------------
(* The steps. *)

\* A message is sent: it is the latest of all.
LEMMA SendStep ==
    ASSUME IInv, NEW t \in Topics, NEW kind \in Kinds, Send(t, kind)
    PROVE  IInv'
<1>0. /\ TypeOK /\ SentInv
      /\ \A s \in Streams : StreamInv(s)
      /\ \A l \in Listeners : InboxInv(l) /\ ReadyInv(l) /\ Complete(l)
  BY InvParts
<1>a. /\ connected' = connected /\ tasks' = tasks /\ listeners' = listeners /\ inbox' = inbox
      /\ started' = started /\ since' = since /\ broken' = broken /\ left' = left
  BY DEF Send, client, history
<1>k. PICK k \in Nat : k = Len(sent[t]) + 1
  <2>1. Len(sent[t]) \in Nat
    BY <1>0, LenProperties DEF TypeOK
  <2> QED BY <2>1
<1>m. PICK e : e = <<k, kind>>
  OBVIOUS
<1>b. k = Len(sent[t]) + 1 /\ e = <<k, kind>>
  BY <1>k, <1>m
<1>c. e \in Messages /\ e[1] = k /\ e[2] = kind /\ k \in 1 .. MaxSent[t]
  <2>1. Len(sent[t]) \in Nat /\ Len(sent[t]) < MaxSent[t] /\ MaxSent[t] \in Nat
    BY <1>0, LenProperties, MaxSentAssumption DEF TypeOK, Send
  <2> QED BY <1>b, <2>1, MessagePairs
<1>d. /\ sent' \in [Topics -> Seq(Kinds)]
      /\ Len(sent'[t]) = k /\ sent'[t][k] = kind
      /\ \A n \in 1 .. Len(sent[t]) : sent'[t][n] = sent[t][n]
      /\ \A u \in Topics : u # t => sent'[u] = sent[u]
  <2>1. sent[t] \in Seq(Kinds) /\ sent' = [sent EXCEPT ![t] = Append(sent[t], kind)]
    BY <1>0 DEF TypeOK, Send
  <2>2. /\ Append(sent[t], kind) \in Seq(Kinds) /\ Len(Append(sent[t], kind)) = k
        /\ Append(sent[t], kind)[k] = kind
        /\ \A n \in 1 .. Len(sent[t]) : Append(sent[t], kind)[n] = sent[t][n]
    BY <1>b, <2>1, AppendProperties
  <2> QED BY <1>0, <2>1, <2>2 DEF TypeOK
<1>e. \A u \in Topics : /\ Len(sent[u]) \in Nat /\ Len(sent'[u]) \in Nat
                        /\ Len(sent[u]) <= Len(sent'[u])
                        /\ \A n \in 1 .. Len(sent[u]) : sent'[u][n] = sent[u][n]
  <2>1. \A u \in Topics : Len(sent[u]) \in Nat /\ Len(sent'[u]) \in Nat
    BY <1>0, <1>d, LenProperties DEF TypeOK
  <2> QED BY <1>b, <1>d, <2>1
<1>f. ASSUME NEW s \in Streams
      PROVE  /\ s \in connected /\ s[2] = t => queues'[s] = Append(queues[s], e)
             /\ ~ (s \in connected /\ s[2] = t) => queues'[s] = queues[s]
  BY <1>b DEF Send
<1>g. ASSUME NEW u \in Topics, NEW q \in Seq(Messages), Genuine(u, q)
      PROVE  /\ Genuine(u, q)'
             /\ u = t => \A m \in In(q) : m[1] < e[1]
  <2>1. \A m \in In(q) : m[1] \in 1 .. Len(sent[u]) /\ sent[u][m[1]] = m[2]
    BY <1>g DEF Genuine
  <2>2. \A m \in In(q) : m[1] \in 1 .. Len(sent'[u]) /\ sent'[u][m[1]] = m[2]
    BY <1>e, <2>1
  <2>3. u = t => \A m \in In(q) : m[1] < e[1]
    BY <1>b, <1>c, <1>e, <2>1
  <2> QED BY <2>2, <2>3 DEF Genuine
<1>h. \A s \in Streams : /\ s[2] \in Topics /\ queues[s] \in Seq(Messages)
                         /\ Genuine(s[2], queues[s]) /\ Increasing(queues[s])
  BY <1>0 DEF Streams, TypeOK, StreamInv
<1>i. ASSUME NEW s \in Streams, s \in connected, s[2] = t
      PROVE  /\ queues'[s] \in Seq(Messages) /\ Increasing(queues'[s])
             /\ In(queues'[s]) = In(queues[s]) \cup {e}
  <2>1. queues[s] \in Seq(Messages) /\ Increasing(queues[s]) /\ \A m \in In(queues[s]) : m[1] < e[1]
    BY <1>g, <1>h, <1>i
  <2>2. queues'[s] = Append(queues[s], e)
    BY <1>f, <1>i
  <2> QED BY <1>c, <2>1, <2>2, Appended
<1>1. TypeOK'
  <2>1. \A s \in Streams : queues'[s] \in Seq(Messages)
    BY <1>f, <1>h, <1>i
  <2>2. queues' \in [Streams -> Seq(Messages)]
    BY <2>1 DEF Send
  <2>3. \A l \in Listeners : since[l] <= Unready(l)
    BY <1>0 DEF TypeOK
  <2> QED BY <1>0, <1>a, <1>d, <2>2, <2>3 DEF TypeOK, Unready
<1>2. SentInv'
  <2>1. \A u \in Topics : u # t => Len(sent'[u]) <= MaxSent[u]
    BY <1>0, <1>d DEF SentInv
  <2>2. MaxSent[t] \in Nat
    BY MaxSentAssumption
  <2>3. Len(sent'[t]) <= MaxSent[t]
    BY <1>c, <1>d, <2>2
  <2> QED BY <2>1, <2>3 DEF SentInv
<1>3. ASSUME NEW s \in Streams PROVE StreamInv(s)'
  <2>1. CASE s \in connected /\ s[2] = t
    <3>1. \A m \in In(queues[s]) : m[1] \in 1 .. Len(sent'[t]) /\ sent'[t][m[1]] = m[2]
      BY <1>g, <1>h, <2>1 DEF Genuine
    <3>2. e[1] \in 1 .. Len(sent'[t]) /\ sent'[t][e[1]] = e[2]
      BY <1>c, <1>d
    <3>3. Genuine(s[2], queues[s])'
      BY <1>i, <2>1, <3>1, <3>2 DEF Genuine
    <3> QED BY <1>0, <1>a, <1>i, <2>1, <3>3 DEF StreamInv, Increasing
  <2>2. CASE ~ (s \in connected /\ s[2] = t)
    <3>1. Genuine(s[2], queues[s])'
      BY <1>f, <1>g, <1>h, <2>2 DEF Genuine
    <3> QED BY <1>0, <1>a, <1>f, <2>2, <3>1 DEF StreamInv, Increasing
  <2> QED BY <2>1, <2>2
<1>4. ASSUME NEW l \in Listeners PROVE InboxInv(l)' /\ ReadyInv(l)' /\ Complete(l)'
  <2>0. /\ StreamOf(l) \in Streams /\ StreamOf(l)[2] = l.topic /\ l.topic \in Topics
        /\ MaxSent[l.topic] \in Nat /\ Unready(l) = MaxSent[l.topic] + 1
    BY ListenerFacts
  <2>1. inbox[l] \in Seq(Messages) /\ Genuine(l.topic, inbox[l]) /\ Before(inbox[l], queues[StreamOf(l)])
    BY <1>0 DEF TypeOK, InboxInv
  <2>2. Genuine(l.topic, inbox[l])'
    <3>1. \A m \in In(inbox[l]) : m[1] \in 1 .. Len(sent'[l.topic]) /\ sent'[l.topic][m[1]] = m[2]
      BY <1>g, <2>0, <2>1 DEF Genuine
    <3> QED BY <1>a, <3>1 DEF Genuine
  <2>3. Before(inbox[l], queues[StreamOf(l)])'
    <3>1. CASE StreamOf(l) \in connected /\ l.topic = t
      <4>1. \A m \in In(inbox[l]) : m[1] < e[1]
        BY <1>g, <2>0, <2>1, <3>1
      <4> QED BY <1>a, <1>i, <2>0, <2>1, <3>1, <4>1 DEF Before
    <3>2. CASE ~ (StreamOf(l) \in connected /\ l.topic = t)
      BY <1>a, <1>f, <2>0, <2>1, <3>2 DEF Before
    <3> QED BY <3>1, <3>2
  <2>4. InboxInv(l)'
    BY <1>0, <1>a, <2>2, <2>3 DEF InboxInv, Increasing
  <2>5. ReadyInv(l)'
    BY <1>0, <1>a DEF ReadyInv, Active
  <2>6. Complete(l)'
    <3> SUFFICES ASSUME Active(l)', StreamOf(l) \notin broken' \cup left',
                        NEW n \in since'[l] + 1 .. Len(sent'[l.topic]),
                        sent'[l.topic][n] \in l.wants
                 PROVE  <<n, sent'[l.topic][n]>> \in In(inbox'[l]) \cup In(queues'[StreamOf(l)])
      BY DEF Complete
    <3>1. Active(l) /\ StreamOf(l) \notin broken \cup left /\ since'[l] = since[l] /\ since[l] \in Nat
      BY <1>0, <1>a DEF Active, TypeOK
    <3>2. In(queues[StreamOf(l)]) \subseteq In(queues'[StreamOf(l)])
      BY <1>f, <1>i, <2>0
    <3>3. CASE n \in since[l] + 1 .. Len(sent[l.topic])
      <4>1. n \in 1 .. Len(sent[l.topic])
        BY <1>e, <2>0, <3>1, <3>3
      <4>2. sent'[l.topic][n] = sent[l.topic][n]
        BY <1>e, <2>0, <4>1
      <4> QED BY <1>0, <1>a, <3>1, <3>2, <3>3, <4>2 DEF Complete
    <3>4. CASE n \notin since[l] + 1 .. Len(sent[l.topic])
      <4>1. n > Len(sent[l.topic]) /\ n <= Len(sent'[l.topic]) /\ n > since[l] /\ n \in Nat
        BY <1>e, <2>0, <3>1, <3>4
      <4>2. l.topic = t
        BY <1>d, <1>e, <2>0, <4>1
      <4>3. n = k
        BY <1>b, <1>d, <1>e, <4>1, <4>2
      <4>4. since[l] <= MaxSent[l.topic]
        BY <1>c, <2>0, <3>1, <4>1, <4>2, <4>3
      <4>5. StreamOf(l) \in connected
        BY <1>0, <3>1, <4>4 DEF ReadyInv
      <4>6. <<n, sent'[l.topic][n]>> = e
        BY <1>b, <1>d, <4>2, <4>3
      <4> QED BY <1>i, <2>0, <4>2, <4>5, <4>6
    <3> QED BY <3>3, <3>4
  <2> QED BY <2>4, <2>5, <2>6
<1>5. (/\ TypeOK /\ SentInv
       /\ \A s \in Streams : StreamInv(s)
       /\ \A l \in Listeners : InboxInv(l) /\ ReadyInv(l) /\ Complete(l))'
  BY <1>1, <1>2, <1>3, <1>4
<1> QED BY <1>5, InvParts, PTL

\* A step that neither sends nor delivers: the messages stay where they are.
LEMMA Undelivered ==
    ASSUME IInv, UNCHANGED <<sent, queues, inbox>>, TypeOK',
           \A s \in Streams : tasks'[s] = "closing" => s \in left',
           \A s \in Streams : \A l \in In(listeners'[s]) : StreamOf(l) = s,
           \A l \in Listeners : ReadyInv(l)' /\ Complete(l)'
    PROVE  IInv'
<1>0. /\ TypeOK /\ SentInv
      /\ \A s \in Streams : StreamInv(s)
      /\ \A l \in Listeners : InboxInv(l) /\ ReadyInv(l) /\ Complete(l)
  BY InvParts
<1>1. SentInv'
  BY <1>0 DEF SentInv
<1>2. \A s \in Streams : StreamInv(s)'
  BY <1>0 DEF StreamInv, Genuine, Increasing
<1>3. \A l \in Listeners : InboxInv(l)'
  BY <1>0 DEF InboxInv, Genuine, Increasing, Before
<1>4. (/\ TypeOK /\ SentInv
       /\ \A s \in Streams : StreamInv(s)
       /\ \A l \in Listeners : InboxInv(l) /\ ReadyInv(l) /\ Complete(l))'
  BY <1>1, <1>2, <1>3
<1> QED BY <1>4, InvParts, PTL

\* What has been sent on a topic is counted, and within its bound.
LEMMA SentFacts ==
    ASSUME IInv, NEW t \in Topics
    PROVE  Len(sent[t]) \in Nat /\ MaxSent[t] \in Nat /\ Len(sent[t]) <= MaxSent[t]
<1>1. TypeOK /\ SentInv
  BY InvParts
<1> QED BY <1>1, LenProperties, MaxSentAssumption DEF TypeOK, SentInv

\* A listener starts: nothing that it could miss has been sent since it was ready.
LEMMA ListenStep ==
    ASSUME IInv, NEW a \in Listeners, Listen(a)
    PROVE  IInv'
<1>0. /\ TypeOK /\ SentInv
      /\ \A s \in Streams : StreamInv(s)
      /\ \A l \in Listeners : InboxInv(l) /\ ReadyInv(l) /\ Complete(l)
  BY InvParts
<1>a. PICK r \in Streams : r = StreamOf(a)
  BY ListenerFacts
<1>b. /\ sent' = sent /\ connected' = connected /\ queues' = queues /\ inbox' = inbox
      /\ broken' = broken /\ left' = left /\ started' = started \cup {a}
      /\ tasks' = [tasks EXCEPT ![r] = IF tasks[r] = "none" THEN "started" ELSE tasks[r]]
      /\ listeners' = [listeners EXCEPT ![r] = Append(listeners[r], a)]
      /\ since' = [since EXCEPT ![a] = IF r \in connected THEN Len(sent[a.topic]) ELSE Unready(a)]
  BY <1>a DEF Listen, server
<1>c. listeners[r] \in Seq(Listeners)
  BY <1>0 DEF TypeOK
<1>d. Append(listeners[r], a) \in Seq(Listeners) /\ In(Append(listeners[r], a)) = In(listeners[r]) \cup {a}
  BY <1>c, Appended
<1>e. /\ a.topic \in Topics /\ Len(sent[a.topic]) \in Nat /\ Len(sent[a.topic]) <= MaxSent[a.topic]
      /\ MaxSent[a.topic] \in Nat /\ Unready(a) = MaxSent[a.topic] + 1 /\ Unready(a) \in Nat
  BY ListenerFacts, SentFacts
<1>f. since'[a] \in Nat /\ since'[a] <= Unready(a) /\ (\A l \in Listeners : l # a => since'[l] = since[l])
  BY <1>0, <1>b, <1>e DEF TypeOK
<1>g. \A s \in Streams : In(listeners'[s]) = IF s = r THEN In(listeners[s]) \cup {a} ELSE In(listeners[s])
  BY <1>0, <1>b, <1>d DEF TypeOK
<1>1. TypeOK'
  <2>1. tasks' \in [Streams -> TaskStates] /\ listeners' \in [Streams -> Seq(Listeners)]
    BY <1>0, <1>b, <1>d DEF TypeOK, TaskStates
  <2>2. \A l \in Listeners : since'[l] \in Nat /\ since'[l] <= Unready(l)
    BY <1>0, <1>f DEF TypeOK
  <2>3. since' \in [Listeners -> Nat]
    BY <1>0, <1>b, <2>2 DEF TypeOK
  <2> QED BY <1>0, <1>b, <2>1, <2>2, <2>3 DEF TypeOK, Unready
<1>2. \A s \in Streams : tasks'[s] = "closing" => s \in left'
  BY <1>0, <1>b DEF StreamInv, TypeOK
<1>3. \A s \in Streams : \A l \in In(listeners'[s]) : StreamOf(l) = s
  BY <1>0, <1>a, <1>g DEF StreamInv
<1>4. ASSUME NEW l \in Listeners PROVE ReadyInv(l)' /\ Complete(l)'
  <2>0. StreamOf(l) \in Streams /\ l.topic \in Topics
    BY ListenerFacts
  <2>1. CASE l # a
    <3>1. since'[l] = since[l] /\ (Active(l)' => Active(l))
      BY <1>f, <1>g, <2>0, <2>1 DEF Active
    <3>2. ReadyInv(l)'
      BY <1>0, <1>b, <3>1 DEF ReadyInv
    <3>3. Complete(l)'
      BY <1>0, <1>b, <3>1 DEF Complete
    <3> QED BY <3>2, <3>3
  <2>2. CASE l = a /\ r \in connected
    <3>1. since'[l] = Len(sent[l.topic])
      BY <1>0, <1>b, <2>2 DEF TypeOK
    <3>2. since'[l] + 1 .. Len(sent'[l.topic]) = {}
      BY <1>b, <1>e, <2>2, <3>1
    <3>3. ReadyInv(l)'
      BY <1>a, <1>b, <2>2 DEF ReadyInv
    <3>4. Complete(l)'
      BY <3>2 DEF Complete
    <3> QED BY <3>3, <3>4
  <2>3. CASE l = a /\ r \notin connected
    <3>1. since'[l] = MaxSent[l.topic] + 1
      BY <1>0, <1>b, <1>e, <2>3 DEF TypeOK
    <3>2. since'[l] + 1 .. Len(sent'[l.topic]) = {} /\ ~ (since'[l] <= MaxSent[l.topic])
      BY <1>b, <1>e, <2>3, <3>1
    <3>3. ReadyInv(l)'
      BY <3>2 DEF ReadyInv
    <3>4. Complete(l)'
      BY <3>2 DEF Complete
    <3> QED BY <3>3, <3>4
  <2> QED BY <2>1, <2>2, <2>3
<1> QED BY <1>1, <1>2, <1>3, <1>4, <1>b, Undelivered

\* The broker starts to listen for a stream: it is ready for all its listeners from now on.
LEMMA ConnectStep ==
    ASSUME IInv, NEW r \in Streams, Connect(r)
    PROVE  IInv'
<1>0. /\ TypeOK /\ SentInv
      /\ \A s \in Streams : StreamInv(s)
      /\ \A l \in Listeners : InboxInv(l) /\ ReadyInv(l) /\ Complete(l)
  BY InvParts
<1>b. /\ sent' = sent /\ queues' = queues /\ listeners' = listeners /\ inbox' = inbox
      /\ started' = started /\ broken' = broken /\ left' = left
      /\ tasks' = [tasks EXCEPT ![r] = "waiting"] /\ connected' = connected \cup {r}
      /\ since' = [l \in Listeners |-> IF l \in In(listeners[r]) THEN Len(sent[r[2]]) ELSE since[l]]
  BY DEF Connect
<1>c. /\ r[2] \in Topics /\ Len(sent[r[2]]) \in Nat /\ Len(sent[r[2]]) <= MaxSent[r[2]]
      /\ MaxSent[r[2]] \in Nat
  <2>1. r[2] \in Topics
    BY DEF Streams
  <2> QED BY <2>1, SentFacts
<1>d. ASSUME NEW l \in Listeners, l \in In(listeners[r])
      PROVE  StreamOf(l) = r /\ l.topic = r[2] /\ since'[l] = Len(sent[l.topic])
  <2>1. StreamOf(l) = r
    BY <1>0, <1>d DEF StreamInv
  <2>2. l.topic = r[2]
    BY <2>1, ListenerFacts
  <2> QED BY <1>b, <1>d, <2>1, <2>2
<1>e. \A l \in Listeners : l \notin In(listeners[r]) => since'[l] = since[l]
  BY <1>b
<1>1. TypeOK'
  <2>1. ASSUME NEW l \in Listeners PROVE since'[l] \in Nat /\ since'[l] <= Unready(l)
    <3>1. CASE l \in In(listeners[r])
      BY <1>c, <1>d, <3>1, ListenerFacts
    <3>2. CASE l \notin In(listeners[r])
      BY <1>0, <1>e, <3>2 DEF TypeOK
    <3> QED BY <3>1, <3>2
  <2>2. since' \in [Listeners -> Nat]
    BY <1>b, <2>1
  <2> QED BY <1>0, <1>b, <2>1, <2>2 DEF TypeOK, Unready, TaskStates
<1>2. \A s \in Streams : tasks'[s] = "closing" => s \in left'
  BY <1>0, <1>b DEF StreamInv, TypeOK
<1>3. \A s \in Streams : \A l \in In(listeners'[s]) : StreamOf(l) = s
  BY <1>0, <1>b DEF StreamInv
<1>4. ASSUME NEW l \in Listeners PROVE ReadyInv(l)' /\ Complete(l)'
  <2>1. CASE l \in In(listeners[r])
    <3>1. since'[l] + 1 .. Len(sent'[l.topic]) = {}
      BY <1>b, <1>c, <1>d, <2>1
    <3>2. ReadyInv(l)'
      BY <1>b, <1>d, <2>1 DEF ReadyInv
    <3>3. Complete(l)'
      BY <3>1 DEF Complete
    <3> QED BY <3>2, <3>3
  <2>2. CASE l \notin In(listeners[r])
    <3>1. since'[l] = since[l] /\ (Active(l)' => Active(l))
      BY <1>b, <1>e, <2>2 DEF Active
    <3>2. ReadyInv(l)'
      BY <1>0, <1>b, <3>1 DEF ReadyInv
    <3>3. Complete(l)'
      BY <1>0, <1>b, <3>1 DEF Complete
    <3> QED BY <3>2, <3>3
  <2> QED BY <2>1, <2>2
<1> QED BY <1>1, <1>2, <1>3, <1>4, <1>b, Undelivered

\* The request of a stream raises: the stream is broken.
LEMMA ConnectRaisesStep ==
    ASSUME IInv, NEW r \in Streams, ConnectRaises(r)
    PROVE  IInv'
<1>0. /\ TypeOK /\ SentInv
      /\ \A s \in Streams : StreamInv(s)
      /\ \A l \in Listeners : InboxInv(l) /\ ReadyInv(l) /\ Complete(l)
  BY InvParts
<1>b. /\ sent' = sent /\ connected' = connected /\ queues' = queues /\ listeners' = listeners
      /\ inbox' = inbox /\ started' = started /\ since' = since /\ left' = left
      /\ tasks' = [tasks EXCEPT ![r] = "ended"] /\ broken' = broken \cup {r}
  BY DEF ConnectRaises, server
<1>1. TypeOK'
  BY <1>0, <1>b DEF TypeOK, TaskStates, Unready
<1>2. \A s \in Streams : tasks'[s] = "closing" => s \in left'
  BY <1>0, <1>b DEF StreamInv, TypeOK
<1>3. \A s \in Streams : \A l \in In(listeners'[s]) : StreamOf(l) = s
  BY <1>0, <1>b DEF StreamInv
<1>4. ASSUME NEW l \in Listeners PROVE ReadyInv(l)' /\ Complete(l)'
  <2>1. ReadyInv(l)'
    BY <1>0, <1>b DEF ReadyInv, Active
  <2>2. Complete(l)'
    BY <1>0, <1>b DEF Complete, Active
  <2> QED BY <2>1, <2>2
<1> QED BY <1>1, <1>2, <1>3, <1>4, <1>b, Undelivered

\* A listener is stopped: the response is closed only when it was the last.
LEMMA StopListenStep ==
    ASSUME IInv, NEW a \in Listeners, StopListen(a)
    PROVE  IInv'
<1>0. /\ TypeOK /\ SentInv
      /\ \A s \in Streams : StreamInv(s)
      /\ \A l \in Listeners : InboxInv(l) /\ ReadyInv(l) /\ Complete(l)
  BY InvParts
<1>a. PICK r \in Streams : r = StreamOf(a)
  BY ListenerFacts
<1>b. /\ sent' = sent /\ connected' = connected /\ queues' = queues /\ inbox' = inbox
      /\ started' = started /\ since' = since /\ broken' = broken
      /\ listeners' = [listeners EXCEPT ![r] = Without(listeners[r], a)]
      /\ left' = IF listeners'[r] = <<>> THEN left \cup {r} ELSE left
      /\ tasks' = [tasks EXCEPT ![r] = IF listeners'[r] = <<>> /\ tasks[r] = "streaming"
                                       THEN "closing" ELSE tasks[r]]
  BY <1>a DEF StopListen, server
<1>c. Without(listeners[r], a) \in Seq(Listeners) /\ In(Without(listeners[r], a)) \subseteq In(listeners[r])
  <2>1. listeners[r] \in Seq(Listeners) /\ a \in In(listeners[r])
    BY <1>0, <1>a DEF TypeOK, StopListen, Active
  <2> QED BY <2>1, TakenOut
<1>d. \A s \in Streams : In(listeners'[s]) \subseteq In(listeners[s])
  BY <1>0, <1>b, <1>c DEF TypeOK
<1>e. left \subseteq left' /\ left' \subseteq Streams
  BY <1>0, <1>b DEF TypeOK
<1>1. TypeOK'
  <2>1. listeners' \in [Streams -> Seq(Listeners)]
    BY <1>0, <1>b, <1>c DEF TypeOK
  <2>2. tasks' \in [Streams -> TaskStates]
    BY <1>0, <1>b DEF TypeOK, TaskStates
  <2> QED BY <1>0, <1>b, <1>e, <2>1, <2>2 DEF TypeOK, Unready
<1>2. \A s \in Streams : tasks'[s] = "closing" => s \in left'
  BY <1>0, <1>b DEF StreamInv, TypeOK
<1>3. \A s \in Streams : \A l \in In(listeners'[s]) : StreamOf(l) = s
  BY <1>0, <1>d DEF StreamInv
<1>4. ASSUME NEW l \in Listeners PROVE ReadyInv(l)' /\ Complete(l)'
  <2>1. Active(l)' => Active(l)
    BY <1>d, ListenerFacts DEF Active
  <2>2. ReadyInv(l)'
    BY <1>0, <1>b, <1>e, <2>1 DEF ReadyInv
  <2>3. Complete(l)'
    BY <1>0, <1>b, <1>e, <2>1 DEF Complete
  <2> QED BY <2>2, <2>3
<1> QED BY <1>1, <1>2, <1>3, <1>4, <1>b, Undelivered

\* A message is delivered: it is later than what its listeners got, and earlier than what
\* is still on the way.
LEMMA ReceiveStep ==
    ASSUME IInv, NEW r \in Streams, Receive(r)
    PROVE  IInv'
<1>0. /\ TypeOK /\ SentInv
      /\ \A s \in Streams : StreamInv(s)
      /\ \A l \in Listeners : InboxInv(l) /\ ReadyInv(l) /\ Complete(l)
  BY InvParts
<1>a. PICK m : m = Head(queues[r])
  OBVIOUS
<1>b. /\ sent' = sent /\ listeners' = listeners /\ started' = started
      /\ since' = since /\ left' = left
      /\ queues[r] # <<>> /\ queues' = [queues EXCEPT ![r] = Tail(queues[r])]
      /\ Deliver(r, m)
  BY <1>a DEF Receive, LineComplete
<1>c. \/ Raises(r, m[2]) /\ tasks' = [tasks EXCEPT ![r] = "ended"]
         /\ broken' = broken \cup {r} /\ connected' = connected
      \/ ~ Raises(r, m[2]) /\ tasks[r] = "closing" /\ tasks' = [tasks EXCEPT ![r] = "ended"]
         /\ connected' = connected \ {r} /\ broken' = broken
      \/ ~ Raises(r, m[2]) /\ tasks' = [tasks EXCEPT ![r] = "streaming"]
         /\ connected' = connected /\ broken' = broken
  BY <1>a DEF Receive
<1>d. queues[r] \in Seq(Messages) /\ Increasing(queues[r]) /\ Genuine(r[2], queues[r])
  BY <1>0 DEF TypeOK, StreamInv
<1>e. /\ Tail(queues[r]) \in Seq(Messages) /\ m \in Messages
      /\ In(queues[r]) = In(Tail(queues[r])) \cup {m}
      /\ Increasing(Tail(queues[r])) /\ \A x \in In(Tail(queues[r])) : m[1] < x[1]
  BY <1>a, <1>b, <1>d, Popped
<1>f. /\ queues' \in [Streams -> Seq(Messages)] /\ queues'[r] = Tail(queues[r])
      /\ \A s \in Streams : s # r => queues'[s] = queues[s]
  BY <1>0, <1>b, <1>e DEF TypeOK
<1>g. m[1] \in 1 .. Len(sent[r[2]]) /\ sent[r[2]][m[1]] = m[2]
  BY <1>d, <1>e DEF Genuine
<1>h. broken \subseteq broken' /\ broken' \subseteq Streams /\ connected' \subseteq Streams
  BY <1>0, <1>c DEF TypeOK
<1> DEFINE Gets(l) == m[2] \in l.wants /\ \E i \in Reached(r, m[2]) : listeners[r][i] = l
<1>i. \A l \in Listeners : inbox'[l] = IF Gets(l) THEN Append(inbox[l], m) ELSE inbox[l]
  BY <1>b DEF Deliver
<1>j. ASSUME NEW l \in Listeners, Gets(l)
      PROVE  StreamOf(l) = r /\ l.topic = r[2] /\ m[2] \in l.wants
  <2>1. l \in In(listeners[r])
    BY <1>j DEF Reached, In
  <2>2. StreamOf(l) = r
    BY <1>0, <2>1 DEF StreamInv
  <2> QED BY <1>j, <2>2, ListenerFacts
<1>k. ASSUME NEW l \in Listeners, Active(l), StreamOf(l) = r, ~ Raises(r, m[2]), m[2] \in l.wants
      PROVE  Gets(l)
  <2>1. PICK i \in DOMAIN listeners[r] : listeners[r][i] = l
    BY <1>k DEF Active, In
  <2>2. DOMAIN listeners[r] = 1 .. Len(listeners[r]) /\ Len(listeners[r]) \in Nat
    BY <1>0, LenProperties DEF TypeOK
  <2>3. \A j \in 1 .. i : j \in DOMAIN listeners[r]
    BY <2>2
  <2>4. i \in Reached(r, m[2])
    BY <1>k, <2>3 DEF Reached, Raises, In
  <2> QED BY <1>k, <2>1, <2>4
<1> HIDE DEF Gets
<1>l. ASSUME NEW l \in Listeners, Gets(l)
      PROVE  /\ inbox'[l] \in Seq(Messages) /\ In(inbox'[l]) = In(inbox[l]) \cup {m}
             /\ Increasing(inbox'[l])
  <2>1. inbox[l] \in Seq(Messages) /\ Increasing(inbox[l]) /\ Before(inbox[l], queues[r])
    BY <1>0, <1>j, <1>l DEF TypeOK, InboxInv
  <2>2. \A x \in In(inbox[l]) : x[1] < m[1]
    BY <1>e, <2>1 DEF Before
  <2>3. inbox'[l] = Append(inbox[l], m)
    BY <1>i, <1>l
  <2> QED BY <1>e, <2>1, <2>2, <2>3, Appended
<1>1. TypeOK'
  <2>1. \A l \in Listeners : inbox'[l] \in Seq(Messages)
    BY <1>0, <1>i, <1>l DEF TypeOK
  <2>2. inbox' \in [Listeners -> Seq(Messages)]
    BY <1>b, <2>1 DEF Deliver
  <2>3. tasks' \in [Streams -> TaskStates]
    BY <1>0, <1>c DEF TypeOK, TaskStates
  <2> QED BY <1>0, <1>b, <1>f, <1>h, <2>2, <2>3 DEF TypeOK, Unready
<1>2. SentInv'
  BY <1>0, <1>b DEF SentInv
<1>3. ASSUME NEW s \in Streams PROVE StreamInv(s)'
  <2>1. In(queues'[s]) \subseteq In(queues[s]) /\ Increasing(queues'[s])
    BY <1>0, <1>e, <1>f DEF StreamInv
  <2>2. Genuine(s[2], queues[s])'
    BY <1>0, <1>b, <2>1 DEF StreamInv, Genuine
  <2>3. tasks'[s] = "closing" => s \in left'
    BY <1>0, <1>b, <1>c DEF StreamInv, TypeOK
  <2> QED BY <1>0, <1>b, <2>1, <2>2, <2>3 DEF StreamInv, Increasing
<1>4. ASSUME NEW l \in Listeners PROVE InboxInv(l)' /\ ReadyInv(l)' /\ Complete(l)'
  <2>0. /\ StreamOf(l) \in Streams
        /\ Genuine(l.topic, inbox[l]) /\ Increasing(inbox[l])
        /\ \A x \in In(inbox[l]) : x[2] \in l.wants
        /\ Before(inbox[l], queues[StreamOf(l)])
    BY <1>0, ListenerFacts DEF InboxInv
  <2>1. In(queues'[StreamOf(l)]) \subseteq In(queues[StreamOf(l)])
    BY <1>e, <1>f, <2>0
  <2>2. ASSUME Gets(l) PROVE InboxInv(l)'
    <3>1. /\ StreamOf(l) = r /\ l.topic = r[2] /\ m[2] \in l.wants
          /\ In(inbox'[l]) = In(inbox[l]) \cup {m} /\ Increasing(inbox'[l])
      BY <1>j, <1>l, <2>2
    <3>2. Genuine(l.topic, inbox[l])'
      BY <1>b, <1>g, <2>0, <3>1 DEF Genuine
    <3>3. Before(inbox[l], queues[StreamOf(l)])'
      BY <1>e, <1>f, <2>0, <2>1, <3>1 DEF Before
    <3> QED BY <2>0, <3>1, <3>2, <3>3 DEF InboxInv, Increasing
  <2>3. ASSUME ~ Gets(l) PROVE InboxInv(l)'
    <3>1. inbox'[l] = inbox[l]
      BY <1>i, <2>3
    <3>2. Genuine(l.topic, inbox[l])'
      BY <1>b, <2>0, <3>1 DEF Genuine
    <3>3. Before(inbox[l], queues[StreamOf(l)])'
      BY <2>0, <2>1, <3>1 DEF Before
    <3> QED BY <2>0, <3>1, <3>2, <3>3 DEF InboxInv, Increasing
  <2>4. InboxInv(l)'
    BY <2>2, <2>3
  <2>5. ReadyInv(l)'
    BY <1>0, <1>b, <1>c, <1>h DEF ReadyInv, Active, StreamInv
  <2>6. Complete(l)'
    <3> SUFFICES ASSUME Active(l)', StreamOf(l) \notin broken' \cup left',
                        NEW n \in since'[l] + 1 .. Len(sent'[l.topic]),
                        sent'[l.topic][n] \in l.wants
                 PROVE  <<n, sent'[l.topic][n]>> \in In(inbox'[l]) \cup In(queues'[StreamOf(l)])
      BY DEF Complete
    <3>1. Active(l) /\ StreamOf(l) \notin broken \cup left
      BY <1>b, <1>h DEF Active
    <3>2. <<n, sent[l.topic][n]>> \in In(inbox[l]) \cup In(queues[StreamOf(l)])
      BY <1>0, <1>b, <3>1 DEF Complete
    <3>3. In(inbox[l]) \subseteq In(inbox'[l])
      BY <1>i, <1>l
    <3>4. CASE <<n, sent[l.topic][n]>> \in In(inbox[l]) \/ StreamOf(l) # r
      BY <1>b, <1>f, <2>0, <3>2, <3>3, <3>4
    <3>5. CASE <<n, sent[l.topic][n]>> \in In(queues[r]) /\ StreamOf(l) = r
      <4>1. CASE <<n, sent[l.topic][n]>> \in In(Tail(queues[r]))
        BY <1>b, <1>f, <3>5, <4>1
      <4>2. CASE <<n, sent[l.topic][n]>> = m
        <5>1. ~ Raises(r, m[2])
          BY <1>c, <3>5
        <5>2. m[2] \in l.wants
          BY <1>b, <4>2
        <5>3. Gets(l)
          BY <1>k, <3>1, <3>5, <5>1, <5>2
        <5> QED BY <1>b, <1>l, <4>2, <5>3
      <4> QED BY <1>e, <3>5, <4>1, <4>2
    <3> QED BY <3>2, <3>4, <3>5
  <2> QED BY <2>4, <2>5, <2>6
<1>5. (/\ TypeOK /\ SentInv
       /\ \A s \in Streams : StreamInv(s)
       /\ \A l \in Listeners : InboxInv(l) /\ ReadyInv(l) /\ Complete(l))'
  BY <1>1, <1>2, <1>3, <1>4
<1> QED BY <1>5, InvParts, PTL

-----------------------------------------------------------------------------
(* The theorems. *)

\* Every step of the broker and of the clients keeps the invariant.
LEMMA InvStep == IInv /\ [Next]_vars => IInv'
<1> SUFFICES ASSUME IInv, [Next]_vars PROVE IInv'
  OBVIOUS
<1>1. CASE \E t \in Topics, kind \in Kinds : Send(t, kind)
  BY <1>1, SendStep
<1>2. CASE \E l \in Listeners : Listen(l) \/ StopListen(l)
  BY <1>2, ListenStep, StopListenStep
<1>3. CASE \E s \in Streams : Connect(s) \/ ConnectRaises(s) \/ Receive(s)
  BY <1>3, ConnectStep, ConnectRaisesStep, ReceiveStep
<1>4. CASE UNCHANGED vars
  <2>1. /\ UNCHANGED <<sent, connected, queues>> /\ UNCHANGED <<tasks, listeners, inbox, started>>
        /\ UNCHANGED <<since, broken, left>>
    BY <1>4 DEF vars, server, client, history
  <2> QED BY <2>1 DEF IInv, TypeOK, StreamInv, InboxInv, ReadyInv, NothingMissed, Active,
                      Genuine, Increasing, Before, Unready
<1> QED BY <1>1, <1>2, <1>3, <1>4 DEF Next

\* The inductive invariant of the broker and its clients: what is queued and what has been
\* delivered is what was sent, in that order, and a stream that is ready stays connected.
THEOREM BrokerInvariant == Spec => []IInv
<1> QED BY InvInit, InvStep, PTL DEF Spec

\* Every variable of the broker and of its clients keeps its type.
THEOREM BrokerTypes == Spec => []TypeOK
<1>1. IInv => TypeOK
  BY DEF IInv
<1> QED BY <1>1, BrokerInvariant, PTL

\* A listener gets what was sent on its topic and it wants, in that order and each message
\* at most once, however listeners share a stream, stop, or end it with an exception.
THEOREM DeliveredInOrder == Spec => []InOrder
<1>1. IInv => InOrder
  BY DEF IInv, InboxInv, Genuine, Increasing, InOrder
<1> QED BY <1>1, BrokerInvariant, PTL

\* While its stream has not been left by all its listeners or ended by an exception, no
\* message that a listener wants is lost between the broker and its inbox.
THEOREM ReadyMissesNothing == Spec => []NothingMissed
<1>1. IInv => NothingMissed
  BY DEF IInv
<1> QED BY <1>1, BrokerInvariant, PTL

=============================================================================
