---------------------------- MODULE MessageBroker ----------------------------
(***************************************************************************)
(* The message broker (message_broker.py, server.py) and the clients that  *)
(* read from it (raidex_node/transport/client.py).  All listeners a client *)
(* has on one topic share one StreamingRequestTask, a greenlet that keeps  *)
(* an HTTP request to the broker open and hands every line of the answer   *)
(* to each of them.                                                        *)
(*                                                                         *)
(* A message is a pair of its position in what was sent on its topic and   *)
(* its kind; what a listener does with a message depends on the kind.      *)
(***************************************************************************)
EXTENDS Naturals, Sequences, FiniteSets

CONSTANTS
    Clients, Topics,
    Listeners,   \* records: client, topic, the kinds wanted and the kinds that raise
    Kinds,       \* kinds of messages
    Faults,      \* "connect" if the request of a stream may raise
    MaxSent      \* bound, by topic: how many messages are sent on it

Streams == Clients \X Topics
StreamOf(l) == <<l.client, l.topic>>
Messages == UNION {(1 .. MaxSent[t]) \X Kinds : t \in Topics}

ASSUME ListenersAssumption ==
    \A l \in Listeners : /\ StreamOf(l) \in Streams
                         /\ l.wants \subseteq Kinds /\ l.raises \subseteq Kinds \ l.wants
ASSUME MaxSentAssumption == MaxSent \in [Topics -> Nat]

VARIABLES
    sent,        \* topic -> the kinds of the messages sent on it
    connected,   \* streams with a listener in the broker (MessageBroker.listeners)
    queues,      \* stream -> the queue of that listener
    tasks,       \* stream -> state of its StreamingRequestTask
    listeners,   \* stream -> StreamingRequestTask.listeners
    inbox,       \* listener -> all messages put in its queue
    started,     \* listeners that were started
    since,       \* listener -> how many messages had been sent when it and its stream were ready
    broken,      \* streams ended by an exception
    left         \* streams that were without a listener once

server == <<sent, connected, queues>>
client == <<tasks, listeners, inbox, started>>
history == <<since, broken, left>>
vars == <<server, client, history>>

\* The last two are over: the response is closed at the next line, or the greenlet ended.
TaskStates == {"none", "started", "waiting", "streaming", "closing", "ended"}
Unready(l) == MaxSent[l.topic] + 1

Init ==
    /\ sent = [t \in Topics |-> <<>>]
    /\ connected = {}
    /\ queues = [s \in Streams |-> <<>>]
    /\ tasks = [s \in Streams |-> "none"]
    /\ listeners = [s \in Streams |-> <<>>]
    /\ inbox = [l \in Listeners |-> <<>>]
    /\ started = {}
    /\ since = [l \in Listeners |-> Unready(l)]
    /\ broken = {}
    /\ left = {}

In(q) == {q[i] : i \in DOMAIN q}
Active(l) == l \in In(listeners[StreamOf(l)])

-----------------------------------------------------------------------------
(* The broker. *)

\* Mutant: the newest message is read first.
SendInFront(t, kind) ==
    /\ Len(sent[t]) < MaxSent[t]
    /\ sent' = [sent EXCEPT ![t] = Append(@, kind)]
    /\ queues' = [s \in Streams |->
                    IF s \in connected /\ s[2] = t
                    THEN <<<<Len(sent[t]) + 1, kind>>>> \o queues[s] ELSE queues[s]]
    /\ UNCHANGED <<connected, client, history>>

\* MessageBroker.send: into the queue of everyone who listens at this moment.
Send(t, kind) ==
    /\ Len(sent[t]) < MaxSent[t]
    /\ sent' = [sent EXCEPT ![t] = Append(@, kind)]
    /\ queues' = [s \in Streams |->
                    IF s \in connected /\ s[2] = t
                    THEN Append(queues[s], <<Len(sent[t]) + 1, kind>>) ELSE queues[s]]
    /\ UNCHANGED <<connected, client, history>>

-----------------------------------------------------------------------------
(* The client. *)

\* MessageBrokerClient.listen_on: a task per topic, which is kept for ever.
Listen(l) ==
    LET s == StreamOf(l) IN
    /\ l \notin started
    /\ started' = started \cup {l}
    /\ tasks' = [tasks EXCEPT ![s] = IF @ = "none" THEN "started" ELSE @]
    /\ listeners' = [listeners EXCEPT ![s] = Append(@, l)]
    /\ since' = [since EXCEPT ![l] = IF s \in connected THEN Len(sent[l.topic]) ELSE Unready(l)]
    /\ UNCHANGED <<server, inbox, broken, left>>

\* The request of the task reaches the broker, which starts to listen for it.  The
\* client waits for the first message.
Connect(s) ==
    /\ tasks[s] = "started"
    /\ tasks' = [tasks EXCEPT ![s] = "waiting"]
    /\ connected' = connected \cup {s}
    /\ since' = [l \in Listeners |-> IF l \in In(listeners[s]) THEN Len(sent[s[2]]) ELSE since[l]]
    /\ UNCHANGED <<sent, queues, listeners, inbox, started, broken, left>>

ConnectRaises(s) ==
    /\ "connect" \in Faults
    /\ tasks[s] = "started"
    /\ tasks' = [tasks EXCEPT ![s] = "ended"]
    /\ broken' = broken \cup {s}
    /\ UNCHANGED <<server, listeners, inbox, started, since, left>>

\* Whom a message goes to: the listeners that want it, up to the first that raises.
Reached(s, kind) ==
    {i \in DOMAIN listeners[s] : \A j \in 1 .. i : kind \notin listeners[s][j].raises}
Raises(s, kind) == \E l \in In(listeners[s]) : kind \in l.raises

\* Mutant: None, for a message a listener does not want, is put in its queue as well.
DeliverNone(s, m) ==
    inbox' = [l \in Listeners |->
                IF \E i \in Reached(s, m[2]) : listeners[s][i] = l
                THEN Append(inbox[l], IF m[2] \in l.wants THEN m ELSE <<0, "None">>) ELSE inbox[l]]

\* Each listener gets what its transform returns, which is None for what it does not want.
Deliver(s, m) ==
    inbox' = [l \in Listeners |->
                IF /\ m[2] \in l.wants
                   /\ \E i \in Reached(s, m[2]) : listeners[s][i] = l
                THEN Append(inbox[l], m) ELSE inbox[l]]

\* Mutant: a line is held back until the next one begins.
LineFollowed(s) == Len(queues[s]) > 1

\* iter_lines has a line.
LineComplete(s) == queues[s] # <<>>

\* A line of the response.  A response that was closed in the meantime is read once more
\* before the loop ends and the broker stops listening.
Receive(s) ==
    LET m == Head(queues[s]) IN
    /\ tasks[s] \in {"waiting", "streaming", "closing"}
    /\ LineComplete(s)
    /\ queues' = [queues EXCEPT ![s] = Tail(@)]
    /\ Deliver(s, m)
    /\ \/ /\ Raises(s, m[2])
          /\ tasks' = [tasks EXCEPT ![s] = "ended"]
          /\ broken' = broken \cup {s}
          /\ UNCHANGED connected
       \/ /\ ~ Raises(s, m[2]) /\ tasks[s] = "closing"
          /\ tasks' = [tasks EXCEPT ![s] = "ended"]
          /\ connected' = connected \ {s}
          /\ UNCHANGED broken
       \/ /\ ~ Raises(s, m[2]) /\ tasks[s] # "closing"
          /\ tasks' = [tasks EXCEPT ![s] = "streaming"]
          /\ UNCHANGED <<connected, broken>>
    /\ UNCHANGED <<sent, listeners, started, since, left>>

\* list.remove: the first entry that is the listener is taken out.
Without(q, l) ==
    LET i == CHOOSE i \in DOMAIN q : q[i] = l /\ \A j \in 1 .. i - 1 : q[j] # l IN
    [j \in 1 .. Len(q) - 1 |-> IF j < i THEN q[j] ELSE q[j + 1]]

\* Mutant: the task is stopped with its first listener.
StopTask(l) ==
    LET s == StreamOf(l) IN
    /\ Active(l)
    /\ listeners' = [listeners EXCEPT ![s] = Without(@, l)]
    /\ left' = IF listeners'[s] = <<>> THEN left \cup {s} ELSE left
    /\ tasks' = [tasks EXCEPT ![s] = IF @ = "streaming" THEN "closing" ELSE @]
    /\ UNCHANGED <<server, inbox, started, since, broken>>

\* MessageBrokerClient.stop_listen: without listeners the response is closed, if there
\* is one by now.
StopListen(l) ==
    LET s == StreamOf(l) IN
    /\ Active(l)
    /\ listeners' = [listeners EXCEPT ![s] = Without(@, l)]
    /\ left' = IF listeners'[s] = <<>> THEN left \cup {s} ELSE left
    /\ tasks' = [tasks EXCEPT ![s] = IF listeners'[s] = <<>> /\ @ = "streaming"
                                     THEN "closing" ELSE @]
    /\ UNCHANGED <<server, inbox, started, since, broken>>

Next ==
    \/ \E t \in Topics, kind \in Kinds : Send(t, kind)
    \/ \E l \in Listeners : Listen(l) \/ StopListen(l)
    \/ \E s \in Streams : Connect(s) \/ ConnectRaises(s) \/ Receive(s)

Spec == Init /\ [][Next]_vars

\* The greenlets of the tasks run.
FairSpec == Spec /\ \A s \in Streams : WF_vars(Connect(s) \/ ConnectRaises(s)) /\ WF_vars(Receive(s))

-----------------------------------------------------------------------------
(* What broker and clients promise. *)

\* Every variable has its type.
TypeOK ==
    /\ sent \in [Topics -> Seq(Kinds)]
    /\ connected \subseteq Streams
    /\ queues \in [Streams -> Seq(Messages)]
    /\ tasks \in [Streams -> TaskStates]
    /\ listeners \in [Streams -> Seq(Listeners)]
    /\ inbox \in [Listeners -> Seq(Messages)]
    /\ started \subseteq Listeners
    /\ since \in [Listeners -> Nat] /\ \A l \in Listeners : since[l] <= Unready(l)
    /\ broken \subseteq Streams /\ left \subseteq Streams

\* A listener gets messages of its topic only, in the order they were sent and each at
\* most once, however many listeners share the stream and whatever else ends.
InOrder ==
    \A l \in Listeners :
        /\ \A m \in In(inbox[l]) : m[2] \in l.wants /\ sent[l.topic][m[1]] = m[2]
        /\ \A i, j \in DOMAIN inbox[l] : i < j => inbox[l][i][1] < inbox[l][j][1]

\* A listener whose stream was never without listeners and had no exception misses
\* nothing it wants: what was sent since both were ready is in its inbox or on the way.
NothingMissed ==
    \A l \in Listeners :
        LET s == StreamOf(l) IN
        Active(l) /\ s \notin broken \cup left =>
            \A n \in since[l] + 1 .. Len(sent[l.topic]) :
                LET m == <<n, sent[l.topic][n]>> IN
                m[2] \in l.wants => m \in In(inbox[l]) \cup In(queues[s])

\* What is on the way to a listener arrives, unless its stream ends by an exception.
Pending(l, m) == Active(l) /\ m[2] \in l.wants /\ m \in In(queues[StreamOf(l)])
PendingArrives ==
    \A l \in Listeners, m \in Messages :
        Pending(l, m) ~> m \in In(inbox[l]) \/ ~ Active(l) \/ tasks[StreamOf(l)] = "ended"
=============================================================================
