----------------------------- MODULE MCExchange -----------------------------
(***************************************************************************)
(* Model-checking instances of Exchange.                                   *)
(***************************************************************************)
EXTENDS Exchange

\* LimitOrders.delete: the user of the maker cancels the order.
MakerCancels ==
    /\ HandedOn
    /\ Maker!RequestCancel(MakerNode)
    /\ UNCHANGED <<serviceVars, takerVars, topic, read>>

\* Long before the offer times out: no timer fires, of the nodes or of the service, and a
\* swap ends early only by a Cancellation that a node has sent.
NoTimerFires ==
    /\ m_timers'[Offer] # "dead" /\ t_timers'[Offer] # "dead"
    /\ Service!Timeout(Offer) => read' # read

SpecCancelled == Init /\ [][(Next \/ MakerCancels) /\ NoTimerFires]_vars
=============================================================================
