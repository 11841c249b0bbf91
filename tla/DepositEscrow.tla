--------------------------- MODULE DepositEscrow ---------------------------
(***************************************************************************)
(* What the commitment service promises about each deposit, without its    *)
(* tasks, queues and messages: a deposit is accepted as security for one   *)
(* offer, or goes back, or is ignored; at most two deposits secure an      *)
(* offer, and once there are two they are settled together, both returned  *)
(* less the fee or both kept; a deposit that is owed is paid back once.    *)
(***************************************************************************)
CONSTANT TransferReceipt   \* the payments, records with an identifier

VARIABLE fate   \* TransferReceipt -> what has become of the payment

Fates == {"outside", "security", "owed", "owed_less_fee",
          "returned", "returned_less_fee", "kept"}

\* The deposits that secure an offer.
Securing(o) == {rc \in TransferReceipt : rc.identifier = o /\ fate[rc] = "security"}

Init == fate = [rc \in TransferReceipt |-> "outside"]

Become(S, f) == fate' = [rc \in TransferReceipt |-> IF rc \in S THEN f ELSE fate[rc]]

\* A deposit comes in: it secures the offer beside at most one other, or it is
\* refused and owed in full, or nobody looks at it.
Accept(rc) ==
    /\ fate[rc] = "outside"
    /\ \A x, y \in Securing(rc.identifier) : x = y
    /\ Become({rc}, "security")
Refuse(rc) == fate[rc] = "outside" /\ Become({rc}, "owed")
Ignore(rc) == fate[rc] = "outside" /\ Become({rc}, "kept")

\* Nobody took the offer: its only deposit is owed in full.
Release(rc) == Securing(rc.identifier) = {rc} /\ Become({rc}, "owed")

\* The two deposits of an offer are settled in one step, and alike.
Settle(rc, other) ==
    /\ rc # other
    /\ Securing(rc.identifier) = {rc, other}
    /\ \E f \in {"owed_less_fee", "kept"} : Become({rc, other}, f)

\* A deposit that is owed is paid back, or its refund is lost.
PayBack(rc) ==
    \/ fate[rc] = "owed" /\ Become({rc}, "returned")
    \/ fate[rc] = "owed_less_fee" /\ Become({rc}, "returned_less_fee")
Lose(rc) == fate[rc] \in {"owed", "owed_less_fee"} /\ Become({rc}, "kept")

Next == \E rc \in TransferReceipt :
            \/ Accept(rc) \/ Refuse(rc) \/ Ignore(rc) \/ Release(rc)
            \/ \E other \in TransferReceipt : Settle(rc, other)
            \/ PayBack(rc) \/ Lose(rc)

Spec == Init /\ [][Next]_fate
=============================================================================
