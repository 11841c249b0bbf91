-------------------------- MODULE SecuredExchange --------------------------
(***************************************************************************)
(* What raidEX promises about an exchange between parties that follow the  *)
(* protocol, without queues, messages and tasks: DepositEscrow for the     *)
(* deposits, and for the payments of the swap that nobody pays before the  *)
(* service has accepted the payer's own deposit, and that the fee is       *)
(* claimed only for an exchange in which every secured party has paid.     *)
(***************************************************************************)
CONSTANT TransferReceipt   \* the deposits, one of each party

VARIABLES
    fate,      \* TransferReceipt -> what has become of the deposit
    secured,   \* deposits that were accepted as security, ever
    paid       \* deposits whose payer has paid its part of the swap

Escrow == INSTANCE DepositEscrow

vars == <<fate, secured, paid>>

Init == Escrow!Init /\ secured = {} /\ paid = {}

\* A deposit becomes security.
Lock(rc) == Escrow!Accept(rc) /\ secured' = secured \cup {rc} /\ UNCHANGED paid

\* A party pays the other one.
PaySwap(rc) == rc \in secured \ paid /\ paid' = paid \cup {rc} /\ UNCHANGED <<fate, secured>>

\* Every other step of the escrow; both deposits are returned less the fee only when
\* both parties have paid.
Move(rc) ==
    /\ \/ Escrow!Refuse(rc) \/ Escrow!Ignore(rc) \/ Escrow!Release(rc)
       \/ Escrow!PayBack(rc) \/ Escrow!Lose(rc)
       \/ \E other \in TransferReceipt : Escrow!Settle(rc, other)
    /\ \A r \in TransferReceipt :
          fate'[r] = "owed_less_fee" /\ fate[r] = "security" => r \in paid
    /\ UNCHANGED <<secured, paid>>

Next == \/ UNCHANGED vars
        \/ \E rc \in TransferReceipt : Lock(rc) \/ PaySwap(rc) \/ Move(rc)

Spec == Init /\ [][Next]_vars
=============================================================================
