---------------------------- MODULE PaymentLedger ----------------------------
(***************************************************************************)
(* What the payment service promises about the orders: only a confirmed    *)
(* order is ever charged, it is charged once, and what the gateway reports *)
(* settles the charge once and for all.                                    *)
(***************************************************************************)
CONSTANT OrderIds

VARIABLES
  confirmed,  \* the orders announced as confirmed
  ledger      \* where the charge of each order stands

Init ==
  /\ confirmed = {}
  /\ ledger = [o \in OrderIds |-> "none"]

Announce(o) ==
  /\ confirmed' = confirmed \cup {o}
  /\ UNCHANGED ledger

Open(o) ==
  /\ o \in confirmed
  /\ ledger[o] = "none"
  /\ ledger' = [ledger EXCEPT ![o] = "REQUIRES_PAYMENT"]
  /\ UNCHANGED confirmed

Settle(o, status) ==
  /\ ledger[o] = "REQUIRES_PAYMENT"
  /\ ledger' = [ledger EXCEPT ![o] = status]
  /\ UNCHANGED confirmed

Next ==
  \E o \in OrderIds :
    \/ Announce(o)
    \/ Open(o)
    \/ \E s \in {"PAID", "FAILED"} : Settle(o, s)

Spec == Init /\ [][Next]_<<confirmed, ledger>>
=============================================================================
