----------------------------- MODULE MCCashier ------------------------------
(***************************************************************************)
(* Two withdrawal requests and two webhook deliveries at once, on one      *)
(* wallet and one payment, beside stakes of another service whose keys are *)
(* those of the withdrawal's debit and refund.  Promo codes are left to    *)
(* MCTransfers.                                                            *)
(***************************************************************************)
EXTENDS Cashier, TLC

CONSTANTS w1, p1

MCUsageLimit == [p \in Promos |-> 1]
MCReward == [p \in Promos |-> 20]
MCOtherKeys == {"debit", "revert"} \X Keys
MCPayee == p1 :> w1
=============================================================================
