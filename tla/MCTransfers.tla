---------------------------- MODULE MCTransfers -----------------------------
(***************************************************************************)
(* Two wallets, two calls that overlap in every way, and a rain round both *)
(* owners have joined.  The owner of w1 uses a vault and referred the two  *)
(* referrals; one promo code may be redeemed once.                         *)
(***************************************************************************)
EXTENDS Transfers, TLC

CONSTANTS w1, w2, f1, f2, c1

MCReferrer == f1 :> w1 @@ f2 :> w1
MCUsageLimit == c1 :> 1
MCReward == c1 :> 1
=============================================================================
