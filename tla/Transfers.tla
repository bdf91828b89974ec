----------------------------- MODULE Transfers ------------------------------
(***************************************************************************)
(* Tips, rain, the vault, affiliate claims and promo codes on the same     *)
(* wallets: calls of any of them run side by side and meet at the wallet   *)
(* rows they lock.                                                         *)
(***************************************************************************)
EXTENDS Tips, Rain, Vault, Affiliates, Promotions

\* The reference of a claim is no redemption's.
ASSUME TransfersAssumption == "claim" \notin Promos

vars == <<moneyVars, callVars, rain, vault, affiliateVars, promoVars>>

Init ==
  /\ CallsInit
  /\ RainInit
  /\ VaultInit
  /\ AffiliatesInit
  /\ PromoInit

Submit(r) ==
  \/ TipCall(r) /\ UNCHANGED <<rain, vault, affiliateVars>>
  \/ RainCall(r) /\ UNCHANGED <<vault, affiliateVars>>
  \/ (DepositCall(r) \/ WithdrawCall(r)) /\ UNCHANGED <<rain, affiliateVars>>
  \/ ClaimCall(r) /\ UNCHANGED <<rain, vault>>

Serve(r) ==
  \/ (LockWallet(r) \/ TipCommit(r)) /\ UNCHANGED <<rain, vault, affiliateVars>>
  \/ RainStep(r) /\ UNCHANGED <<vault, affiliateVars>>
  \/ VaultStep(r) /\ UNCHANGED <<rain, affiliateVars>>
  \/ AffiliateStep(r) /\ UNCHANGED <<rain, vault>>

\* A rolled back transaction gives up the referrals it locked, too.
RolledBack(r) ==
  /\ Fail(r) \/ DeadlockVictim(r)
  /\ rowsLocked' = [rowsLocked EXCEPT ![r] = {}]
  /\ UNCHANGED <<rain, vault, referral, events, unpaid>>

Redeem(p, w) ==
  /\ Free(w) /\ calls < MaxCalls
  /\ calls' = calls + 1
  /\ RedeemPromoCode(p, w)
  /\ UNCHANGED <<walletLock, req, clock, rain, vault, affiliateVars>>

Next ==
  \/ \E r \in Requests : (Submit(r) \/ Serve(r) \/ RolledBack(r)) /\ UNCHANGED promoVars
  \/ Tick /\ UNCHANGED <<rain, vault, affiliateVars, promoVars>>
  \/ \E f \in Referrals, stake \in Stakes :
       AddCommission(f, stake) /\ UNCHANGED <<rain, vault, promoVars>>
  \/ \E p \in Promos, w \in Wallets : Redeem(p, w)

Spec == Init /\ [][Next]_vars

(***************************************************************************)
(* Node runs every call that can go on, and the database looks for         *)
(* deadlocks; a call that waits for a row lock need not go on.             *)
(***************************************************************************)
FairSpec ==
  /\ Spec
  /\ \A r \in Requests :
       /\ WF_vars(Serve(r) /\ UNCHANGED promoVars)
       /\ WF_vars(/\ DeadlockVictim(r)
                  /\ rowsLocked' = [rowsLocked EXCEPT ![r] = {}]
                  /\ UNCHANGED <<rain, vault, referral, events, unpaid, promoVars>>)

-----------------------------------------------------------------------------

\* Whatever mix of calls writes a wallet, its rows form one chain of balances
\* with distinct keys that ends in the balance the wallet has: no call writes a
\* balance computed from one that was not the last.
LedgerContinuity ==
  \A w \in Wallets : ChainFrom(ledger[w], wallet[w].balance) /\ KeysDistinct(ledger[w])

\* A tip reaches its receiver whole and once, and a rain pays its players no
\* more than the pot, a place once, whoever settles it.
PayoutsAddUp == TipsArrive /\ RainWithinPot

\* Commissions are claimable or claimed, never both, what is claimed is paid once
\* but for commissions a claim resets without having summed them, and a promo code
\* pays each user once and no more users than its limit.
RewardsAddUp == CommissionsAccounted /\ RewardsCounted

\* Every call is answered, although tips and rains lock wallets in any order.
RequestsAnswered == \A r \in Requests : req[r] # Idle ~> req[r] = Idle
=============================================================================
