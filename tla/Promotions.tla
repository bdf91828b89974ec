----------------------------- MODULE Promotions -----------------------------
(***************************************************************************)
(* Promotions: promo codes with a use limit, the deposit bonus of an       *)
(* affiliate code, and the withdrawal wager requirement both add to.  The  *)
(* requirement is a column of the owner's row, kept with the wallet here.  *)
(***************************************************************************)
EXTENDS WalletLedger, FiniteSets

CONSTANTS
  Promos,      \* promo codes an administrator created
  UsageLimit,  \* [Promos -> Nat]
  Reward       \* [Promos -> Nat \ {0}]

ASSUME PromoAssumption == UsageLimit \in [Promos -> Nat] /\ Reward \in [Promos -> Nat \ {0}]

VARIABLES
  usageCount,  \* [Promos -> Nat]: promo_codes.usageCount
  redeemed,    \* [Promos -> SUBSET Wallets]: rows of promo_code_redemptions
  activated    \* [Wallets -> BOOLEAN]: an unexpired deposit bonus activation

promoVars == <<usageCount, redeemed, activated>>

PromoInit ==
  /\ usageCount = [p \in Promos |-> 0]
  /\ redeemed = [p \in Promos |-> {}]
  /\ activated = [w \in Wallets |-> FALSE]

\* The wallet with a bonus paid in and the wager requirement raised by it.
WithBonus(w, amount) ==
  [wallet EXCEPT ![w].balance = @ + amount, ![w].wager = @ + amount]

\* UPDATE wallets ... + amount, the BONUS row, UPDATE users ... + amount.
CreditBonus(w, amount, key, ref) ==
  LET before == wallet[w].balance
  IN /\ ~KeyUsed(w, key)
     /\ Fits(before + amount)
     /\ wallet' = WithBonus(w, amount)
     /\ Post(w, Entry("BONUS", "CREDIT", amount, before, before + amount, key, ref))

Redeemable(p, w) == usageCount[p] < UsageLimit[p] /\ w \notin redeemed[p]

\* redeemPromoCode: the promo row is locked first, so that the limit and the
\* redemption are checked and written in one step.
RedeemPromoCode(p, w) ==
  /\ Redeemable(p, w)
  /\ usageCount' = [usageCount EXCEPT ![p] = @ + 1]
  /\ redeemed' = [redeemed EXCEPT ![p] = @ \cup {w}]
  /\ CreditBonus(w, Reward[p], <<"promo", p>>, p)
  /\ UNCHANGED activated

\* applyDepositBonusCode: an activation that has run out may be renewed.
ApplyDepositBonusCode(w) ==
  /\ ~activated[w]
  /\ activated' = [activated EXCEPT ![w] = TRUE]
  /\ UNCHANGED <<moneyVars, usageCount, redeemed>>

\* The 24 hours of an activation pass.
ActivationExpires(w) ==
  /\ activated[w]
  /\ activated' = [activated EXCEPT ![w] = FALSE]
  /\ UNCHANGED <<moneyVars, usageCount, redeemed>>

\* DEPOSIT_BONUS_BPS of the deposit, rounded down.
DepositBonus(amount) == (amount * 500) \div 10000

\* The unique depositId of the bonus credit and of its ledger row, which commit
\* together.
BonusKey(w, d) == <<"bonus", d>>

\* applyDepositBonusForDepositBestEffort: pays once per deposit while an
\* activation lasts, or does nothing.
ApplyDepositBonus(w, d, amount) ==
  LET bonus == DepositBonus(amount)
  IN IF bonus > 0 /\ activated[w] /\ ~KeyUsed(w, BonusKey(w, d))
       THEN CreditBonus(w, bonus, BonusKey(w, d), d)
       ELSE UNCHANGED moneyVars

\* addWithdrawWagerRequirementBestEffort
AddWagerRequirement(w, amount) ==
  /\ wallet' = [wallet EXCEPT ![w].wager = @ + amount]
  /\ UNCHANGED ledger

\* setWithdrawWagerRemainingAtomicByAdmin: also how much play is left after the
\* stakes that other modules place.
SetWagerRemaining(w, amount) ==
  /\ wallet[w].wager # amount
  /\ wallet' = [wallet EXCEPT ![w].wager = amount]
  /\ UNCHANGED <<ledger, promoVars>>

PromoNext ==
  \/ \E p \in Promos, w \in Wallets : RedeemPromoCode(p, w)
  \/ \E w \in Wallets :
       ApplyDepositBonusCode(w) \/ ActivationExpires(w) \/ SetWagerRemaining(w, 0)

-----------------------------------------------------------------------------

RewardRows(p) ==
  {x \in UNION {{w} \X DOMAIN ledger[w] : w \in Wallets} :
     ledger[x[1]][x[2]].reason = "BONUS" /\ ledger[x[1]][x[2]].ref = p}

\* No code pays more often than its limit, nobody is paid twice by one code,
\* and the count, the redemptions and the rewards posted tell the same story.
RewardsCounted ==
  \A p \in Promos :
    /\ usageCount[p] <= UsageLimit[p]
    /\ usageCount[p] = Cardinality(redeemed[p])
    /\ Cardinality(RewardRows(p)) = usageCount[p]
    /\ \A x \in RewardRows(p) : /\ x[1] \in redeemed[p]
                                /\ ledger[x[1]][x[2]].amount = Reward[p]
=============================================================================
