----------------------------- MODULE Affiliates -----------------------------
(***************************************************************************)
(* Affiliate commissions: every stake of a referred user adds to the       *)
(* claimable commission of the referral, and the referrer claims what all  *)
(* referrals together hold.  A claim locks the wallet, then reads and      *)
(* locks the referrals that hold anything, credits their sum and resets    *)
(* every referral that holds anything by then.                             *)
(***************************************************************************)
EXTENDS WalletLocks

CONSTANTS
  Referrals,   \* rows of referrals, one per referred user
  Referrer,    \* [Referrals -> Wallets]
  Wager,       \* the stake of a referred user
  Stakes       \* stakes, each with a key of its own

ASSUME AffiliatesAssumption ==
  /\ IsFiniteSet(Referrals)
  /\ Referrer \in [Referrals -> Wallets]
  /\ Wager \in Nat

VARIABLES
  referral,    \* [Referrals -> row]
  rowsLocked,  \* [Requests -> referrals an open claim has locked]
  events,      \* keys of affiliate_commission_events
  unpaid       \* [Referrals -> Nat]: a history variable, what claims marked
               \* claimed without having summed it

affiliateVars == <<referral, rowsLocked, events, unpaid>>

AffiliatesInit ==
  /\ referral = [f \in Referrals |-> [claimable |-> 0, claimed |-> 0, total |-> 0]]
  /\ rowsLocked = [r \in Requests |-> {}]
  /\ events = {}
  /\ unpaid = [f \in Referrals |-> 0]

Of(w) == {f \in Referrals : Referrer[f] = w}

RowFree(f) == \A r \in Requests : f \notin rowsLocked[r]

\* COMMISSION_BPS of the stake, rounded down.
Commission == (Wager * 100) \div 10000

\* addAffiliateCommissionBestEffort, sent after a stake, and perhaps more than
\* once: the key of the event is unique, and the update waits for the row.
AddCommission(f, stake) ==
  /\ <<f, stake>> \notin events
  /\ Commission > 0
  /\ RowFree(f)
  /\ events' = events \cup {<<f, stake>>}
  /\ referral' = [referral EXCEPT ![f].claimable = @ + Commission,
                                  ![f].total = @ + Commission]
  /\ UNCHANGED <<moneyVars, callVars, rowsLocked, unpaid>>

ClaimCall(r) ==
  /\ \E w \in {Referrer[f] : f \in Referrals}, key \in Keys :
       Start(r, [op |-> "CLAIM", pc |-> "lock", from |-> w, key |-> key,
                 order |-> <<w>>, read |-> <<>>, sum |-> 0, now |-> clock])
  /\ UNCHANGED affiliateVars

Claimable(w) == {f \in Of(w) : referral[f].claimable > 0}

\* A key already posted is answered with its row; else the referrals that hold
\* anything are read and locked, and there must be something to claim.
ClaimSum(r) ==
  LET w == req[r].from
      rows == Claimable(w)
  IN /\ At(r, "CLAIM", "lock") /\ req[r].order = <<>>
     /\ \A f \in rows : RowFree(f)
     /\ IF KeyUsed(w, req[r].key) \/ rows = {}
          THEN Answer(r) /\ UNCHANGED rowsLocked
          ELSE /\ req' = [req EXCEPT ![r].pc = "pay",
                            ![r].sum = Total([f \in Referrals |-> referral[f].claimable], rows)]
               /\ rowsLocked' = [rowsLocked EXCEPT ![r] = rows]
               /\ UNCHANGED walletLock
     /\ UNCHANGED <<moneyVars, clock, calls, referral, events, unpaid>>

\* Mutant: what was claimed stays claimable.
ClaimedKept(row) == [row EXCEPT !.claimed = @ + row.claimable]

Claimed(row) == [row EXCEPT !.claimed = @ + row.claimable, !.claimable = 0]

\* The UPDATE resets every referral that holds anything now, those that got
\* their commission after the sum was read included.
ClaimPay(r) ==
  LET w == req[r].from
      sum == req[r].sum
      before == req[r].read[w]
  IN /\ At(r, "CLAIM", "pay")
     /\ Fits(before + sum)
     /\ wallet' = [wallet EXCEPT ![w].balance = before + sum]
     /\ Post(w, Entry("BONUS", "CREDIT", sum, before, before + sum, req[r].key, "claim"))
     /\ referral' = [f \in Referrals |->
          IF f \in Claimable(w) THEN Claimed(referral[f]) ELSE referral[f]]
     /\ unpaid' = [f \in Referrals |->
          IF f \in Claimable(w) \ rowsLocked[r] THEN unpaid[f] + referral[f].claimable
                                              ELSE unpaid[f]]
     /\ rowsLocked' = [rowsLocked EXCEPT ![r] = {}]
     /\ Answer(r)
     /\ UNCHANGED <<clock, calls, events>>

AffiliateStep(r) == ClaimSum(r) \/ ClaimPay(r)

-----------------------------------------------------------------------------

\* What a referral holds and what was claimed of it add up to the commissions of
\* its events, and a referrer is paid exactly what was claimed of its referrals,
\* less what came to a referral that held nothing between the SELECT and the UPDATE
\* of a claim, however claims and stakes overlap.
CommissionsAccounted ==
  /\ \A f \in Referrals :
       /\ referral[f].claimable + referral[f].claimed = referral[f].total
       /\ referral[f].total = Commission * Cardinality({e \in events : e[1] = f})
  /\ \A w \in Wallets :
       LET claims == {i \in DOMAIN ledger[w] : /\ ledger[w][i].reason = "BONUS"
                                               /\ ledger[w][i].ref = "claim"}
       IN Total([i \in DOMAIN ledger[w] |-> ledger[w][i].amount], claims)
            + Total(unpaid, Of(w)) = Total([f \in Referrals |-> referral[f].claimed], Of(w))
=============================================================================
