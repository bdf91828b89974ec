---------------------------- MODULE WalletLedger ----------------------------
(***************************************************************************)
(* The wallet row and its append-only ledger, as every money-moving        *)
(* handler of the backend uses them.                                       *)
(*                                                                         *)
(* A wallet row carries balanceAtomic and lockedAtomic, and its owner's    *)
(* outstanding withdrawal wager requirement.  A ledger row                 *)
(* (wallet_transactions) records the reason, the direction, the amount,    *)
(* the balance before and after, the idempotency key and the reference of  *)
(* one posting.  Rows of a wallet are ordered by chainIndex, so the ledger *)
(* of a wallet is a sequence; (walletId, idempotencyKey) is unique.        *)
(*                                                                         *)
(* Every transaction that posts to a ledger first locks the wallet's row   *)
(* (SELECT ... FOR UPDATE, or an UPDATE of the row) and keeps that lock    *)
(* until it commits.  From the lock on nothing of the wallet or its ledger *)
(* can change under the transaction, so "lock the wallet ... commit" is    *)
(* one step of these modules.                                              *)
(***************************************************************************)
EXTENDS Ledgers

CONSTANTS
  Wallets,     \* wallet rows, one per (user, currency)
  Keys,        \* idempotency keys callers supply
  NoRef,       \* the null referenceId of an adjustment
  BigintMax,   \* largest value of a BIGINT column
  WagerRequired \* withdrawal wager requirement a wallet's owner starts with

ASSUME BigintAssumption == /\ BigintMax \in Nat \ {0}
                           /\ WagerRequired \in Nat

VARIABLES
  wallet,      \* [Wallets -> [balance, locked, wager]]
  ledger       \* [Wallets -> Seq(ledger rows)]

moneyVars == <<wallet, ledger>>

(***************************************************************************)
(* createDefaultWallets: an empty row; the ledger has no rows yet.  The    *)
(* owner's requirement is whatever a deposit, a promotion or an admin set. *)
(***************************************************************************)
MoneyInit ==
  /\ wallet = [w \in Wallets |-> [balance |-> 0, locked |-> 0,
                                  wager |-> WagerRequired]]
  /\ ledger = [w \in Wallets |-> <<>>]

(***************************************************************************)
(* A column of type BIGINT with a CHECK (... >= 0) constraint: a statement *)
(* that would store anything else fails and aborts its transaction.        *)
(***************************************************************************)
Fits(n) == n \in 0..BigintMax

Entry(reason, direction, amount, before, after, key, ref) ==
  [reason |-> reason, direction |-> direction, amount |-> amount,
   before |-> before, after |-> after, key |-> key, ref |-> ref]

KeyUsed(w, k) == \E i \in DOMAIN ledger[w] : ledger[w][i].key = k

Post(w, entry) == ledger' = [ledger EXCEPT ![w] = Append(@, entry)]

(***************************************************************************)
(* GREATEST(0, remaining - amount): every stake works off the owner's      *)
(* outstanding withdrawal wager requirement.                               *)
(***************************************************************************)
ConsumeWager(remaining, amount) ==
  IF remaining >= amount THEN remaining - amount ELSE 0

(***************************************************************************)
(* The debit of a stake: the row is locked, the balance must cover the     *)
(* stake, the stake moves from the balance to the locked funds.            *)
(***************************************************************************)
CanDebit(w, amount) == wallet[w].balance >= amount

\* Mutant: the stake leaves the balance and is locked nowhere.
DebitUnlocked(w, amount) ==
  /\ CanDebit(w, amount)
  /\ wallet' = [wallet EXCEPT ![w].balance = @ - amount]

DebitBalanceInTx(w, amount) ==
  /\ CanDebit(w, amount)
  /\ Fits(wallet[w].locked + amount)
  /\ wallet' = [wallet EXCEPT ![w] =
                 [balance |-> @.balance - amount,
                  locked  |-> @.locked + amount,
                  wager   |-> ConsumeWager(@.wager, amount)]]

(***************************************************************************)
(* adjustWalletBalance: a signed adjustment under an idempotency key.  A   *)
(* key the wallet's ledger already holds answers with the old row and      *)
(* changes nothing; a result below zero is refused.                        *)
(***************************************************************************)
AdjustWalletBalance(w, delta, key) ==
  LET before == wallet[w].balance
      after  == before + delta
  IN /\ delta # 0
     /\ ~KeyUsed(w, key)
     /\ Fits(after)
     /\ wallet' = [wallet EXCEPT ![w].balance = after]
     /\ Post(w, Entry("ADJUST",
                      IF delta > 0 THEN "CREDIT" ELSE "DEBIT",
                      IF delta > 0 THEN delta ELSE -delta,
                      before, after, key, NoRef))

-----------------------------------------------------------------------------

Reasons == {"ADJUST", "BET_HOLD", "BET_RELEASE", "BET_CAPTURE", "BET_PAYOUT"}

WalletRows == [balance : 0..BigintMax, locked : 0..BigintMax, wager : Nat]
=============================================================================
