------------------------------- MODULE Vault --------------------------------
(***************************************************************************)
(* The vault: a second balance of each user, of which time locks keep a    *)
(* part.  A deposit first debits the wallet in one transaction and then    *)
(* credits the vault and renews its lock in another; a withdrawal reads    *)
(* the vault and its locks, takes the amount from the vault, and then      *)
(* credits the wallet.  The caller's key makes the wallet's part           *)
(* idempotent, not the vault's.                                            *)
(***************************************************************************)
EXTENDS WalletLocks, FiniteSetsExt

CONSTANTS
  Durations,   \* lock durations, 0 for none
  VaultUsers   \* wallets whose owners use a vault

ASSUME VaultAssumption == Durations \subseteq Nat /\ VaultUsers \subseteq Wallets

VARIABLE vault \* [Wallets -> [balance, locks: set of [amount, unlockAt]]]

VaultInit == vault = [w \in Wallets |-> [balance |-> 0, locks |-> {}]]

DepositCall(r) ==
  /\ \E w \in VaultUsers, amount \in Amounts, key \in Keys, hours \in Durations :
       Start(r, [op |-> "DEPOSIT", pc |-> "settle", from |-> w, amount |-> amount,
                 key |-> key, hours |-> hours, now |-> clock])
  /\ UNCHANGED vault

WithdrawCall(r) ==
  /\ \E w \in VaultUsers, amount \in Amounts, key \in Keys :
       Start(r, [op |-> "WITHDRAW", pc |-> "settle", from |-> w, amount |-> amount,
                 key |-> key, seen |-> 0, now |-> clock])
  /\ UNCHANGED vault

Active(w, now) == {l \in vault[w].locks : l.unlockAt > now}

\* settleMaturedVaultLocks: locks that have run out are deleted.
SettleMatured(r) ==
  LET w == req[r].from
  IN /\ req[r].pc = "settle"
     /\ vault' = [vault EXCEPT ![w].locks = Active(w, clock)]
     /\ Goto(r, IF req[r].op = "DEPOSIT" THEN "debit" ELSE "balance")
     /\ UNCHANGED <<moneyVars, walletLock, clock, calls>>

\* The wallet is debited, and only then the time is taken for the lock.
VaultDebit(r) ==
  /\ At(r, "DEPOSIT", "debit")
  /\ \/ /\ Adjusted(req[r].from, -req[r].amount, <<"vault", req[r].key>>)
        /\ req' = [req EXCEPT ![r].pc = "credit", ![r].now = clock]
     \/ /\ Free(req[r].from) /\ ~CanDebit(req[r].from, req[r].amount)
        /\ req' = [req EXCEPT ![r] = Idle]
        /\ UNCHANGED moneyVars
  /\ UNCHANGED <<walletLock, clock, calls, vault>>

MaxOf(S) == CHOOSE x \in S : \A y \in S : x >= y

\* Mutant: the new lock replaces the old one whatever its end.
UnlockAtRequested(r) ==
  IF req[r].hours > 0 THEN {req[r].now + req[r].hours}
  ELSE {l.unlockAt : l \in Active(req[r].from, req[r].now)}

\* effectiveUnlockAt: the later of the longest active lock and the new one.
UnlockAt(r) ==
  LET ends == {l.unlockAt : l \in Active(req[r].from, req[r].now)}
                \cup (IF req[r].hours > 0 THEN {req[r].now + req[r].hours} ELSE {})
  IN IF ends = {} THEN {} ELSE {MaxOf(ends)}

\* deleteMany of the active locks.
KeptLocks(r) == vault[req[r].from].locks \ Active(req[r].from, req[r].now)

\* The active locks become one that covers the whole balance.  The update of the
\* vault's row comes first and keeps other deposits out.
VaultCredit(r) ==
  LET w == req[r].from
      now == req[r].now
      balance == vault[w].balance + req[r].amount
  IN /\ At(r, "DEPOSIT", "credit")
     /\ vault' = [vault EXCEPT ![w] =
          [balance |-> balance,
           locks |-> KeptLocks(r) \cup
             {[amount |-> balance, unlockAt |-> t] :
                t \in {u \in UnlockAt(r) : u > now /\ balance > 0}}]]
     /\ req' = [req EXCEPT ![r] = Idle]
     /\ UNCHANGED <<moneyVars, walletLock, clock, calls>>

\* getOrCreateVault: the balance is read first, then the locks.
ReadBalance(r) ==
  /\ At(r, "WITHDRAW", "balance")
  /\ req' = [req EXCEPT ![r].pc = "locks", ![r].seen = vault[req[r].from].balance,
                        ![r].now = clock]
  /\ UNCHANGED <<moneyVars, walletLock, clock, calls, vault>>

LockedAtomic(r) ==
  FoldSet(LAMBDA l, sum : sum + l.amount, 0, Active(req[r].from, req[r].now))

ReadLocks(r) ==
  /\ At(r, "WITHDRAW", "locks")
  /\ IF req[r].seen - LockedAtomic(r) >= req[r].amount
       THEN Goto(r, "take")
       ELSE req' = [req EXCEPT ![r] = Idle]
  /\ UNCHANGED <<moneyVars, walletLock, clock, calls, vault>>

TakeFromVault(r) ==
  /\ At(r, "WITHDRAW", "take")
  /\ vault' = [vault EXCEPT ![req[r].from].balance = @ - req[r].amount]
  /\ Goto(r, "pay")
  /\ UNCHANGED <<moneyVars, walletLock, clock, calls>>

VaultPay(r) ==
  /\ At(r, "WITHDRAW", "pay")
  /\ Adjusted(req[r].from, req[r].amount, <<"vault", req[r].key>>)
  /\ req' = [req EXCEPT ![r] = Idle]
  /\ UNCHANGED <<walletLock, clock, calls, vault>>

VaultStep(r) ==
  SettleMatured(r) \/ VaultDebit(r) \/ VaultCredit(r) \/ ReadBalance(r)
    \/ ReadLocks(r) \/ TakeFromVault(r) \/ VaultPay(r)

-----------------------------------------------------------------------------

\* A lock lasts until its end at least: no later deposit, with a shorter lock or
\* with none, and no withdrawal brings its end forward.  Only a vault that
\* overlapping withdrawals have overdrawn loses its lock, with nothing left in it.
LocksNotShortened ==
  [][\A w \in Wallets : \A l \in Active(w, clock') :
       \/ \E m \in vault'[w].locks : m.unlockAt >= l.unlockAt
       \/ vault'[w].balance <= 0]_<<vault, clock>>
=============================================================================
