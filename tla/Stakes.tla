------------------------------- MODULE Stakes -------------------------------
(***************************************************************************)
(* What the two clients of a wallet that hold stakes have in common: the   *)
(* reservation service, which most games use, and the bets module.  Both   *)
(* move a stake from the balance of a wallet to its locked funds and post  *)
(* it to the ledger.                                                       *)
(***************************************************************************)
EXTENDS WalletLedger, FiniteSets

CONSTANTS
  Amounts,     \* stakes callers ask for
  Deltas,      \* amounts adjustments credit, or debit if negative
  References,  \* what the rows of a ledger refer to
  PostingKeys, \* idempotency keys of the rows of a ledger
  NoKey        \* the null key of a row that is not there

ASSUME StakeAssumption == /\ Amounts \subseteq 1..BigintMax
                          /\ Deltas \subseteq Int
                          /\ NoRef \notin References
                          /\ Keys \subseteq PostingKeys
                          /\ NoKey \notin Keys

Idle == [pc |-> "idle"]

LedgerRows ==
  [reason : Reasons, direction : {"CREDIT", "DEBIT"}, amount : 0..BigintMax,
   before : 0..BigintMax, after : 0..BigintMax, key : PostingKeys,
   ref : References \cup {NoRef}]

\* The trail of a wallet is unbroken: each row starts from the balance the row
\* before it left, the last one left the balance of the wallet, and no
\* idempotency key was used for two postings.
LedgerContinuity ==
  \A w \in Wallets : /\ ChainFrom(ledger[w], wallet[w].balance)
                     /\ KeysDistinct(ledger[w])
=============================================================================
