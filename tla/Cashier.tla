------------------------------ MODULE Cashier -------------------------------
(***************************************************************************)
(* The cashier: withdrawals paid out through the payment provider, and     *)
(* deposits credited by the provider's webhooks.                           *)
(*                                                                         *)
(* Neither handler runs in one transaction.  Each statement, each          *)
(* adjustment of the wallet and each call of the provider is a step of its *)
(* own, and the process may die, or a statement fail, between any two of   *)
(* them.  The provider sends a webhook again until it is answered 200, and *)
(* may send any webhook twice, late or out of order.                       *)
(*                                                                         *)
(* A withdrawal with the key k posts its debit under "k:withdraw-debit"    *)
(* and its refund under "k:withdraw-revert".  The other services post to   *)
(* the same wallets under keys their callers supply as they are, so one of *)
(* their postings may be there already under such a key.                   *)
(***************************************************************************)
EXTENDS Promotions

CONSTANTS
  Requests,    \* withdrawals and payment webhooks handled at the same time
  Payments,    \* payments (trackId and txHash) seen by the provider
  Payee,       \* [Payments -> Wallets]: the owner of the payment address
  Amounts,     \* amounts withdrawn and deposited
  OtherKeys,   \* keys of withdrawals' postings that other services may use
  Stakes,      \* amounts other services hold
  MaxStakes,   \* bound on the stakes they hold in one wallet
  MaxFailures  \* bound on the handlers that die in one behaviour

\* The ids of promo codes and deposits are those of different tables.
ASSUME CashierAssumption == /\ Amounts \subseteq 1..BigintMax /\ MaxFailures \in Nat
                            /\ Payee \in [Payments -> Wallets]
                            /\ OtherKeys \subseteq {"debit", "revert"} \X Keys
                            /\ Stakes \subseteq 1..BigintMax /\ MaxStakes \in Nat
                            /\ NoRef \notin Payments \cup Promos
                            /\ Payments \cap Promos = {}

VARIABLES
  withdrawal,  \* [Wallets \X Keys -> row of withdrawals]
  payouts,     \* [Wallets \X Keys -> Nat]: payouts the provider accepted
  deposit,     \* [Payments -> row of deposits]
  confirmed,   \* payments the provider has confirmed
  delivered,   \* payments whose confirmation was answered 200
  req,         \* [Requests -> Idle or the state of the handler]
  failures     \* handlers that have died

outVars == <<withdrawal, payouts>>
inVars == <<deposit, confirmed, delivered>>
vars == <<moneyVars, promoVars, outVars, inVars, req, failures>>

Slots == Wallets \X Keys

\* debited: debitTransactionId is set; tracked: providerTrackId is set.
NoWithdrawal == [status |-> "NONE", amount |-> 0, debited |-> FALSE, tracked |-> FALSE]

\* credited: creditedTransactionId is set.
NoDeposit == [status |-> "NONE", amount |-> 0, credited |-> FALSE]

Idle == [pc |-> "idle"]

Init ==
  /\ MoneyInit
  /\ PromoInit
  /\ withdrawal = [s \in Slots |-> NoWithdrawal]
  /\ payouts = [s \in Slots |-> 0]
  /\ deposit = [p \in Payments |-> NoDeposit]
  /\ confirmed = {}
  /\ delivered = {}
  /\ req = [r \in Requests |-> Idle]
  /\ failures = 0

\* adjustWalletBalance as a handler calls it: a key already posted, by whomever
\* and for whatever amount, changes nothing and is answered with that row.
Adjusted(w, delta, key) ==
  \/ KeyUsed(w, key) /\ UNCHANGED moneyVars
  \/ AdjustWalletBalance(w, delta, key)

\* A bet of another service, whose stake is held under the key its caller sent.
PlaceStake(w, key, stake) ==
  LET before == wallet[w].balance
  IN /\ Cardinality({i \in DOMAIN ledger[w] : ledger[w][i].reason = "BET_HOLD"}) < MaxStakes
     /\ ~KeyUsed(w, key)
     /\ DebitBalanceInTx(w, stake)
     /\ Post(w, Entry("BET_HOLD", "DEBIT", stake, before, before - stake, key, NoRef))

-----------------------------------------------------------------------------
(***************************************************************************)
(* createCashierWithdrawal                                                 *)
(***************************************************************************)

Slot(r) == <<req[r].wallet, req[r].key>>

Goto(r, pc) == req' = [req EXCEPT ![r].pc = pc]

\* The call answers, with a row or with an error.
Answer(r) == req' = [req EXCEPT ![r] = Idle]

Submit(r) ==
  /\ req[r] = Idle
  /\ \E w \in Wallets, k \in Keys, amount \in Amounts :
       req' = [req EXCEPT ![r] = [pc |-> "check", wallet |-> w, key |-> k, amount |-> amount]]
  /\ UNCHANGED <<moneyVars, withdrawal, payouts>>

\* The account must be allowed to withdraw and have wagered what it owes.
CheckWager(r) ==
  /\ req[r].pc = "check"
  /\ IF wallet[req[r].wallet].wager = 0 THEN Goto(r, "lookup") ELSE Answer(r)
  /\ UNCHANGED <<moneyVars, withdrawal, payouts>>

\* A withdrawal with this key is answered as it is.
Lookup(r) ==
  /\ req[r].pc = "lookup"
  /\ IF withdrawal[Slot(r)] = NoWithdrawal THEN Goto(r, "create") ELSE Answer(r)
  /\ UNCHANGED <<moneyVars, withdrawal, payouts>>

\* Mutant: (walletId, idempotencyKey) is not unique.
CreatableAlways(r) == TRUE

\* (walletId, idempotencyKey) is unique: a second insert fails.
Creatable(r) == withdrawal[Slot(r)] = NoWithdrawal

Create(r) ==
  /\ req[r].pc = "create"
  /\ IF Creatable(r)
       THEN /\ withdrawal' = [withdrawal EXCEPT ![Slot(r)] =
                               [NoWithdrawal EXCEPT !.status = "PENDING",
                                                    !.amount = req[r].amount]]
            /\ Goto(r, "debit")
       ELSE UNCHANGED withdrawal /\ Answer(r)
  /\ UNCHANGED <<moneyVars, payouts>>

\* The adjustment is refused when the balance does not cover the amount; the
\* row then stays PENDING.
Debit(r) ==
  /\ req[r].pc = "debit"
  /\ \/ /\ Adjusted(req[r].wallet, -req[r].amount, <<"debit", req[r].key>>)
        /\ Goto(r, "approve")
     \/ /\ ~KeyUsed(req[r].wallet, <<"debit", req[r].key>>)
        /\ ~CanDebit(req[r].wallet, req[r].amount)
        /\ Answer(r)
        /\ UNCHANGED moneyVars
  /\ UNCHANGED <<withdrawal, payouts>>

Approve(r) ==
  /\ req[r].pc = "approve"
  /\ withdrawal' = [withdrawal EXCEPT ![Slot(r)].status = "APPROVED",
                                      ![Slot(r)].debited = TRUE]
  /\ Goto(r, "payout")
  /\ UNCHANGED <<moneyVars, payouts>>

\* createOxaPayPayout: the provider accepts the payout or refuses it, and the
\* answer of an accepted one may be lost.
RequestPayout(r) ==
  /\ req[r].pc = "payout"
  /\ \/ /\ payouts' = [payouts EXCEPT ![Slot(r)] = @ + 1]
        /\ Goto(r, "store") \/ Goto(r, "revert")
     \/ UNCHANGED payouts /\ Goto(r, "revert")
  /\ UNCHANGED <<moneyVars, withdrawal>>

\* The provider's track id is stored; when that fails the catch block reverts.
StoreTrack(r) ==
  /\ req[r].pc = "store"
  /\ \/ /\ withdrawal' = [withdrawal EXCEPT ![Slot(r)].status = "BROADCASTED",
                                            ![Slot(r)].tracked = TRUE]
        /\ Answer(r)
     \/ UNCHANGED withdrawal /\ Goto(r, "revert")
  /\ UNCHANGED <<moneyVars, payouts>>

Revert(r) ==
  /\ req[r].pc = "revert"
  /\ Adjusted(req[r].wallet, req[r].amount, <<"revert", req[r].key>>)
  /\ Goto(r, "fail")
  /\ UNCHANGED <<withdrawal, payouts>>

\* Mutant: the row is marked FAILED before the debit is credited back.
MarkFailedFirst(r) ==
  /\ req[r].pc \in {"revert", "fail"}
  /\ withdrawal' = [withdrawal EXCEPT ![Slot(r)].status = "FAILED"]
  /\ Answer(r)
  /\ UNCHANGED <<moneyVars, payouts>>

MarkFailed(r) ==
  /\ req[r].pc = "fail"
  /\ withdrawal' = [withdrawal EXCEPT ![Slot(r)].status = "FAILED"]
  /\ Answer(r)
  /\ UNCHANGED <<moneyVars, payouts>>

Withdraw(r) ==
  CheckWager(r) \/ Lookup(r) \/ Create(r) \/ Debit(r) \/ Approve(r)
    \/ RequestPayout(r) \/ StoreTrack(r) \/ Revert(r) \/ MarkFailed(r)

\* processPayoutWebhook: any status the provider reports, in any order, of a
\* withdrawal whose track id is stored.
PayoutWebhook(s) ==
  /\ withdrawal[s].tracked
  /\ \E status \in {"BROADCASTED", "CONFIRMING", "COMPLETED", "FAILED"} :
       withdrawal' = [withdrawal EXCEPT ![s].status = status]
  /\ UNCHANGED <<moneyVars, payouts, req>>

-----------------------------------------------------------------------------
(***************************************************************************)
(* processPaymentWebhook                                                   *)
(***************************************************************************)

\* The provider confirms a payment.
Confirm(p) ==
  /\ p \notin confirmed
  /\ confirmed' = confirmed \cup {p}
  /\ UNCHANGED <<moneyVars, deposit, delivered, req>>

\* A webhook of the payment arrives: paid (creditable), in progress, or another
\* status that is neither.
Deliver(r, p, token) ==
  /\ req[r] = Idle
  /\ token = "paid" => p \in confirmed
  /\ req' = [req EXCEPT ![r] = [pc |-> "find", payment |-> p, token |-> token]]
  /\ UNCHANGED <<moneyVars, deposit, confirmed, delivered>>

FindDeposit(r) ==
  /\ req[r].pc = "find"
  /\ req' = [req EXCEPT ![r] = [pc |-> "write", payment |-> req[r].payment,
                                token |-> req[r].token, seen |-> deposit[req[r].payment]]]
  /\ UNCHANGED <<moneyVars, deposit, confirmed, delivered>>

\* The status the row gets, from the row read before.
NextStatus(seen, token) ==
  IF seen.status = "COMPLETED" THEN "COMPLETED"
  ELSE IF token \in {"paid", "progress"} THEN "CONFIRMING"
  ELSE IF seen = NoDeposit THEN "PENDING" ELSE seen.status

\* Mutant: the deposit row is written as it was read.
WrittenStale(r, amount) ==
  LET seen == req[r].seen
      token == req[r].token
  IN IF seen = NoDeposit
       THEN [status |-> NextStatus(seen, token), amount |-> amount, credited |-> FALSE]
       ELSE [seen EXCEPT !.status = NextStatus(seen, token)]

\* The row after create, or after an update of its status.
Written(r, amount) ==
  LET p == req[r].payment
      status == NextStatus(req[r].seen, req[r].token)
  IN IF req[r].seen = NoDeposit
       THEN [status |-> status, amount |-> amount, credited |-> FALSE]
       ELSE [deposit[p] EXCEPT !.status = status]

\* Mutant: only the delivery that creates the row credits it.
ToCreditNew(r, row) == req[r].token = "paid" /\ req[r].seen = NoDeposit

\* The callback is creditable and the row it wrote is not credited yet.
ToCredit(r, row) == req[r].token = "paid" /\ ~row.credited

\* The row is created with the amount this callback tells, or its status
\* updated; a callback that is not creditable, or finds the row credited, ends.
WriteDeposit(r) ==
  LET p == req[r].payment
  IN /\ req[r].pc = "write"
     /\ req[r].seen = NoDeposit => deposit[p] = NoDeposit
     /\ \E amount \in Amounts :
          /\ deposit' = [deposit EXCEPT ![p] = Written(r, amount)]
          /\ IF ToCredit(r, Written(r, amount))
               THEN Goto(r, "credit") /\ UNCHANGED delivered
               ELSE /\ Answer(r)
                    /\ delivered' = IF req[r].token = "paid" THEN delivered \cup {p}
                                                              ELSE delivered
     /\ UNCHANGED <<moneyVars, confirmed>>

\* (walletId, idempotencyKey) is unique: of two inserts one fails.
WriteConflict(r) ==
  /\ req[r].pc = "write"
  /\ req[r].seen = NoDeposit /\ deposit[req[r].payment] # NoDeposit
  /\ Answer(r)
  /\ UNCHANGED <<moneyVars, deposit, confirmed, delivered>>

\* Mutant: the key of the credit is not the deposit's.
CreditKeyPerCall(r) == <<"credit", req[r].payment, r>>

CreditKey(r) == <<"credit", req[r].payment>>

CreditDeposit(r) ==
  /\ req[r].pc = "credit"
  /\ Adjusted(Payee[req[r].payment], deposit[req[r].payment].amount, CreditKey(r))
  /\ Goto(r, "complete")
  /\ UNCHANGED <<deposit, confirmed, delivered>>

\* The deposit is completed and the webhook answered; the wager requirement
\* and the bonus follow without anyone waiting for them.
CompleteDeposit(r) ==
  LET p == req[r].payment
  IN /\ req[r].pc = "complete"
     /\ deposit' = [deposit EXCEPT ![p].status = "COMPLETED", ![p].credited = TRUE]
     /\ delivered' = delivered \cup {p}
     /\ req' = [req EXCEPT ![r] =
                  [pc |-> "extras", payment |-> p, left |-> {"wager", "bonus"}]]
     /\ UNCHANGED <<moneyVars, confirmed>>

Extra(r) ==
  LET p == req[r].payment
      amount == deposit[p].amount
  IN /\ req[r].pc = "extras"
     /\ \E x \in req[r].left :
          /\ IF x = "wager" THEN AddWagerRequirement(Payee[p], amount)
                            ELSE ApplyDepositBonus(Payee[p], p, amount)
          /\ IF req[r].left = {x} THEN Answer(r)
                                   ELSE req' = [req EXCEPT ![r].left = @ \ {x}]
     /\ UNCHANGED <<deposit, confirmed, delivered>>

Handle(r) ==
  FindDeposit(r) \/ WriteDeposit(r) \/ WriteConflict(r) \/ CreditDeposit(r)
    \/ CompleteDeposit(r) \/ Extra(r)

-----------------------------------------------------------------------------

\* The process dies, or a statement fails, and the handler ends without an
\* answer; what it has committed stays.
Fail ==
  /\ failures < MaxFailures
  /\ failures' = failures + 1
  /\ \E r \in Requests : req[r] # Idle /\ Answer(r)
  /\ UNCHANGED <<moneyVars, promoVars, outVars, inVars>>

Next ==
  \/ \E r \in Requests : (Submit(r) \/ Withdraw(r)) /\ UNCHANGED <<promoVars, inVars, failures>>
  \/ \E s \in Slots : PayoutWebhook(s) /\ UNCHANGED <<promoVars, inVars, failures>>
  \/ \E p \in Payments : Confirm(p) /\ UNCHANGED <<promoVars, outVars, failures>>
  \/ \E r \in Requests, p \in Payments, token \in {"paid", "progress", "other"} :
       Deliver(r, p, token) /\ UNCHANGED <<promoVars, outVars, failures>>
  \/ \E r \in Requests : Handle(r) /\ UNCHANGED <<promoVars, outVars, failures>>
  \/ PromoNext /\ UNCHANGED <<outVars, inVars, req, failures>>
  \/ \E w \in Wallets, key \in OtherKeys, stake \in Stakes :
       PlaceStake(w, key, stake) /\ UNCHANGED <<promoVars, outVars, inVars, req, failures>>
  \/ Fail

Spec == Init /\ [][Next]_vars

(***************************************************************************)
(* Node runs every handler that can go on, and the provider sends the      *)
(* confirmation of a payment again until it is answered.                   *)
(***************************************************************************)
Fairness ==
  /\ \A r \in Requests :
       /\ WF_vars(Handle(r) /\ UNCHANGED <<promoVars, outVars, failures>>)
       /\ WF_vars(Withdraw(r) /\ UNCHANGED <<promoVars, inVars, failures>>)
  /\ \A p \in Payments :
       SF_vars(/\ p \notin delivered
               /\ \E r \in Requests : Deliver(r, p, "paid")
               /\ UNCHANGED <<promoVars, outVars, failures>>)

FairSpec == Spec /\ Fairness

-----------------------------------------------------------------------------

TypeOK ==
  /\ wallet \in [Wallets -> WalletRows]
  /\ withdrawal \in [Slots ->
       [status : {"NONE", "PENDING", "APPROVED", "BROADCASTED", "CONFIRMING",
                  "COMPLETED", "FAILED"},
        amount : Amounts \cup {0}, debited : BOOLEAN, tracked : BOOLEAN]]
  /\ deposit \in [Payments -> [status : {"NONE", "PENDING", "CONFIRMING", "COMPLETED"},
                               amount : Amounts \cup {0}, credited : BOOLEAN]]
  /\ delivered \subseteq confirmed /\ confirmed \subseteq Payments

RowsWithKey(w, key) == {i \in DOMAIN ledger[w] : ledger[w][i].key = key}

Posted(s, kind) == RowsWithKey(s[1], <<kind, s[2]>>)

\* The rows of them the cashier posted; the others are other services'.
Own(s, kind) == {i \in Posted(s, kind) : ledger[s[1]][i].reason = "ADJUST"}

Others(s, kind) == Posted(s, kind) \ Own(s, kind)

\* A withdrawal is paid out at most once, and only when its amount was taken
\* from the wallet, or another posting of the wallet was there under the key of
\* its debit: no retry, race or crash pays twice or pays without either.
OnePayout ==
  \A s \in Slots :
    payouts[s] > 0 =>
      /\ payouts[s] = 1
      /\ \/ \E i \in Own(s, "debit") : ledger[s[1]][i].amount = withdrawal[s].amount
         \/ Others(s, "debit") # {}

\* What the row says of a withdrawal is what the ledger did, unless another
\* posting was there under the key of the debit or of the refund: a refund
\* follows the debit it returns, the provider's track id belongs to a withdrawal
\* that was debited and not refunded, and one that failed before it had a track
\* id was.
WithdrawalAccounted ==
  \A s \in Slots :
    /\ Others(s, "debit") = {} =>
         /\ \A i \in Own(s, "revert") : \E j \in Own(s, "debit") :
              j < i /\ ledger[s[1]][j].amount = ledger[s[1]][i].amount
         /\ withdrawal[s].debited => Own(s, "debit") # {}
    /\ withdrawal[s].tracked => withdrawal[s].debited /\ Own(s, "revert") = {}
    /\ withdrawal[s].status = "FAILED" /\ ~withdrawal[s].tracked =>
         Own(s, "revert") # {} \/ Others(s, "revert") # {}

CreditRows(p) == {i \in DOMAIN ledger[Payee[p]] :
                    /\ ledger[Payee[p]][i].ref = NoRef
                    /\ ledger[Payee[p]][i].key[1] = "credit"
                    /\ ledger[Payee[p]][i].key[2] = p}

\* A payment is credited once, after the provider confirmed it, with the amount
\* of its deposit row, however often and in whatever order its webhooks come.
CreditedOnce ==
  \A p \in Payments :
    /\ Cardinality(CreditRows(p)) <= 1
    /\ CreditRows(p) # {} => p \in confirmed
    /\ \A i \in CreditRows(p) : ledger[Payee[p]][i].amount = deposit[p].amount
    /\ deposit[p].credited => CreditRows(p) # {}

\* A bonus is paid once per deposit, and only for one whose credit is posted.
BonusOnce ==
  \A p \in Payments :
    LET bonuses == {i \in DOMAIN ledger[Payee[p]] :
                      /\ ledger[Payee[p]][i].reason = "BONUS"
                      /\ ledger[Payee[p]][i].ref = p}
    IN /\ Cardinality(bonuses) <= 1
       /\ \A i \in bonuses : \E j \in CreditRows(p) : j < i

\* Repeated, early and concurrent webhooks credit a payment once and its bonus
\* once, after the credit, and keep the rows well-formed.
DepositsAddUp == TypeOK /\ CreditedOnce /\ BonusOnce

\* A credited deposit stays credited, and its amount stays: no late or repeated
\* webhook opens it again.
CreditedStays ==
  [][\A p \in Payments :
       deposit[p].credited => deposit'[p].credited /\ deposit'[p].amount = deposit[p].amount]_vars

\* A payment the provider confirmed is credited in the end.
PaymentsCredited == \A p \in Payments : p \in confirmed ~> deposit[p].credited
=============================================================================
