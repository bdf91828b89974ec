--------------------------- MODULE Cashier_proofs ---------------------------
(***************************************************************************)
(* Every withdrawal is paid out at most once and accounted for, and every  *)
(* payment is credited once, for any number of handlers, wallets, keys,    *)
(* payments and stakes of other services, whichever keys of withdrawals'   *)
(* postings those use, and any number of handlers that die.                *)
(*                                                                         *)
(* The argument: a handler that created a withdrawal row owns it (unique   *)
(* row per wallet and key), so the row, the payouts and the cashier's own  *)
(* postings under its keys are where that handler's program counter says   *)
(* they are, and another service's posting under a key is there for good;  *)
(* and a ledger holds one row per key, so a payment's credit is there      *)
(* once, whichever of its webhooks posted it.                              *)
(***************************************************************************)
EXTENDS Cashier, Ledgers_proofs

WithdrawalStatuses ==
  {"NONE", "PENDING", "APPROVED", "BROADCASTED", "CONFIRMING", "COMPLETED", "FAILED"}

WithdrawalRows ==
  [status : WithdrawalStatuses, amount : Amounts \cup {0}, debited : BOOLEAN,
   tracked : BOOLEAN]

DepositRows ==
  [status : {"NONE", "PENDING", "CONFIRMING", "COMPLETED"}, amount : Amounts \cup {0},
   credited : BOOLEAN]

Tokens == {"paid", "progress", "other"}

\* The calls of createCashierWithdrawal, before and after they own their row.
Owned == {"debit", "approve", "payout", "store", "revert", "fail"}

WithdrawCalls ==
  [pc : {"check", "lookup", "create"} \cup Owned, wallet : Wallets, key : Keys,
   amount : Amounts]

\* The webhooks, from their first query to the answer, and after it.
FindCalls == [pc : {"find"}, payment : Payments, token : Tokens]

WriteCalls ==
  [pc : {"write", "credit", "complete"}, payment : Payments, token : Tokens,
   seen : DepositRows]

ExtraCalls == [pc : {"extras"}, payment : Payments, left : SUBSET {"wager", "bonus"}]

Calls == {Idle} \cup WithdrawCalls \cup FindCalls \cup WriteCalls \cup ExtraCalls

MovementKeys == ({"debit", "revert"} \X Keys) \cup ({"credit"} \X Payments)

BonusKeys == ({"promo"} \X Promos) \cup ({"bonus"} \X Payments)

\* A row of adjustWalletBalance refers to nothing, one of a bonus to its source.
AdjustRows ==
  [reason : {"ADJUST"}, direction : {"CREDIT", "DEBIT"}, amount : Nat,
   before : 0..BigintMax, after : 0..BigintMax, key : MovementKeys, ref : {NoRef}]

BonusRows ==
  [reason : {"BONUS"}, direction : {"CREDIT", "DEBIT"}, amount : Nat,
   before : 0..BigintMax, after : 0..BigintMax, key : BonusKeys,
   ref : Payments \cup Promos]

HoldRows ==
  [reason : {"BET_HOLD"}, direction : {"DEBIT"}, amount : Nat,
   before : 0..BigintMax, after : 0..BigintMax, key : OtherKeys, ref : {NoRef}]

LedgerRows == AdjustRows \cup HoldRows \cup BonusRows

TypeInv ==
  /\ wallet \in [Wallets -> WalletRows]
  /\ ledger \in [Wallets -> Seq(LedgerRows)]
  /\ withdrawal \in [Slots -> WithdrawalRows]
  /\ payouts \in [Slots -> Nat]
  /\ deposit \in [Payments -> DepositRows]
  /\ delivered \subseteq confirmed /\ confirmed \subseteq Payments
  /\ req \in [Requests -> Calls]

\* A key is in a wallet's ledger once, and a bonus is posted under the key of
\* what it refers to.
LedgerInv ==
  \A w \in Wallets :
    /\ KeysDistinct(ledger[w])
    /\ \A i \in DOMAIN ledger[w] :
         ledger[w][i].reason = "BONUS" /\ ledger[w][i].ref \in Payments =>
           ledger[w][i].key = <<"bonus", ledger[w][i].ref>>

Owns(r) == req[r].pc \in Owned

\* The amount of the row was taken from the wallet, or another service's posting
\* has the key under which it would have been.
Taken(s) == \/ \E i \in Own(s, "debit") : ledger[s[1]][i].amount = withdrawal[s].amount
            \/ Others(s, "debit") # {}

\* The row, the payouts and the postings are where the owner's next step says.
OwnerInv(r) ==
  LET s == Slot(r)
      pc == req[r].pc
      row == withdrawal[s]
  IN /\ row.status # "NONE" /\ row.status # "FAILED" /\ ~row.tracked
     /\ row.amount = req[r].amount
     /\ IF pc = "debit" THEN Own(s, "debit") = {} ELSE Taken(s)
     /\ pc \in {"debit", "approve"} => ~row.debited
     /\ pc \notin {"debit", "approve"} => row.debited
     /\ pc \in {"debit", "approve", "payout"} => payouts[s] = 0
     /\ IF pc = "fail" THEN Posted(s, "revert") # {} ELSE Own(s, "revert") = {}

SlotInv(s) ==
  LET row == withdrawal[s]
  IN /\ row.status = "NONE" => /\ row = NoWithdrawal /\ payouts[s] = 0
                               /\ Own(s, "debit") = {} /\ Own(s, "revert") = {}
     /\ payouts[s] > 0 => payouts[s] = 1 /\ Taken(s)
     /\ Others(s, "debit") = {} =>
          \A i \in Own(s, "revert") : \E j \in Own(s, "debit") :
            j < i /\ ledger[s[1]][j].amount = ledger[s[1]][i].amount
     /\ row.debited => Taken(s)
     /\ row.tracked => row.debited /\ Own(s, "revert") = {}
     /\ row.status = "FAILED" /\ ~row.tracked => Posted(s, "revert") # {}

WithdrawInv ==
  /\ \A r \in Requests : Owns(r) => OwnerInv(r)
  /\ \A q, r \in Requests : Owns(q) /\ Owns(r) /\ Slot(q) = Slot(r) => q = r
  /\ \A s \in Slots : SlotInv(s)

\* The credit of a payment, the one row under its key.
Credit(p) == RowsWithKey(Payee[p], <<"credit", p>>)

\* What a webhook that has begun may rely on.
WebhookInv(r) ==
  LET p == req[r].payment
      pc == req[r].pc
  IN /\ pc \in {"find", "write"} => (req[r].token = "paid" => p \in confirmed)
     /\ pc \in {"credit", "complete"} => p \in confirmed
     /\ pc = "write" /\ req[r].seen # NoDeposit =>
          deposit[p] # NoDeposit /\ req[r].seen.status # "NONE"
     /\ pc \in {"credit", "complete", "extras"} => deposit[p] # NoDeposit
     /\ pc \in {"complete", "extras"} => Credit(p) # {}

PaymentInv(p) ==
  /\ deposit[p] # NoDeposit => deposit[p].status # "NONE" /\ deposit[p].amount \in Amounts
  /\ deposit[p].credited => Credit(p) # {}
  /\ Credit(p) # {} => p \in confirmed /\ deposit[p] # NoDeposit
  /\ \A i \in Credit(p) : ledger[Payee[p]][i].amount = deposit[p].amount
  /\ \A i \in RowsWithKey(Payee[p], <<"bonus", p>>) : \E j \in Credit(p) : j < i

DepositInv ==
  /\ \A r \in Requests : req[r].pc \in {"find", "write", "credit", "complete", "extras"} =>
                           WebhookInv(r)
  /\ \A p \in Payments : PaymentInv(p)

IInv == TypeInv /\ LedgerInv /\ WithdrawInv /\ DepositInv

-----------------------------------------------------------------------------
(***************************************************************************)
(* Calls.                                                                  *)
(***************************************************************************)

\* The program counter of a call tells which call it is.
LEMMA CallTypes ==
  ASSUME TypeInv, NEW r \in Requests
  PROVE  /\ req[r].pc \in {"check", "lookup", "create"} \cup Owned => req[r] \in WithdrawCalls
         /\ req[r].pc = "find" => req[r] \in FindCalls
         /\ req[r].pc \in {"write", "credit", "complete"} => req[r] \in WriteCalls
         /\ req[r].pc = "extras" => req[r] \in ExtraCalls
<1>1. req[r] \in Calls
  BY DEF TypeInv
<1>2. Idle.pc = "idle"
  BY DEF Idle
<1>3. \A c \in WithdrawCalls : c.pc \in {"check", "lookup", "create"} \cup Owned
  BY DEF WithdrawCalls
<1>4. \A c \in FindCalls : c.pc = "find"
  BY DEF FindCalls
<1>5. \A c \in WriteCalls : c.pc \in {"write", "credit", "complete"}
  BY DEF WriteCalls
<1>6. \A c \in ExtraCalls : c.pc = "extras"
  BY DEF ExtraCalls
<1>7. QED  BY <1>1, <1>2, <1>3, <1>4, <1>5, <1>6 DEF Calls, Owned

\* A call that answers is idle again, and no other call moves.
LEMMA AnswerEffect ==
  ASSUME TypeInv, NEW r \in Requests, Answer(r)
  PROVE  /\ req' \in [Requests -> Calls]
         /\ req'[r].pc = "idle" /\ \A q \in Requests \ {r} : req'[q] = req[q]
BY DEF Answer, TypeInv, Calls, Idle

\* A withdrawal that goes on keeps its arguments, and no other call moves.
LEMMA GotoEffect ==
  ASSUME TypeInv, NEW r \in Requests, req[r] \in WithdrawCalls,
         NEW pc \in {"check", "lookup", "create"} \cup Owned, Goto(r, pc)
  PROVE  /\ req' \in [Requests -> Calls]
         /\ req'[r].pc = pc /\ req'[r].wallet = req[r].wallet
         /\ req'[r].key = req[r].key /\ req'[r].amount = req[r].amount
         /\ \A q \in Requests \ {r} : req'[q] = req[q]
<1> DEFINE call == [req[r] EXCEPT !.pc = pc]
<1>1. call \in WithdrawCalls
  BY DEF WithdrawCalls
<1>2. /\ call.pc = pc /\ call.wallet = req[r].wallet
      /\ call.key = req[r].key /\ call.amount = req[r].amount
  BY DEF WithdrawCalls
<1>3. req' = [req EXCEPT ![r] = call] /\ req \in [Requests -> Calls]
  BY DEF Goto, TypeInv
<1> HIDE DEF call
<1>4. QED  BY <1>1, <1>2, <1>3 DEF Calls

\* A webhook that goes on keeps its payment, and no other call moves.
LEMMA WebhookGoto ==
  ASSUME TypeInv, NEW r \in Requests, req[r] \in WriteCalls,
         NEW pc \in {"credit", "complete"}, Goto(r, pc)
  PROVE  /\ req' \in [Requests -> Calls]
         /\ req'[r].pc = pc /\ req'[r].payment = req[r].payment
         /\ \A q \in Requests \ {r} : req'[q] = req[q]
<1> DEFINE call == [req[r] EXCEPT !.pc = pc]
<1>1. call \in WriteCalls /\ call.pc = pc /\ call.payment = req[r].payment
  BY DEF WriteCalls
<1>2. req' = [req EXCEPT ![r] = call] /\ req \in [Requests -> Calls]
  BY DEF Goto, TypeInv
<1> HIDE DEF call
<1>3. QED  BY <1>1, <1>2 DEF Calls

-----------------------------------------------------------------------------
(***************************************************************************)
(* Postings.                                                               *)
(***************************************************************************)

\* Amounts are positive and fit a column.
LEMMA Numbers == /\ BigintMax \in Nat /\ 0 \in 0..BigintMax
                 /\ \A a \in Amounts : a \in Nat /\ a > 0 /\ a \in 0..BigintMax
BY BigintAssumption, CashierAssumption

\* What appending a row under an unused key does to the rows of every key.
LEMMA PostEffect ==
  ASSUME TypeInv, NEW w \in Wallets, NEW e \in LedgerRows, ~KeyUsed(w, e.key), Post(w, e)
  PROVE  /\ ledger' \in [Wallets -> Seq(LedgerRows)]
         /\ \A v \in Wallets : \A i \in DOMAIN ledger[v] :
              i \in DOMAIN ledger'[v] /\ ledger'[v][i] = ledger[v][i]
         /\ \A v \in Wallets : \A i \in DOMAIN ledger'[v] :
              i \in DOMAIN ledger[v] \/ (v = w /\ i = Len(ledger[w]) + 1)
         /\ \A i \in DOMAIN ledger[w] : i < Len(ledger[w]) + 1
         /\ Len(ledger[w]) + 1 \in DOMAIN ledger'[w]
         /\ ledger'[w][Len(ledger[w]) + 1] = e
<1>1. ledger[w] \in Seq(LedgerRows) /\ ledger \in [Wallets -> Seq(LedgerRows)]
  BY DEF TypeInv
<1> DEFINE new == Append(ledger[w], e)
<1>2. /\ new \in Seq(LedgerRows) /\ Len(ledger[w]) \in Nat
      /\ DOMAIN ledger[w] = 1..Len(ledger[w])
      /\ DOMAIN new = 1..(Len(ledger[w]) + 1)
      /\ new[Len(ledger[w]) + 1] = e
      /\ \A i \in 1..Len(ledger[w]) : new[i] = ledger[w][i]
  BY <1>1
<1>3. ledger' = [ledger EXCEPT ![w] = new]
  BY DEF Post
<1> HIDE DEF new
<1>4. ledger'[w] = new /\ \A v \in Wallets \ {w} : ledger'[v] = ledger[v]
  BY <1>1, <1>3
<1>5. ledger' \in [Wallets -> Seq(LedgerRows)]
  BY <1>1, <1>2, <1>3
<1>6. \A i \in 1..(Len(ledger[w]) + 1) : i \in 1..Len(ledger[w]) \/ i = Len(ledger[w]) + 1
  BY <1>2
<1>7. ASSUME NEW v \in Wallets
      PROVE  /\ \A i \in DOMAIN ledger[v] :
                  i \in DOMAIN ledger'[v] /\ ledger'[v][i] = ledger[v][i]
             /\ \A i \in DOMAIN ledger'[v] :
                  i \in DOMAIN ledger[v] \/ (v = w /\ i = Len(ledger[w]) + 1)
  <2>1. CASE v # w
    BY <1>4, <2>1
  <2>2. CASE v = w
    <3>1. \A i \in 1..Len(ledger[w]) : i \in 1..(Len(ledger[w]) + 1)
      BY <1>2
    <3>2. QED  BY <1>2, <1>4, <1>6, <2>2, <3>1
  <2>3. QED  BY <2>1, <2>2
<1>8. \A i \in DOMAIN ledger[w] : i < Len(ledger[w]) + 1
  BY <1>2
<1>9. Len(ledger[w]) + 1 \in DOMAIN ledger'[w] /\ ledger'[w][Len(ledger[w]) + 1] = e
  BY <1>2, <1>4
<1>10. QED  BY <1>5, <1>7, <1>8, <1>9

\* The rows under a key stay as they are.
RowsKept(v, key) ==
  /\ RowsWithKey(v, key)' = RowsWithKey(v, key)
  /\ \A i \in RowsWithKey(v, key) : ledger'[v][i] = ledger[v][i]

\* A posting leaves the rows of every other key and wallet alone, and its own
\* row is the only one of its key.
LEMMA PostRows ==
  ASSUME TypeInv, NEW w \in Wallets, NEW e \in LedgerRows, ~KeyUsed(w, e.key), Post(w, e)
  PROVE  /\ \A v \in Wallets : \A key : v # w \/ key # e.key => RowsKept(v, key)
         /\ RowsWithKey(w, e.key) = {}
         /\ RowsWithKey(w, e.key)' = {Len(ledger[w]) + 1}
<1>1. ASSUME NEW v \in Wallets, NEW key, v # w \/ key # e.key
      PROVE  RowsKept(v, key)
  BY <1>1, PostEffect DEF RowsKept, RowsWithKey
<1>2. RowsWithKey(w, e.key) = {}
  BY DEF RowsWithKey, KeyUsed
<1>3. RowsWithKey(w, e.key)' = {Len(ledger[w]) + 1}
  BY <1>2, PostEffect DEF RowsWithKey
<1>4. QED  BY <1>1, <1>2, <1>3

\* Nothing changes when nothing is posted.
LEMMA RowsStay == UNCHANGED ledger => \A v, key : RowsKept(v, key)
BY DEF RowsKept, RowsWithKey

\* An adjustment posts one row with its amount under its key, unless the key
\* was posted before.
LEMMA AdjustedEffect ==
  ASSUME TypeInv, NEW w \in Wallets, NEW delta \in Int, NEW key \in MovementKeys,
         Adjusted(w, delta, key)
  PROVE  /\ wallet' \in [Wallets -> WalletRows]
         /\ \/ KeyUsed(w, key) /\ UNCHANGED ledger
            \/ \E e \in AdjustRows :
                 /\ ~KeyUsed(w, key) /\ Post(w, e) /\ e.key = key
                 /\ e.amount = IF delta > 0 THEN delta ELSE -delta
<1>1. CASE KeyUsed(w, key) /\ UNCHANGED moneyVars
  BY <1>1 DEF moneyVars, TypeInv
<1>2. CASE AdjustWalletBalance(w, delta, key)
  <2> DEFINE before == wallet[w].balance
             after == before + delta
             amount == IF delta > 0 THEN delta ELSE -delta
             e == Entry("ADJUST", IF delta > 0 THEN "CREDIT" ELSE "DEBIT", amount,
                        before, after, key, NoRef)
  <2>1. wallet[w] \in WalletRows /\ wallet \in [Wallets -> WalletRows]
    BY DEF TypeInv
  <2>2. /\ before \in 0..BigintMax /\ after \in 0..BigintMax /\ amount \in Nat
    BY <1>2, <2>1 DEF AdjustWalletBalance, Fits, WalletRows
  <2>3. /\ ~KeyUsed(w, key) /\ Post(w, e)
        /\ wallet' = [wallet EXCEPT ![w].balance = after]
    BY <1>2 DEF AdjustWalletBalance
  <2> HIDE DEF after, amount
  <2>4. [wallet[w] EXCEPT !.balance = after] \in WalletRows
    BY <2>1, <2>2 DEF WalletRows
  <2>5. wallet' \in [Wallets -> WalletRows]
    BY <2>1, <2>3, <2>4
  <2>6. e \in AdjustRows /\ e.key = key /\ e.amount = amount
    BY <2>2 DEF Entry, AdjustRows
  <2>7. QED  BY <2>3, <2>5, <2>6 DEF amount
<1>3. QED  BY <1>1, <1>2 DEF Adjusted

\* A bonus posts one row that refers to its source under a key of its own.
LEMMA BonusEffect ==
  ASSUME TypeInv, NEW w \in Wallets, NEW amount \in Nat, NEW key \in BonusKeys,
         NEW ref \in Payments \cup Promos, CreditBonus(w, amount, key, ref)
  PROVE  /\ wallet' \in [Wallets -> WalletRows]
         /\ \E e \in BonusRows :
              ~KeyUsed(w, key) /\ Post(w, e) /\ e.key = key /\ e.ref = ref
<1> DEFINE before == wallet[w].balance
           after == before + amount
           wager == wallet[w].wager + amount
           e == Entry("BONUS", "CREDIT", amount, before, after, key, ref)
<1>1. wallet[w] \in WalletRows /\ wallet \in [Wallets -> WalletRows]
  BY DEF TypeInv
<1>2. /\ ~KeyUsed(w, key) /\ after \in 0..BigintMax /\ Post(w, e)
      /\ wallet' = [wallet EXCEPT ![w].balance = @ + amount, ![w].wager = @ + amount]
  BY DEF CreditBonus, WithBonus, Fits
<1>3. before \in 0..BigintMax /\ wager \in Nat
  BY <1>1 DEF WalletRows
<1>4. wallet' = [wallet EXCEPT ![w] = [@ EXCEPT !.balance = after, !.wager = wager]]
  BY <1>1, <1>2 DEF WalletRows
<1> HIDE DEF after, wager
<1>5. [wallet[w] EXCEPT !.balance = after, !.wager = wager] \in WalletRows
  BY <1>1, <1>2, <1>3 DEF WalletRows
<1>6. wallet' \in [Wallets -> WalletRows]
  BY <1>1, <1>4, <1>5
<1>7. e \in BonusRows /\ e.key = key /\ e.ref = ref
  BY <1>2, <1>3 DEF Entry, BonusRows
<1>8. QED  BY <1>2, <1>6, <1>7

\* A posting keeps the keys distinct and the bonuses under the keys of what
\* they refer to.
LEMMA LedgerPosted ==
  ASSUME TypeInv, LedgerInv, NEW w \in Wallets, NEW e \in LedgerRows,
         ~KeyUsed(w, e.key), Post(w, e),
         e.reason = "BONUS" /\ e.ref \in Payments => e.key = <<"bonus", e.ref>>
  PROVE  LedgerInv'
<1> SUFFICES ASSUME NEW v \in Wallets
             PROVE  /\ KeysDistinct(ledger'[v])
                    /\ \A i \in DOMAIN ledger'[v] :
                         ledger'[v][i].reason = "BONUS" /\ ledger'[v][i].ref \in Payments =>
                           ledger'[v][i].key = <<"bonus", ledger'[v][i].ref>>
  BY DEF LedgerInv
<1> DEFINE last == Len(ledger[w]) + 1
<1>1. /\ \A i \in DOMAIN ledger[v] : i \in DOMAIN ledger'[v] /\ ledger'[v][i] = ledger[v][i]
      /\ \A i \in DOMAIN ledger'[v] : i \in DOMAIN ledger[v] \/ (v = w /\ i = last)
      /\ ledger'[w][last] = e
  BY PostEffect
<1>2. \A i \in DOMAIN ledger[w] : ledger[w][i].key # e.key
  BY DEF KeyUsed
<1>3. /\ \A i, j \in DOMAIN ledger[v] : ledger[v][i].key = ledger[v][j].key => i = j
      /\ \A i \in DOMAIN ledger[v] :
           ledger[v][i].reason = "BONUS" /\ ledger[v][i].ref \in Payments =>
             ledger[v][i].key = <<"bonus", ledger[v][i].ref>>
  BY DEF LedgerInv, KeysDistinct
<1> HIDE DEF last
<1>4. ASSUME NEW i \in DOMAIN ledger'[v], NEW j \in DOMAIN ledger'[v],
             ledger'[v][i].key = ledger'[v][j].key
      PROVE  i = j
  BY <1>1, <1>2, <1>3, <1>4
<1>5. ASSUME NEW i \in DOMAIN ledger'[v], ledger'[v][i].reason = "BONUS",
             ledger'[v][i].ref \in Payments
      PROVE  ledger'[v][i].key = <<"bonus", ledger'[v][i].ref>>
  <2>1. CASE i \in DOMAIN ledger[v]
    BY <1>1, <1>3, <1>5, <2>1
  <2>2. CASE v = w /\ i = last
    BY <1>1, <1>5, <2>2
  <2>3. QED  BY <1>1, <2>1, <2>2
<1>6. QED  BY <1>4, <1>5 DEF KeysDistinct

\* Without a posting they stay so.
LEMMA LedgerStays == LedgerInv /\ UNCHANGED ledger => LedgerInv'
BY DEF LedgerInv

\* An adjustment in whole: the wallets, the ledger and the rows of every key.
LEMMA AdjustedRows ==
  ASSUME TypeInv, LedgerInv, NEW w \in Wallets, NEW delta \in Int,
         NEW key \in MovementKeys, Adjusted(w, delta, key)
  PROVE  /\ wallet' \in [Wallets -> WalletRows]
         /\ ledger' \in [Wallets -> Seq(LedgerRows)]
         /\ LedgerInv'
         /\ \A v \in Wallets : \A k : v # w \/ k # key => RowsKept(v, k)
         /\ \/ RowsWithKey(w, key) # {} /\ RowsKept(w, key)
            \/ /\ RowsWithKey(w, key) = {}
               /\ RowsWithKey(w, key)' = {Len(ledger[w]) + 1}
               /\ ledger'[w][Len(ledger[w]) + 1].amount = IF delta > 0 THEN delta ELSE -delta
               /\ ledger'[w][Len(ledger[w]) + 1].reason = "ADJUST"
               /\ \A i \in DOMAIN ledger[w] : i < Len(ledger[w]) + 1
<1>1. wallet' \in [Wallets -> WalletRows]
  BY AdjustedEffect
<1>2. CASE KeyUsed(w, key) /\ UNCHANGED ledger
  <2>1. \A v, k : RowsKept(v, k)
    BY <1>2, RowsStay
  <2>2. RowsWithKey(w, key) # {}
    BY <1>2 DEF KeyUsed, RowsWithKey
  <2>3. ledger' \in [Wallets -> Seq(LedgerRows)] /\ LedgerInv'
    BY <1>2, LedgerStays DEF TypeInv
  <2>4. QED  BY <1>1, <2>1, <2>2, <2>3
<1>3. CASE \E e \in AdjustRows :
             /\ ~KeyUsed(w, key) /\ Post(w, e) /\ e.key = key
             /\ e.amount = IF delta > 0 THEN delta ELSE -delta
  <2>1. PICK e \in AdjustRows :
          /\ ~KeyUsed(w, key) /\ Post(w, e) /\ e.key = key
          /\ e.amount = IF delta > 0 THEN delta ELSE -delta
    BY <1>3
  <2>2. e \in LedgerRows /\ e.reason = "ADJUST"
    BY DEF LedgerRows, AdjustRows
  <2>3. LedgerInv'
    BY <2>1, <2>2, LedgerPosted
  <2>4. /\ \A v \in Wallets : \A k : v # w \/ k # key => RowsKept(v, k)
        /\ RowsWithKey(w, key) = {}
        /\ RowsWithKey(w, key)' = {Len(ledger[w]) + 1}
    BY <2>1, <2>2, PostRows
  <2>5. /\ ledger' \in [Wallets -> Seq(LedgerRows)]
        /\ ledger'[w][Len(ledger[w]) + 1] = e
        /\ \A i \in DOMAIN ledger[w] : i < Len(ledger[w]) + 1
    BY <2>1, <2>2, PostEffect
  <2>6. /\ ledger'[w][Len(ledger[w]) + 1].amount = IF delta > 0 THEN delta ELSE -delta
        /\ ledger'[w][Len(ledger[w]) + 1].reason = "ADJUST"
    BY <2>1, <2>2, <2>5, Zenon
  <2>7. QED  BY <1>1, <2>3, <2>4, <2>5, <2>6
<1>4. QED  BY <1>2, <1>3, AdjustedEffect

\* A bonus in whole, when the key tells the source.
LEMMA BonusedRows ==
  ASSUME TypeInv, LedgerInv, NEW w \in Wallets, NEW amount \in Nat, NEW key \in BonusKeys,
         NEW ref \in Payments \cup Promos, ref \in Payments => key = <<"bonus", ref>>,
         CreditBonus(w, amount, key, ref)
  PROVE  /\ wallet' \in [Wallets -> WalletRows]
         /\ ledger' \in [Wallets -> Seq(LedgerRows)]
         /\ LedgerInv'
         /\ \A v \in Wallets : \A k : v # w \/ k # key => RowsKept(v, k)
         /\ RowsWithKey(w, key)' = {Len(ledger[w]) + 1}
         /\ \A i \in DOMAIN ledger[w] : i < Len(ledger[w]) + 1
<1>1. PICK e \in BonusRows : ~KeyUsed(w, key) /\ Post(w, e) /\ e.key = key /\ e.ref = ref
  BY BonusEffect
<1>2. e \in LedgerRows
  BY DEF LedgerRows
<1>3. LedgerInv'
  BY <1>1, <1>2, LedgerPosted
<1>4. /\ \A v \in Wallets : \A k : v # w \/ k # key => RowsKept(v, k)
      /\ RowsWithKey(w, key)' = {Len(ledger[w]) + 1}
  BY <1>1, <1>2, PostRows
<1>5. /\ ledger' \in [Wallets -> Seq(LedgerRows)]
      /\ \A i \in DOMAIN ledger[w] : i < Len(ledger[w]) + 1
  BY <1>1, <1>2, PostEffect
<1>6. QED  BY <1>3, <1>4, <1>5, BonusEffect

-----------------------------------------------------------------------------
(***************************************************************************)
(* What a step leaves alone.                                               *)
(***************************************************************************)

Webhooks == {"find", "write", "credit", "complete", "extras"}

\* The cashier's postings of a slot stay, and other services' at most come.
OwnKept(s) ==
  \A kind \in {"debit", "revert"} :
    /\ Own(s, kind)' = Own(s, kind)
    /\ \A i \in Own(s, kind) : ledger'[s[1]][i] = ledger[s[1]][i]
    /\ Others(s, kind) \subseteq Others(s, kind)'

\* The withdrawals, their payouts and postings, and the handlers that own one.
OutKept ==
  /\ UNCHANGED <<withdrawal, payouts>>
  /\ \A s \in Slots : OwnKept(s)
  /\ \A r \in Requests : req'[r] = req[r] \/ req'[r].pc \notin Owned

\* The deposits and their postings; a payment once confirmed stays confirmed.
PaymentsKept ==
  /\ UNCHANGED deposit /\ confirmed \subseteq confirmed'
  /\ \A p \in Payments : RowsKept(Payee[p], <<"credit", p>>) /\ RowsKept(Payee[p], <<"bonus", p>>)

WebhooksKept == \A r \in Requests : req'[r] = req[r] \/ req'[r].pc \notin Webhooks

\* Rows under the keys of a slot that stay keep its postings.
LEMMA KeptOwn ==
  ASSUME NEW s \in Slots,
         RowsKept(s[1], <<"debit", s[2]>>), RowsKept(s[1], <<"revert", s[2]>>)
  PROVE  OwnKept(s)
BY DEF RowsKept, OwnKept, Own, Others, Posted

\* What is posted is the cashier's or another's.
LEMMA OwnOrOther ==
  \A s, kind : /\ Posted(s, kind) # {} <=> Own(s, kind) # {} \/ Others(s, kind) # {}
               /\ (Posted(s, kind) # {} <=> Own(s, kind) # {} \/ Others(s, kind) # {})'
BY DEF Own, Others

\* A slot whose row, payouts and postings stay is as before.
LEMMA SlotKept ==
  ASSUME NEW s \in Slots, withdrawal'[s] = withdrawal[s], payouts'[s] = payouts[s],
         OwnKept(s)
  PROVE  /\ SlotInv(s) => SlotInv(s)'
         /\ Taken(s) => Taken(s)'
         /\ Own(s, "debit")' = Own(s, "debit")
         /\ Own(s, "revert")' = Own(s, "revert")
         /\ Posted(s, "revert") # {} => Posted(s, "revert")' # {}
<1>1. /\ Own(s, "debit")' = Own(s, "debit")
      /\ Own(s, "revert")' = Own(s, "revert")
      /\ \A i \in Own(s, "debit") : ledger'[s[1]][i] = ledger[s[1]][i]
      /\ \A i \in Own(s, "revert") : ledger'[s[1]][i] = ledger[s[1]][i]
      /\ Others(s, "debit") # {} => Others(s, "debit")' # {}
      /\ Others(s, "revert") # {} => Others(s, "revert")' # {}
  BY DEF OwnKept
<1>2. Taken(s) => Taken(s)'
  BY <1>1 DEF Taken
<1>3. Posted(s, "revert") # {} => Posted(s, "revert")' # {}
  BY <1>1, OwnOrOther
<1>4. SlotInv(s) => SlotInv(s)'
  BY <1>1, <1>2, <1>3 DEF SlotInv
<1>5. QED  BY <1>1, <1>2, <1>3, <1>4

\* An owner that does not move, of a slot that stays, is where it was.
LEMMA OwnerKept ==
  ASSUME TypeInv, NEW r \in Requests, Owns(r), OwnerInv(r), req'[r] = req[r],
         withdrawal'[Slot(r)] = withdrawal[Slot(r)], payouts'[Slot(r)] = payouts[Slot(r)],
         OwnKept(Slot(r))
  PROVE  OwnerInv(r)'
<1>1. PICK s \in Slots : s = Slot(r)
  BY CallTypes DEF Owns, Slot, Slots, WithdrawCalls
<1>2. Slot(r)' = s
  BY <1>1 DEF Slot
<1>3. /\ Taken(s) => Taken(s)'
      /\ Own(s, "debit")' = Own(s, "debit")
      /\ Own(s, "revert")' = Own(s, "revert")
      /\ Posted(s, "revert") # {} => Posted(s, "revert")' # {}
  BY <1>1, SlotKept
<1>4. QED  BY <1>1, <1>2, <1>3 DEF OwnerInv

\* A step that leaves the withdrawals alone keeps what holds of them.
LEMMA WithdrawStays == TypeInv /\ WithdrawInv /\ OutKept => WithdrawInv'
<1> SUFFICES ASSUME TypeInv, WithdrawInv, OutKept PROVE WithdrawInv'
  OBVIOUS
<1>1. \A r \in Requests : Owns(r)' => req'[r] = req[r] /\ Owns(r)
  BY DEF OutKept, Owns
<1>2. ASSUME NEW r \in Requests, Owns(r)' PROVE OwnerInv(r)'
  <2>1. Slot(r) \in Slots
    BY <1>1, <1>2, CallTypes DEF Owns, Slot, Slots, WithdrawCalls
  <2>2. QED  BY <1>1, <1>2, <2>1, OwnerKept DEF WithdrawInv, OutKept
<1>3. \A q, r \in Requests : Owns(q)' /\ Owns(r)' /\ Slot(q)' = Slot(r)' => q = r
  BY <1>1 DEF WithdrawInv, Slot
<1>4. \A s \in Slots : SlotInv(s)'
  BY SlotKept DEF WithdrawInv, OutKept
<1>5. QED  BY <1>2, <1>3, <1>4 DEF WithdrawInv

\* A payment whose row and postings stay is as before, and so is what a
\* webhook relies on.
LEMMA PaymentKept ==
  ASSUME NEW p \in Payments, deposit'[p] = deposit[p], confirmed \subseteq confirmed',
         RowsKept(Payee[p], <<"credit", p>>), RowsKept(Payee[p], <<"bonus", p>>)
  PROVE  /\ PaymentInv(p) => PaymentInv(p)'
         /\ Credit(p)' = Credit(p)
<1>1. /\ Credit(p)' = Credit(p)
      /\ RowsWithKey(Payee[p], <<"bonus", p>>)' = RowsWithKey(Payee[p], <<"bonus", p>>)
      /\ \A i \in Credit(p) : ledger'[Payee[p]][i] = ledger[Payee[p]][i]
  BY DEF Credit, RowsKept
<1>2. QED  BY <1>1 DEF PaymentInv

\* What a webhook that does not move relies on stays, if the payments do.
LEMMA WebhookKept ==
  ASSUME NEW r \in Requests, WebhookInv(r), req'[r] = req[r], req[r].payment \in Payments,
         PaymentsKept
  PROVE  WebhookInv(r)'
BY PaymentKept DEF WebhookInv, PaymentsKept, RowsKept, Credit

\* A step that leaves the payments alone keeps what holds of them.
LEMMA DepositStays == TypeInv /\ DepositInv /\ PaymentsKept /\ WebhooksKept => DepositInv'
<1> SUFFICES ASSUME TypeInv, DepositInv, PaymentsKept, WebhooksKept PROVE DepositInv'
  OBVIOUS
<1>1. ASSUME NEW r \in Requests, req'[r].pc \in Webhooks PROVE WebhookInv(r)'
  <2>1. req'[r] = req[r]
    BY <1>1 DEF WebhooksKept
  <2>2. req[r].payment \in Payments /\ WebhookInv(r)
    BY <1>1, <2>1, CallTypes DEF Webhooks, DepositInv, FindCalls, WriteCalls, ExtraCalls
  <2>3. QED  BY <2>1, <2>2, WebhookKept
<1>2. \A p \in Payments : PaymentInv(p)'
  BY PaymentKept DEF DepositInv, PaymentsKept
<1>3. QED  BY <1>1, <1>2 DEF DepositInv, Webhooks

-----------------------------------------------------------------------------
(***************************************************************************)
(* Withdrawals.                                                            *)
(***************************************************************************)

\* A step of a handler in its own slot, which no other handler owns.
LEMMA OwnerStep ==
  ASSUME TypeInv, WithdrawInv, NEW r \in Requests, NEW s \in Slots, Slot(r) = s,
         Owns(r) \/ withdrawal[s].status = "NONE",
         \A q \in Requests \ {r} : req'[q] = req[q],
         req'[r].pc \in Owned => Slot(r)' = s /\ OwnerInv(r)',
         \A t \in Slots \ {s} : /\ withdrawal'[t] = withdrawal[t] /\ payouts'[t] = payouts[t]
                                /\ OwnKept(t),
         SlotInv(s)'
  PROVE  WithdrawInv'
<1>1. ASSUME NEW q \in Requests \ {r}, Owns(q)'
      PROVE  Owns(q) /\ req'[q] = req[q] /\ Slot(q) \in Slots \ {s} /\ Slot(q)' = Slot(q)
  <2>1. Owns(q) /\ req'[q] = req[q]
    BY <1>1 DEF Owns
  <2>2. Slot(q) \in Slots
    BY <2>1, CallTypes DEF Owns, Slot, Slots, WithdrawCalls
  <2>3. Slot(q) # s
    BY <2>1 DEF WithdrawInv, OwnerInv
  <2>4. QED  BY <2>1, <2>2, <2>3 DEF Slot
<1>2. ASSUME NEW q \in Requests, Owns(q)' PROVE OwnerInv(q)'
  <2>1. CASE q = r
    BY <1>2, <2>1 DEF Owns
  <2>2. CASE q # r
    <3>1. Owns(q) /\ req'[q] = req[q] /\ Slot(q) \in Slots \ {s} /\ OwnerInv(q)
      BY <1>1, <1>2, <2>2 DEF WithdrawInv
    <3>2. QED  BY <3>1, OwnerKept
  <2>3. QED  BY <2>1, <2>2
<1>3. ASSUME NEW p \in Requests, NEW q \in Requests, Owns(p)', Owns(q)', Slot(p)' = Slot(q)'
      PROVE  p = q
  <2>1. CASE p # r /\ q # r
    BY <1>1, <1>3, <2>1 DEF WithdrawInv
  <2>2. CASE p = r /\ q # r
    BY <1>1, <1>3, <2>2 DEF Owns
  <2>3. CASE p # r /\ q = r
    BY <1>1, <1>3, <2>3 DEF Owns
  <2>4. QED  BY <2>1, <2>2, <2>3
<1>4. ASSUME NEW t \in Slots PROVE SlotInv(t)'
  <2>1. CASE t = s
    BY <2>1
  <2>2. CASE t # s
    BY <2>2, SlotKept DEF WithdrawInv
  <2>3. QED  BY <2>1, <2>2
<1>5. QED  BY <1>2, <1>3, <1>4 DEF WithdrawInv

\* What every step of a withdrawal comes to.
OutDone == TypeInv' /\ LedgerInv' /\ WithdrawInv' /\ PaymentsKept /\ WebhooksKept

\* The parts of it that depend on the call alone, when nothing is posted.
LEMMA OutFrame ==
  ASSUME TypeInv, LedgerInv, UNCHANGED <<ledger, inVars>>, NEW r \in Requests,
         \A q \in Requests \ {r} : req'[q] = req[q], req'[r].pc \notin Webhooks
  PROVE  /\ LedgerInv' /\ PaymentsKept /\ WebhooksKept
         /\ \A v, k : RowsKept(v, k)
         /\ \A s \in Slots : OwnKept(s)
<1>1. \A v, k : RowsKept(v, k)
  BY RowsStay
<1>2. LedgerInv' /\ PaymentsKept /\ WebhooksKept
  BY <1>1, LedgerStays DEF inVars, PaymentsKept, WebhooksKept
<1>3. QED  BY <1>1, <1>2, KeptOwn

\* A call that comes in, goes on before it owns a row, or answers.
LEMMA OutQuiet ==
  ASSUME TypeInv, LedgerInv, WithdrawInv, UNCHANGED <<moneyVars, withdrawal, payouts, inVars>>,
         NEW r \in Requests, req' \in [Requests -> Calls],
         \A q \in Requests \ {r} : req'[q] = req[q],
         req'[r].pc \notin Owned \cup Webhooks
  PROVE  OutDone
<1>1. LedgerInv' /\ PaymentsKept /\ WebhooksKept /\ \A s \in Slots : OwnKept(s)
  BY OutFrame DEF moneyVars
<1>2. OutKept
  BY <1>1 DEF OutKept
<1>3. TypeInv'
  BY DEF TypeInv, moneyVars, inVars
<1>4. QED  BY <1>1, <1>2, <1>3, WithdrawStays DEF OutDone

\* Submit, the checks before the row is created, and their answers.
LEMMA OutBefore ==
  ASSUME TypeInv, LedgerInv, WithdrawInv, NEW r \in Requests, UNCHANGED inVars,
         Submit(r) \/ CheckWager(r) \/ Lookup(r)
  PROVE  OutDone
<1> USE DEF Owned, Webhooks
<1>1. CASE Submit(r)
  <2>1. PICK w \in Wallets, k \in Keys, amount \in Amounts :
          req' = [req EXCEPT ![r] = [pc |-> "check", wallet |-> w, key |-> k, amount |-> amount]]
    BY <1>1 DEF Submit
  <2>2. [pc |-> "check", wallet |-> w, key |-> k, amount |-> amount] \in WithdrawCalls
    BY DEF WithdrawCalls
  <2>3. /\ req' \in [Requests -> Calls] /\ req'[r].pc = "check"
        /\ \A q \in Requests \ {r} : req'[q] = req[q]
    BY <2>1, <2>2 DEF TypeInv, Calls
  <2>4. QED  BY <1>1, <2>3, OutQuiet DEF Submit, moneyVars
<1>2. CASE CheckWager(r) \/ Lookup(r)
  <2>1. req[r] \in WithdrawCalls
    BY <1>2, CallTypes DEF CheckWager, Lookup
  <2>2. Goto(r, "lookup") \/ Goto(r, "create") \/ Answer(r)
    BY <1>2 DEF CheckWager, Lookup
  <2>3. /\ req' \in [Requests -> Calls] /\ req'[r].pc \in {"lookup", "create", "idle"}
        /\ \A q \in Requests \ {r} : req'[q] = req[q]
    BY <2>1, <2>2, GotoEffect, AnswerEffect
  <2>4. QED  BY <1>2, <2>3, OutQuiet DEF CheckWager, Lookup, moneyVars
<1>3. QED  BY <1>1, <1>2

\* The slot of a call and its row.
LEMMA SlotFacts ==
  ASSUME TypeInv, NEW r \in Requests, req[r] \in WithdrawCalls
  PROVE  /\ Slot(r) \in Slots /\ Slot(r)[1] = req[r].wallet /\ Slot(r)[2] = req[r].key
         /\ req[r].wallet \in Wallets /\ req[r].key \in Keys /\ req[r].amount \in Amounts
         /\ withdrawal[Slot(r)] \in WithdrawalRows
<1>1. req[r].wallet \in Wallets /\ req[r].key \in Keys /\ req[r].amount \in Amounts
  BY DEF WithdrawCalls
<1>2. Slot(r) \in Slots /\ Slot(r)[1] = req[r].wallet /\ Slot(r)[2] = req[r].key
  BY <1>1 DEF Slot, Slots
<1>3. QED  BY <1>1, <1>2 DEF TypeInv

\* A row written in one slot, and a call that goes on in it.
LEMMA RowWritten ==
  ASSUME TypeInv, LedgerInv, WithdrawInv, UNCHANGED <<moneyVars, inVars>>,
         NEW r \in Requests, NEW s \in Slots, Slot(r) = s,
         NEW row \in WithdrawalRows, NEW count \in Nat,
         withdrawal' = [withdrawal EXCEPT ![s] = row],
         payouts' = [payouts EXCEPT ![s] = count],
         Owns(r) \/ withdrawal[s].status = "NONE",
         req' \in [Requests -> Calls], \A q \in Requests \ {r} : req'[q] = req[q],
         req'[r].pc \notin Webhooks,
         req'[r].pc \in Owned => Slot(r)' = s /\ OwnerInv(r)',
         SlotInv(s)'
  PROVE  OutDone
<1>1. LedgerInv' /\ PaymentsKept /\ WebhooksKept /\ \A t \in Slots : OwnKept(t)
  BY OutFrame DEF moneyVars
<1>2. TypeInv'
  BY DEF TypeInv, moneyVars, inVars
<1>3. \A t \in Slots \ {s} : withdrawal'[t] = withdrawal[t] /\ payouts'[t] = payouts[t]
  BY DEF TypeInv
<1>4. WithdrawInv'
  BY <1>1, <1>3, OwnerStep
<1>5. QED  BY <1>1, <1>2, <1>4 DEF OutDone

\* A row is created in a slot that has none; the handler owns it from then on.
LEMMA OutCreate ==
  ASSUME TypeInv, LedgerInv, WithdrawInv, NEW r \in Requests, UNCHANGED inVars, Create(r)
  PROVE  OutDone
<1>1. req[r] \in WithdrawCalls /\ req[r].pc = "create" /\ ~Owns(r)
  BY CallTypes DEF Create, Owns, Owned
<1>2. CASE Answer(r) /\ UNCHANGED <<withdrawal, payouts, moneyVars>>
  BY <1>2, AnswerEffect, OutQuiet DEF moneyVars, Owned, Webhooks
<1>3. CASE Creatable(r) /\ Goto(r, "debit")
  <2>1. PICK s \in Slots : s = Slot(r)
    BY <1>1, SlotFacts
  <2> DEFINE row == [NoWithdrawal EXCEPT !.status = "PENDING", !.amount = req[r].amount]
  <2>2. /\ row \in WithdrawalRows /\ row.status = "PENDING" /\ row.amount = req[r].amount
        /\ ~row.debited /\ ~row.tracked
    BY <1>1, SlotFacts DEF NoWithdrawal, WithdrawalRows, WithdrawalStatuses
  <2>3. /\ withdrawal[s].status = "NONE" /\ payouts[s] = 0
        /\ Own(s, "debit") = {} /\ Own(s, "revert") = {}
    BY <1>3, <2>1 DEF Creatable, NoWithdrawal, WithdrawInv, SlotInv
  <2>4. /\ req' \in [Requests -> Calls] /\ \A q \in Requests \ {r} : req'[q] = req[q]
        /\ req'[r].pc = "debit" /\ req'[r].amount = req[r].amount
        /\ req'[r].wallet = req[r].wallet /\ req'[r].key = req[r].key
    BY <1>1, <1>3, GotoEffect DEF Owned
  <2>5. /\ withdrawal' = [withdrawal EXCEPT ![s] = row] /\ UNCHANGED <<moneyVars, payouts>>
        /\ payouts' = [payouts EXCEPT ![s] = 0]
    <3>1. UNCHANGED <<moneyVars, payouts>>
      BY DEF Create
    <3>2. withdrawal' = [withdrawal EXCEPT ![s] = row]
      BY <1>3, <2>1 DEF Create
    <3>3. payouts = [payouts EXCEPT ![s] = 0]
      BY <2>3 DEF TypeInv
    <3>4. QED  BY <3>1, <3>2, <3>3
  <2> HIDE DEF row
  <2>6. /\ withdrawal'[s] = row /\ payouts'[s] = 0
        /\ Own(s, "debit")' = {} /\ Own(s, "revert")' = {}
    BY <2>3, <2>5 DEF TypeInv, Own, Posted, RowsWithKey, moneyVars
  <2>7. Slot(r)' = s
    BY <2>1, <2>4 DEF Slot
  <2>8. OwnerInv(r)'
    BY <2>2, <2>4, <2>6, <2>7 DEF OwnerInv
  <2>9. SlotInv(s)'
    BY <2>2, <2>6 DEF SlotInv
  <2>10. /\ UNCHANGED <<moneyVars, inVars>> /\ Slot(r) = s /\ 0 \in Nat
         /\ req'[r].pc \notin Webhooks
    BY <2>1, <2>4, <2>5 DEF Webhooks
  <2>11. QED
    BY <2>2, <2>3, <2>4, <2>5, <2>7, <2>8, <2>9, <2>10, RowWritten
<1>4. QED  BY <1>2, <1>3 DEF Create

\* What an owner knows of its slot.
LEMMA OwnerFacts ==
  ASSUME TypeInv, WithdrawInv, NEW r \in Requests, Owns(r)
  PROVE  /\ req[r] \in WithdrawCalls /\ Slot(r) \in Slots
         /\ withdrawal[Slot(r)] \in WithdrawalRows /\ payouts[Slot(r)] \in Nat
         /\ OwnerInv(r) /\ SlotInv(Slot(r))
<1>1. req[r] \in WithdrawCalls
  BY CallTypes DEF Owns
<1>2. Slot(r) \in Slots /\ withdrawal[Slot(r)] \in WithdrawalRows
  BY <1>1, SlotFacts
<1>3. QED  BY <1>1, <1>2 DEF WithdrawInv, TypeInv

\* Without a posting, a slot's postings cover its amount as before.
LEMMA PostedSame ==
  ASSUME UNCHANGED ledger, NEW s \in Slots, withdrawal'[s].amount = withdrawal[s].amount
  PROVE  /\ Taken(s)' = Taken(s)
         /\ Own(s, "debit")' = Own(s, "debit")
         /\ Own(s, "revert")' = Own(s, "revert")
         /\ Others(s, "debit")' = Others(s, "debit")
         /\ Posted(s, "revert")' = Posted(s, "revert")
BY DEF Taken, Own, Others, Posted, RowsWithKey

\* The row of a debited withdrawal is approved.
LEMMA OutApprove ==
  ASSUME TypeInv, LedgerInv, WithdrawInv, NEW r \in Requests, UNCHANGED inVars, Approve(r)
  PROVE  OutDone
<1>1. Owns(r) /\ req[r].pc = "approve"
  BY DEF Approve, Owns, Owned
<1>2. PICK s \in Slots : s = Slot(r)
  BY <1>1, OwnerFacts
<1> DEFINE old == withdrawal[s]
           row == [old EXCEPT !.status = "APPROVED", !.debited = TRUE]
<1>3. /\ req[r] \in WithdrawCalls /\ old \in WithdrawalRows
      /\ OwnerInv(r) /\ SlotInv(s)
  BY <1>1, <1>2, OwnerFacts
<1>4. /\ row \in WithdrawalRows /\ row.status = "APPROVED" /\ row.amount = old.amount
      /\ row.debited /\ row.tracked = old.tracked
  BY <1>3 DEF WithdrawalRows, WithdrawalStatuses
<1>5. /\ req' \in [Requests -> Calls] /\ \A q \in Requests \ {r} : req'[q] = req[q]
      /\ req'[r].pc = "payout" /\ req'[r].amount = req[r].amount
      /\ req'[r].wallet = req[r].wallet /\ req'[r].key = req[r].key
  BY <1>3, GotoEffect DEF Approve, Owned
<1>6. /\ withdrawal' = [withdrawal EXCEPT ![s] = row] /\ UNCHANGED <<moneyVars, payouts>>
      /\ payouts' = [payouts EXCEPT ![s] = payouts[s]] /\ payouts[s] \in Nat
  BY <1>2 DEF Approve, TypeInv
<1> HIDE DEF row
<1>7. withdrawal'[s] = row /\ payouts'[s] = payouts[s] /\ UNCHANGED ledger
  BY <1>6 DEF TypeInv, moneyVars
<1>8. /\ Taken(s)' = Taken(s)
      /\ Own(s, "debit")' = Own(s, "debit")
      /\ Own(s, "revert")' = Own(s, "revert")
      /\ Others(s, "debit")' = Others(s, "debit")
      /\ Posted(s, "revert")' = Posted(s, "revert")
  BY <1>4, <1>7, PostedSame
<1>9. /\ Taken(s) /\ payouts[s] = 0 /\ Own(s, "revert") = {} /\ ~old.tracked
      /\ old.amount = req[r].amount
  BY <1>1, <1>2, <1>3 DEF OwnerInv
<1>10. Slot(r)' = s /\ OwnerInv(r)'
  <2>1. Slot(r)' = s
    BY <1>2, <1>5 DEF Slot
  <2>2. QED  BY <1>4, <1>5, <1>7, <1>8, <1>9, <2>1 DEF OwnerInv
<1>11. SlotInv(s)'
  BY <1>4, <1>7, <1>8, <1>9 DEF SlotInv
<1>12. UNCHANGED <<moneyVars, inVars>> /\ Slot(r) = s /\ req'[r].pc \notin Webhooks
  BY <1>2, <1>5, <1>6 DEF Webhooks
<1>13. QED
  BY <1>1, <1>4, <1>5, <1>6, <1>10, <1>11, <1>12, RowWritten

\* The provider accepts a payout once, for the owner that asks for it once.
LEMMA OutPayout ==
  ASSUME TypeInv, LedgerInv, WithdrawInv, NEW r \in Requests, UNCHANGED inVars,
         RequestPayout(r)
  PROVE  OutDone
<1>1. Owns(r) /\ req[r].pc = "payout"
  BY DEF RequestPayout, Owns, Owned
<1>2. PICK s \in Slots : s = Slot(r)
  BY <1>1, OwnerFacts
<1> DEFINE row == withdrawal[s]
<1>3. /\ req[r] \in WithdrawCalls /\ row \in WithdrawalRows /\ OwnerInv(r) /\ SlotInv(s)
  BY <1>1, <1>2, OwnerFacts
<1>4. /\ Taken(s) /\ payouts[s] = 0 /\ Own(s, "revert") = {} /\ ~row.tracked
      /\ row.debited /\ row.amount = req[r].amount
      /\ row.status # "NONE" /\ row.status # "FAILED"
  BY <1>1, <1>2, <1>3 DEF OwnerInv
<1>5. /\ req' \in [Requests -> Calls] /\ \A q \in Requests \ {r} : req'[q] = req[q]
      /\ req'[r].pc \in {"store", "revert"} /\ req'[r].amount = req[r].amount
      /\ req'[r].wallet = req[r].wallet /\ req'[r].key = req[r].key
  <2>1. Goto(r, "store") \/ Goto(r, "revert")
    BY DEF RequestPayout
  <2>2. QED  BY <1>3, <2>1, GotoEffect DEF Owned
<1>6. PICK count \in {0, 1} : payouts' = [payouts EXCEPT ![s] = count]
  <2>1. CASE payouts' = [payouts EXCEPT ![Slot(r)] = @ + 1]
    <3>1. payouts' = [payouts EXCEPT ![s] = payouts[s] + 1]
      BY <1>2, <2>1
    <3>2. payouts[s] + 1 = 1
      BY <1>4
    <3>3. QED  BY <3>1, <3>2
  <2>2. CASE UNCHANGED payouts
    <3>1. payouts = [payouts EXCEPT ![s] = 0]
      BY <1>4 DEF TypeInv
    <3>2. QED  BY <2>2, <3>1
  <2>3. QED  BY <2>1, <2>2 DEF RequestPayout
<1>7. /\ withdrawal' = [withdrawal EXCEPT ![s] = row]
      /\ UNCHANGED <<moneyVars, withdrawal, ledger>> /\ count \in Nat
  BY <1>6 DEF RequestPayout, TypeInv, moneyVars
<1>8. withdrawal'[s] = row /\ payouts'[s] = count
  BY <1>6, <1>7 DEF TypeInv
<1>9. /\ Taken(s)' = Taken(s)
      /\ Own(s, "debit")' = Own(s, "debit")
      /\ Own(s, "revert")' = Own(s, "revert")
      /\ Others(s, "debit")' = Others(s, "debit")
      /\ Posted(s, "revert")' = Posted(s, "revert")
  BY <1>7, <1>8, PostedSame
<1>10. Slot(r)' = s /\ OwnerInv(r)'
  <2>1. Slot(r)' = s
    BY <1>2, <1>5 DEF Slot
  <2>2. QED  BY <1>4, <1>5, <1>8, <1>9, <2>1 DEF OwnerInv
<1>11. SlotInv(s)'
  BY <1>4, <1>6, <1>8, <1>9 DEF SlotInv
<1>12. UNCHANGED <<moneyVars, inVars>> /\ Slot(r) = s /\ req'[r].pc \notin Webhooks
  BY <1>2, <1>5, <1>7 DEF Webhooks
<1>13. QED
  BY <1>1, <1>3, <1>5, <1>6, <1>7, <1>10, <1>11, <1>12, RowWritten

\* A stored track id ends the call; a row that cannot be stored is reverted.
LEMMA OutStore ==
  ASSUME TypeInv, LedgerInv, WithdrawInv, NEW r \in Requests, UNCHANGED inVars, StoreTrack(r)
  PROVE  OutDone
<1>1. Owns(r) /\ req[r].pc = "store"
  BY DEF StoreTrack, Owns, Owned
<1>2. PICK s \in Slots : s = Slot(r)
  BY <1>1, OwnerFacts
<1> DEFINE old == withdrawal[s]
           stored == [old EXCEPT !.status = "BROADCASTED", !.tracked = TRUE]
<1>3. /\ req[r] \in WithdrawCalls /\ old \in WithdrawalRows /\ OwnerInv(r) /\ SlotInv(s)
      /\ payouts[s] \in Nat
  BY <1>1, <1>2, OwnerFacts
<1>4. /\ Taken(s) /\ Own(s, "revert") = {} /\ ~old.tracked
      /\ old.debited /\ old.amount = req[r].amount
      /\ old.status # "NONE" /\ old.status # "FAILED"
  BY <1>1, <1>2, <1>3 DEF OwnerInv
<1>5. /\ stored \in WithdrawalRows /\ stored.status = "BROADCASTED" /\ stored.tracked
      /\ stored.amount = old.amount /\ stored.debited = old.debited
  BY <1>3 DEF WithdrawalRows, WithdrawalStatuses
<1>6. UNCHANGED <<moneyVars, payouts, ledger>> /\ payouts' = [payouts EXCEPT ![s] = payouts[s]]
  BY DEF StoreTrack, moneyVars, TypeInv
<1>7. /\ \A q \in Requests \ {r} : req'[q] = req[q]
      /\ req' \in [Requests -> Calls] /\ req'[r].pc \notin Webhooks
      /\ \/ withdrawal' = [withdrawal EXCEPT ![s] = stored] /\ req'[r].pc = "idle"
         \/ /\ withdrawal' = [withdrawal EXCEPT ![s] = old] /\ req'[r].pc = "revert"
            /\ req'[r].amount = req[r].amount
            /\ req'[r].wallet = req[r].wallet /\ req'[r].key = req[r].key
  <2>1. CASE withdrawal' = [withdrawal EXCEPT ![s] = stored] /\ Answer(r)
    BY <2>1, AnswerEffect DEF Webhooks
  <2>2. CASE UNCHANGED withdrawal /\ Goto(r, "revert")
    <3>1. withdrawal' = [withdrawal EXCEPT ![s] = old]
      BY <2>2 DEF TypeInv
    <3>2. /\ \A q \in Requests \ {r} : req'[q] = req[q]
          /\ req' \in [Requests -> Calls] /\ req'[r].pc = "revert"
          /\ req'[r].amount = req[r].amount
          /\ req'[r].wallet = req[r].wallet /\ req'[r].key = req[r].key
      BY <1>3, <2>2, GotoEffect DEF Owned
    <3>3. QED  BY <3>1, <3>2 DEF Webhooks
  <2>3. QED  BY <1>2, <2>1, <2>2 DEF StoreTrack
<1> HIDE DEF stored
<1>8. PICK row \in {old, stored} : withdrawal' = [withdrawal EXCEPT ![s] = row]
  BY <1>7
<1>9. /\ row \in WithdrawalRows /\ withdrawal'[s] = row /\ payouts'[s] = payouts[s]
      /\ row.amount = old.amount /\ row.debited
      /\ row.status # "NONE" /\ row.status # "FAILED"
  BY <1>3, <1>4, <1>5, <1>6, <1>8 DEF TypeInv
<1>10. /\ Taken(s)' = Taken(s)
       /\ Own(s, "debit")' = Own(s, "debit")
       /\ Own(s, "revert")' = Own(s, "revert")
       /\ Others(s, "debit")' = Others(s, "debit")
       /\ Posted(s, "revert")' = Posted(s, "revert")
  BY <1>6, <1>9, PostedSame
<1>11. ASSUME req'[r].pc \in Owned PROVE Slot(r)' = s /\ OwnerInv(r)'
  <2>1. /\ withdrawal'[s] = old /\ req'[r].pc = "revert" /\ req'[r].amount = req[r].amount
        /\ req'[r].wallet = req[r].wallet /\ req'[r].key = req[r].key
    BY <1>7, <1>11 DEF TypeInv, Owned
  <2>2. Slot(r)' = s
    BY <1>2, <2>1 DEF Slot
  <2>3. QED  BY <1>4, <1>9, <1>10, <2>1, <2>2 DEF OwnerInv
<1>12. SlotInv(s)'
  BY <1>3, <1>4, <1>9, <1>10 DEF SlotInv
<1>13. UNCHANGED <<moneyVars, inVars>> /\ Slot(r) = s
  BY <1>2, <1>6
<1>14. PICK count \in Nat : payouts' = [payouts EXCEPT ![s] = count]
  BY <1>3, <1>6
<1>15. row \in WithdrawalRows /\ Owns(r)
  BY <1>1, <1>9
<1>16. /\ \A q \in Requests \ {r} : req'[q] = req[q]
       /\ req' \in [Requests -> Calls] /\ req'[r].pc \notin Webhooks
  BY <1>7
<1> HIDE DEF old
<1>17. QED
  BY <1>8, <1>11, <1>12, <1>13, <1>14, <1>15, <1>16, RowWritten

\* A reverted withdrawal is marked failed.
LEMMA OutMarkFailed ==
  ASSUME TypeInv, LedgerInv, WithdrawInv, NEW r \in Requests, UNCHANGED inVars, MarkFailed(r)
  PROVE  OutDone
<1>1. Owns(r) /\ req[r].pc = "fail"
  BY DEF MarkFailed, Owns, Owned
<1>2. PICK s \in Slots : s = Slot(r)
  BY <1>1, OwnerFacts
<1> DEFINE old == withdrawal[s]
           row == [old EXCEPT !.status = "FAILED"]
<1>3. /\ old \in WithdrawalRows /\ OwnerInv(r) /\ SlotInv(s) /\ payouts[s] \in Nat
  BY <1>1, <1>2, OwnerFacts
<1>4. Taken(s) /\ Posted(s, "revert") # {} /\ ~old.tracked
  BY <1>1, <1>2, <1>3 DEF OwnerInv
<1>5. /\ row \in WithdrawalRows /\ row.status = "FAILED" /\ row.amount = old.amount
      /\ row.debited = old.debited /\ row.tracked = old.tracked
  BY <1>3 DEF WithdrawalRows, WithdrawalStatuses
<1>6. /\ withdrawal' = [withdrawal EXCEPT ![s] = row] /\ UNCHANGED <<moneyVars, ledger>>
      /\ payouts' = [payouts EXCEPT ![s] = payouts[s]]
  BY <1>2 DEF MarkFailed, moneyVars, TypeInv
<1>7. /\ \A q \in Requests \ {r} : req'[q] = req[q]
      /\ req' \in [Requests -> Calls] /\ req'[r].pc = "idle"
  BY AnswerEffect DEF MarkFailed
<1> HIDE DEF row
<1>8. withdrawal'[s] = row /\ payouts'[s] = payouts[s]
  BY <1>3, <1>6 DEF TypeInv
<1>9. /\ Taken(s)' = Taken(s)
      /\ Own(s, "debit")' = Own(s, "debit")
      /\ Own(s, "revert")' = Own(s, "revert")
      /\ Others(s, "debit")' = Others(s, "debit")
      /\ Posted(s, "revert")' = Posted(s, "revert")
  BY <1>5, <1>6, <1>8, PostedSame
<1>10. Others(s, "debit")' = {} =>
         \A i \in Own(s, "revert")' : \E j \in Own(s, "debit")' :
           j < i /\ ledger'[s[1]][j].amount = ledger'[s[1]][i].amount
  BY <1>3, <1>6, <1>9 DEF SlotInv
<1>11. SlotInv(s)'
  BY <1>3, <1>4, <1>5, <1>8, <1>9, <1>10 DEF SlotInv
<1>12. /\ UNCHANGED <<moneyVars, inVars>> /\ Slot(r) = s
       /\ req'[r].pc \notin Webhooks /\ req'[r].pc \notin Owned
  BY <1>2, <1>6, <1>7 DEF Webhooks, Owned
<1>13. QED
  BY <1>1, <1>3, <1>5, <1>6, <1>7, <1>11, <1>12, RowWritten

\* A slot is a wallet and a key, so keys of other slots are other keys.
LEMMA SlotKeys ==
  ASSUME NEW s \in Slots, NEW t \in Slots, s # t
  PROVE  s[1] # t[1] \/ s[2] # t[2]
BY DEF Slots

\* Money posted under a key of the slot, and a call that goes on in it.
LEMMA MoneyMoved ==
  ASSUME TypeInv, LedgerInv, WithdrawInv, UNCHANGED <<withdrawal, payouts, inVars>>,
         NEW r \in Requests, NEW s \in Slots, Slot(r) = s, Owns(r),
         NEW kind \in {"debit", "revert"}, NEW delta \in Int,
         Adjusted(s[1], delta, <<kind, s[2]>>),
         req' \in [Requests -> Calls], \A q \in Requests \ {r} : req'[q] = req[q],
         req'[r].pc \notin Webhooks,
         req'[r].pc \in Owned => Slot(r)' = s /\ OwnerInv(r)',
         SlotInv(s)'
  PROVE  OutDone
<1>1. s[1] \in Wallets /\ s[2] \in Keys /\ <<kind, s[2]>> \in MovementKeys
  BY DEF Slots, MovementKeys
<1>2. /\ wallet' \in [Wallets -> WalletRows] /\ ledger' \in [Wallets -> Seq(LedgerRows)]
      /\ LedgerInv'
      /\ \A v \in Wallets : \A k : v # s[1] \/ k # <<kind, s[2]>> => RowsKept(v, k)
  BY <1>1, AdjustedRows
<1>3. TypeInv'
  BY <1>2 DEF TypeInv, inVars
<1>4. PaymentsKept /\ WebhooksKept
  <2>1. \A p \in Payments : Payee[p] \in Wallets
    BY CashierAssumption
  <2>2. \A p \in Payments : RowsKept(Payee[p], <<"credit", p>>) /\ RowsKept(Payee[p], <<"bonus", p>>)
    BY <1>2, <2>1
  <2>3. QED  BY <2>2 DEF PaymentsKept, WebhooksKept, inVars
<1>5. ASSUME NEW t \in Slots \ {s} PROVE OwnKept(t)
  <2>1. t[1] \in Wallets /\ (t[1] # s[1] \/ t[2] # s[2])
    BY SlotKeys DEF Slots
  <2>2. RowsKept(t[1], <<"debit", t[2]>>) /\ RowsKept(t[1], <<"revert", t[2]>>)
    BY <1>2, <2>1
  <2>3. QED  BY <2>2, KeptOwn
<1>6. WithdrawInv'
  BY <1>5, OwnerStep
<1>7. QED  BY <1>2, <1>3, <1>4, <1>6 DEF OutDone

\* The amount is taken under the key of the withdrawal, unless another service's
\* posting has it.
LEMMA OutDebit ==
  ASSUME TypeInv, LedgerInv, WithdrawInv, NEW r \in Requests, UNCHANGED inVars, Debit(r)
  PROVE  OutDone
<1>1. Owns(r) /\ req[r].pc = "debit"
  BY DEF Debit, Owns, Owned
<1>2. PICK s \in Slots : s = Slot(r)
  BY <1>1, OwnerFacts
<1> DEFINE row == withdrawal[s]
           amount == req[r].amount
           last == Len(ledger[s[1]]) + 1
<1>3. /\ req[r] \in WithdrawCalls /\ row \in WithdrawalRows /\ OwnerInv(r) /\ SlotInv(s)
      /\ s[1] = req[r].wallet /\ s[2] = req[r].key /\ s[1] \in Wallets /\ s[2] \in Keys
      /\ amount \in Amounts
  BY <1>1, <1>2, OwnerFacts, SlotFacts
<1>4. /\ Own(s, "debit") = {} /\ Own(s, "revert") = {} /\ payouts[s] = 0
      /\ row.status # "NONE" /\ row.status # "FAILED" /\ ~row.tracked /\ ~row.debited
      /\ row.amount = amount
  BY <1>1, <1>2, <1>3 DEF OwnerInv
<1>5. CASE Answer(r) /\ UNCHANGED moneyVars
  <2>1. /\ req' \in [Requests -> Calls] /\ \A q \in Requests \ {r} : req'[q] = req[q]
        /\ req'[r].pc \notin Owned \cup Webhooks
    BY <1>5, AnswerEffect DEF Owned, Webhooks
  <2>2. QED  BY <1>5, <2>1, OutQuiet DEF Debit, moneyVars
<1>6. CASE Adjusted(req[r].wallet, -amount, <<"debit", req[r].key>>) /\ Goto(r, "approve")
  <2>1. amount \in Nat /\ amount > 0 /\ -amount \in Int /\ ~(-amount > 0) /\ -(-amount) = amount
    BY <1>3, Numbers
  <2>2. Adjusted(s[1], -amount, <<"debit", s[2]>>) /\ <<"debit", s[2]>> \in MovementKeys
    BY <1>3, <1>6 DEF MovementKeys
  <2>3. /\ RowsKept(s[1], <<"revert", s[2]>>)
        /\ \/ /\ RowsWithKey(s[1], <<"debit", s[2]>>) # {}
              /\ RowsKept(s[1], <<"debit", s[2]>>)
           \/ /\ RowsWithKey(s[1], <<"debit", s[2]>>)' = {last}
              /\ ledger'[s[1]][last].amount = IF -amount > 0 THEN -amount ELSE -(-amount)
              /\ ledger'[s[1]][last].reason = "ADJUST"
    <3> DEFINE key == <<"debit", s[2]>>
               delta == -amount
    <3>1. <<"revert", s[2]>> # key /\ s[1] \in Wallets
      BY <1>3
    <3>2. /\ key \in MovementKeys /\ delta \in Int /\ Adjusted(s[1], delta, key)
      BY <2>1, <2>2
    <3> HIDE DEF key, delta
    <3>3. /\ \A v \in Wallets : \A k : v # s[1] \/ k # key => RowsKept(v, k)
          /\ \/ RowsWithKey(s[1], key) # {} /\ RowsKept(s[1], key)
             \/ /\ RowsWithKey(s[1], key)' = {last}
                /\ ledger'[s[1]][last].amount = IF delta > 0 THEN delta ELSE -delta
                /\ ledger'[s[1]][last].reason = "ADJUST"
      BY <3>1, <3>2, AdjustedRows
    <3>4. RowsKept(s[1], <<"revert", s[2]>>)
      BY <3>1, <3>3
    <3>5. QED  BY <3>3, <3>4 DEF key, delta
  <2> HIDE DEF last
  <2>4. Own(s, "revert")' = {}
    BY <1>4, <2>3 DEF Own, Posted, RowsKept
  <2>5. \/ Others(s, "debit")' # {}
        \/ last \in Own(s, "debit")' /\ ledger'[s[1]][last].amount = amount
    <3>1. CASE /\ RowsWithKey(s[1], <<"debit", s[2]>>) # {}
               /\ RowsKept(s[1], <<"debit", s[2]>>)
      <4>1. Others(s, "debit") # {}
        BY <1>4, <3>1 DEF Others, Posted
      <4>2. OwnKept(s)
        BY <2>3, <3>1, KeptOwn
      <4>3. QED  BY <4>1, <4>2 DEF OwnKept
    <3>2. CASE /\ RowsWithKey(s[1], <<"debit", s[2]>>)' = {last}
               /\ ledger'[s[1]][last].amount = IF -amount > 0 THEN -amount ELSE -(-amount)
               /\ ledger'[s[1]][last].reason = "ADJUST"
      BY <2>1, <3>2 DEF Own, Posted
    <3>3. QED  BY <2>3, <3>1, <3>2
  <2>6. UNCHANGED <<withdrawal, payouts>>
    BY DEF Debit
  <2>7. Taken(s)'
    BY <1>4, <2>5, <2>6 DEF Taken
  <2>8. /\ req' \in [Requests -> Calls] /\ \A q \in Requests \ {r} : req'[q] = req[q]
        /\ req'[r].pc = "approve" /\ req'[r].amount = amount
        /\ req'[r].wallet = req[r].wallet /\ req'[r].key = req[r].key
    BY <1>3, <1>6, GotoEffect DEF Owned
  <2>9. Slot(r)' = s
    BY <1>2, <2>8 DEF Slot
  <2>10. OwnerInv(r)'
    BY <1>4, <2>4, <2>6, <2>7, <2>8, <2>9 DEF OwnerInv
  <2>11. SlotInv(s)'
    BY <1>4, <2>4, <2>6 DEF SlotInv
  <2>12. req'[r].pc \notin Webhooks /\ Slot(r) = s
    BY <1>2, <2>8 DEF Webhooks
  <2>13. QED
    BY <1>1, <2>1, <2>2, <2>6, <2>8, <2>9, <2>10, <2>11, <2>12, MoneyMoved
<1>7. QED  BY <1>5, <1>6 DEF Debit

\* A withdrawal that failed before its payout was stored is credited back once,
\* unless another service's posting has the key.
LEMMA OutRevert ==
  ASSUME TypeInv, LedgerInv, WithdrawInv, NEW r \in Requests, UNCHANGED inVars, Revert(r)
  PROVE  OutDone
<1>1. Owns(r) /\ req[r].pc = "revert"
  BY DEF Revert, Owns, Owned
<1>2. PICK s \in Slots : s = Slot(r)
  BY <1>1, OwnerFacts
<1> DEFINE row == withdrawal[s]
           amount == req[r].amount
           last == Len(ledger[s[1]]) + 1
<1>3. /\ req[r] \in WithdrawCalls /\ row \in WithdrawalRows /\ OwnerInv(r) /\ SlotInv(s)
      /\ s[1] = req[r].wallet /\ s[2] = req[r].key /\ s[1] \in Wallets /\ s[2] \in Keys
      /\ amount \in Amounts
  BY <1>1, <1>2, OwnerFacts, SlotFacts
<1>4. /\ Taken(s) /\ Own(s, "revert") = {}
      /\ row.status # "NONE" /\ row.status # "FAILED" /\ ~row.tracked /\ row.debited
      /\ row.amount = amount
  BY <1>1, <1>2, <1>3 DEF OwnerInv
<1>5. amount \in Int /\ amount > 0
  BY <1>3, Numbers
<1>6. Adjusted(s[1], amount, <<"revert", s[2]>>) /\ <<"revert", s[2]>> \in MovementKeys
  BY <1>3 DEF Revert, MovementKeys
<1>7. /\ RowsKept(s[1], <<"debit", s[2]>>)
      /\ \/ /\ RowsWithKey(s[1], <<"revert", s[2]>>) # {}
            /\ RowsKept(s[1], <<"revert", s[2]>>)
         \/ /\ RowsWithKey(s[1], <<"revert", s[2]>>)' = {last}
            /\ ledger'[s[1]][last].amount = amount
            /\ ledger'[s[1]][last].reason = "ADJUST"
            /\ \A i \in DOMAIN ledger[s[1]] : i < last
  <2> DEFINE key == <<"revert", s[2]>>
  <2>1. <<"debit", s[2]>> # key /\ s[1] \in Wallets
    BY <1>3
  <2>2. key \in MovementKeys /\ Adjusted(s[1], amount, key) /\ amount \in Int
    BY <1>5, <1>6
  <2> HIDE DEF key, amount, last
  <2>3. /\ \A v \in Wallets : \A k : v # s[1] \/ k # key => RowsKept(v, k)
        /\ \/ RowsWithKey(s[1], key) # {} /\ RowsKept(s[1], key)
           \/ /\ RowsWithKey(s[1], key)' = {last}
              /\ ledger'[s[1]][last].amount = IF amount > 0 THEN amount ELSE -amount
              /\ ledger'[s[1]][last].reason = "ADJUST"
              /\ \A i \in DOMAIN ledger[s[1]] : i < last
    BY <2>1, <2>2, AdjustedRows DEF last
  <2>4. RowsKept(s[1], <<"debit", s[2]>>)
    BY <2>1, <2>3
  <2>5. QED  BY <1>5, <2>3, <2>4 DEF key
<1> HIDE DEF last
<1>8. /\ Own(s, "debit")' = Own(s, "debit") /\ Others(s, "debit")' = Others(s, "debit")
      /\ \A i \in Own(s, "debit") : ledger'[s[1]][i] = ledger[s[1]][i]
  BY <1>7 DEF Own, Others, Posted, RowsKept
<1>9. /\ Posted(s, "revert")' # {}
      /\ \/ Own(s, "revert")' = {}
         \/ /\ Own(s, "revert")' = {last} /\ ledger'[s[1]][last].amount = amount
            /\ \A i \in Own(s, "debit") : i < last
  <2>1. CASE /\ RowsWithKey(s[1], <<"revert", s[2]>>) # {}
             /\ RowsKept(s[1], <<"revert", s[2]>>)
    BY <1>4, <2>1 DEF Own, Posted, RowsKept
  <2>2. CASE /\ RowsWithKey(s[1], <<"revert", s[2]>>)' = {last}
             /\ ledger'[s[1]][last].amount = amount
             /\ ledger'[s[1]][last].reason = "ADJUST"
             /\ \A i \in DOMAIN ledger[s[1]] : i < last
    <3>1. Posted(s, "revert")' = {last} /\ Own(s, "revert")' = {last}
      BY <2>2 DEF Own, Posted
    <3>2. \A i \in Own(s, "debit") : i < last
      BY <2>2 DEF Own, Posted, RowsWithKey
    <3>3. QED  BY <2>2, <3>1, <3>2
  <2>3. QED  BY <1>7, <2>1, <2>2
<1>10. UNCHANGED <<withdrawal, payouts>> /\ Goto(r, "fail")
  BY DEF Revert
<1>11. Taken(s)'
  BY <1>4, <1>8, <1>10 DEF Taken
<1>12. ASSUME Others(s, "debit")' = {}, NEW i \in Own(s, "revert")'
       PROVE  \E j \in Own(s, "debit")' :
                j < i /\ ledger'[s[1]][j].amount = ledger'[s[1]][i].amount
  <2>1. PICK j \in Own(s, "debit") : ledger[s[1]][j].amount = row.amount
    BY <1>4, <1>8, <1>12 DEF Taken
  <2>2. i = last /\ j < last /\ ledger'[s[1]][last].amount = amount
    BY <1>9, <1>12
  <2>3. j \in Own(s, "debit")' /\ ledger'[s[1]][j].amount = amount
    BY <1>4, <1>8, <2>1
  <2>4. QED  BY <2>2, <2>3
<1>13. /\ req' \in [Requests -> Calls] /\ \A q \in Requests \ {r} : req'[q] = req[q]
       /\ req'[r].pc = "fail" /\ req'[r].amount = amount
       /\ req'[r].wallet = req[r].wallet /\ req'[r].key = req[r].key
  BY <1>3, <1>10, GotoEffect DEF Owned
<1>14. Slot(r)' = s
  BY <1>2, <1>13 DEF Slot
<1>15. OwnerInv(r)'
  BY <1>4, <1>9, <1>10, <1>11, <1>13, <1>14 DEF OwnerInv
<1>16. SlotInv(s)'
  BY <1>3, <1>4, <1>9, <1>10, <1>11, <1>12 DEF SlotInv
<1>17. req'[r].pc \notin Webhooks /\ Slot(r) = s
  BY <1>2, <1>13 DEF Webhooks
<1>18. QED
  BY <1>1, <1>5, <1>6, <1>10, <1>13, <1>14, <1>15, <1>16, <1>17, MoneyMoved

\* A payout webhook changes the status of a withdrawal nobody owns any more.
LEMMA OutWebhook ==
  ASSUME TypeInv, LedgerInv, WithdrawInv, NEW s \in Slots, UNCHANGED inVars, PayoutWebhook(s)
  PROVE  OutDone
<1> DEFINE old == withdrawal[s]
<1>1. PICK status \in {"BROADCASTED", "CONFIRMING", "COMPLETED", "FAILED"} :
        withdrawal' = [withdrawal EXCEPT ![s].status = status]
  BY DEF PayoutWebhook
<1> DEFINE row == [old EXCEPT !.status = status]
<1>2. /\ old \in WithdrawalRows /\ old.tracked /\ UNCHANGED <<moneyVars, payouts, req>>
      /\ SlotInv(s)
  BY DEF PayoutWebhook, TypeInv, WithdrawInv
<1>3. /\ row \in WithdrawalRows /\ row.status = status /\ row.amount = old.amount
      /\ row.debited = old.debited /\ row.tracked = old.tracked
  BY <1>2 DEF WithdrawalRows, WithdrawalStatuses
<1>4. withdrawal' = [withdrawal EXCEPT ![s] = row] /\ UNCHANGED ledger
  BY <1>1, <1>2 DEF moneyVars
<1> HIDE DEF row
<1>5. withdrawal'[s] = row /\ \A t \in Slots \ {s} : withdrawal'[t] = withdrawal[t]
  BY <1>4 DEF TypeInv
<1>6. /\ TypeInv' /\ LedgerInv' /\ PaymentsKept /\ WebhooksKept
      /\ \A t \in Slots : OwnKept(t)
  <2>1. TypeInv'
    BY <1>2, <1>3, <1>4 DEF TypeInv, moneyVars, inVars
  <2>2. (\A v, k : RowsKept(v, k)) /\ \A t \in Slots : OwnKept(t)
    BY <1>4, RowsStay, KeptOwn
  <2>3. LedgerInv'
    BY <1>4, LedgerStays
  <2>4. QED  BY <1>2, <2>1, <2>2, <2>3 DEF PaymentsKept, WebhooksKept, inVars
<1>7. SlotInv(s)'
  <2>1. /\ Taken(s)' = Taken(s)
        /\ Own(s, "debit")' = Own(s, "debit")
        /\ Own(s, "revert")' = Own(s, "revert")
        /\ Others(s, "debit")' = Others(s, "debit")
        /\ Posted(s, "revert")' = Posted(s, "revert")
    BY <1>3, <1>4, <1>5, PostedSame
  <2>2. payouts'[s] = payouts[s] /\ ledger' = ledger /\ row.status # "NONE"
    BY <1>2, <1>3, <1>4
  <2>3. row.tracked
    BY <1>2, <1>3
  <2>4. QED  BY <1>2, <1>3, <1>5, <2>1, <2>2, <2>3 DEF SlotInv
<1>8. ASSUME NEW r \in Requests, Owns(r)'
      PROVE  OwnerInv(r)' /\ Owns(r) /\ Slot(r)' = Slot(r)
  <2>1. Owns(r) /\ req'[r] = req[r] /\ Slot(r)' = Slot(r)
    BY <1>2, <1>8 DEF Owns, Slot
  <2>2. Slot(r) \in Slots /\ OwnerInv(r) /\ Slot(r) # s
    BY <1>2, <2>1, OwnerFacts DEF OwnerInv
  <2>3. QED  BY <1>2, <1>5, <1>6, <2>1, <2>2, OwnerKept
<1>9. \A t \in Slots : SlotInv(t)'
  <2>1. ASSUME NEW t \in Slots \ {s} PROVE SlotInv(t)'
    BY <1>2, <1>5, <1>6, SlotKept DEF WithdrawInv
  <2>2. QED  BY <1>7, <2>1
<1>10. WithdrawInv'
  BY <1>8, <1>9 DEF WithdrawInv
<1>11. QED  BY <1>6, <1>10 DEF OutDone

\* Every step of a withdrawal.
LEMMA OutStep ==
  ASSUME TypeInv, LedgerInv, WithdrawInv, NEW r \in Requests, UNCHANGED inVars,
         Submit(r) \/ Withdraw(r)
  PROVE  OutDone
BY OutBefore, OutCreate, OutDebit, OutApprove, OutPayout, OutStore, OutRevert, OutMarkFailed
   DEF Withdraw

-----------------------------------------------------------------------------
(***************************************************************************)
(* Deposits.                                                               *)
(***************************************************************************)

\* A step of one webhook, when rows and credits that are there stay there.
LEMMA WebhookStep ==
  ASSUME TypeInv, DepositInv, NEW r \in Requests,
         \A q \in Requests \ {r} : req'[q] = req[q],
         confirmed \subseteq confirmed',
         \A p \in Payments : deposit[p] # NoDeposit => deposit'[p] # NoDeposit,
         \A p \in Payments : Credit(p) # {} => Credit(p)' # {},
         req'[r].pc \in Webhooks => WebhookInv(r)',
         \A p \in Payments : PaymentInv(p)'
  PROVE  DepositInv'
<1>1. ASSUME NEW q \in Requests \ {r}, req'[q].pc \in Webhooks PROVE WebhookInv(q)'
  <2>1. req'[q] = req[q] /\ req[q].pc \in Webhooks
    BY <1>1
  <2>2. WebhookInv(q) /\ req[q].payment \in Payments
    BY <2>1, CallTypes DEF DepositInv, Webhooks, FindCalls, WriteCalls, ExtraCalls
  <2>3. QED  BY <2>1, <2>2 DEF WebhookInv
<1>2. \A q \in Requests : req'[q].pc \in Webhooks => WebhookInv(q)'
  BY <1>1
<1>3. QED  BY <1>2 DEF DepositInv, Webhooks

\* What every step of a webhook comes to.
InDone == TypeInv' /\ LedgerInv' /\ DepositInv' /\ OutKept

\* The parts of it when nothing is posted.
LEMMA InFrame ==
  ASSUME LedgerInv, UNCHANGED <<ledger, outVars>>, NEW r \in Requests,
         \A q \in Requests \ {r} : req'[q] = req[q], req'[r].pc \notin Owned
  PROVE  /\ LedgerInv' /\ OutKept
         /\ \A v, k : RowsKept(v, k)
         /\ \A p \in Payments : Credit(p)' = Credit(p)
<1>1. LedgerInv' /\ \A v, k : RowsKept(v, k)
  BY RowsStay, LedgerStays
<1>2. OutKept
  BY <1>1, KeptOwn DEF OutKept, outVars
<1>3. QED  BY <1>1, <1>2 DEF RowsKept, Credit

\* A payment is confirmed: nothing relies on its not being so.
LEMMA InConfirm ==
  ASSUME TypeInv, LedgerInv, DepositInv, NEW p \in Payments, UNCHANGED outVars, Confirm(p)
  PROVE  InDone
<1>1. UNCHANGED <<ledger, wallet, withdrawal, payouts, deposit, delivered, req>>
  BY DEF Confirm, moneyVars, outVars
<1>2. confirmed' = confirmed \cup {p}
  BY DEF Confirm
<1>3. LedgerInv' /\ \A v, k : RowsKept(v, k)
  BY <1>1, RowsStay, LedgerStays
<1>4. OutKept /\ PaymentsKept /\ WebhooksKept
  BY <1>1, <1>2, <1>3, KeptOwn DEF OutKept, PaymentsKept, WebhooksKept
<1>5. TypeInv'
  BY <1>1, <1>2 DEF TypeInv
<1>6. QED  BY <1>3, <1>4, <1>5, DepositStays DEF InDone

\* A webhook arrives.
LEMMA InDeliver ==
  ASSUME TypeInv, LedgerInv, DepositInv, NEW r \in Requests, NEW p \in Payments,
         NEW token \in Tokens, UNCHANGED outVars, Deliver(r, p, token)
  PROVE  InDone
<1> DEFINE call == [pc |-> "find", payment |-> p, token |-> token]
<1>1. /\ UNCHANGED <<ledger, wallet, withdrawal, payouts, deposit, confirmed, delivered>>
      /\ req' = [req EXCEPT ![r] = call] /\ (token = "paid" => p \in confirmed)
  BY DEF Deliver, moneyVars, outVars
<1>2. call \in FindCalls /\ call.pc = "find" /\ call.payment = p /\ call.token = token
  BY DEF FindCalls
<1> HIDE DEF call
<1>3. /\ req' \in [Requests -> Calls] /\ req'[r] = call
      /\ \A q \in Requests \ {r} : req'[q] = req[q]
  BY <1>1, <1>2 DEF TypeInv, Calls
<1>4. /\ LedgerInv' /\ OutKept /\ \A v, k : RowsKept(v, k)
      /\ \A q \in Payments : Credit(q)' = Credit(q)
  BY <1>1, <1>2, <1>3, InFrame DEF Owned, outVars
<1>5. TypeInv'
  BY <1>1, <1>3 DEF TypeInv
<1>6. WebhookInv(r)'
  BY <1>1, <1>2, <1>3 DEF WebhookInv
<1>7. \A q \in Payments : PaymentInv(q)'
  BY <1>1, <1>4, PaymentKept DEF DepositInv
<1>8. DepositInv'
  BY <1>1, <1>3, <1>4, <1>6, <1>7, WebhookStep
<1>9. QED  BY <1>4, <1>5, <1>8 DEF InDone

\* A webhook reads the row of its payment.
LEMMA InFind ==
  ASSUME TypeInv, LedgerInv, DepositInv, NEW r \in Requests, UNCHANGED outVars, FindDeposit(r)
  PROVE  InDone
<1> DEFINE p == req[r].payment
           call == [pc |-> "write", payment |-> p, token |-> req[r].token, seen |-> deposit[p]]
<1>1. /\ req[r] \in FindCalls /\ p \in Payments /\ req[r].token \in Tokens
      /\ deposit[p] \in DepositRows /\ req[r].pc = "find"
  BY CallTypes DEF FindDeposit, FindCalls, TypeInv
<1>2. /\ UNCHANGED <<ledger, wallet, withdrawal, payouts, deposit, confirmed, delivered>>
      /\ req' = [req EXCEPT ![r] = call]
  BY DEF FindDeposit, moneyVars, outVars
<1>3. /\ call \in WriteCalls /\ call.pc = "write" /\ call.payment = p
      /\ call.token = req[r].token /\ call.seen = deposit[p]
  BY <1>1 DEF WriteCalls
<1>4. (req[r].token = "paid" => p \in confirmed) /\ PaymentInv(p)
  BY <1>1 DEF DepositInv, WebhookInv
<1> HIDE DEF call, p
<1>5. /\ req' \in [Requests -> Calls] /\ req'[r] = call
      /\ \A q \in Requests \ {r} : req'[q] = req[q]
  BY <1>2, <1>3 DEF TypeInv, Calls
<1>6. /\ LedgerInv' /\ OutKept /\ \A v, k : RowsKept(v, k)
      /\ \A q \in Payments : Credit(q)' = Credit(q)
  BY <1>2, <1>3, <1>5, InFrame DEF Owned, outVars
<1>7. TypeInv'
  BY <1>2, <1>5 DEF TypeInv
<1>8. WebhookInv(r)'
  BY <1>2, <1>3, <1>4, <1>5 DEF WebhookInv, PaymentInv
<1>9. \A q \in Payments : PaymentInv(q)'
  BY <1>2, <1>6, PaymentKept DEF DepositInv
<1>10. DepositInv'
  BY <1>2, <1>5, <1>6, <1>8, <1>9, WebhookStep
<1>11. QED  BY <1>6, <1>7, <1>10 DEF InDone

\* The row a webhook writes: a new one, or the one there with another status.
LEMMA WrittenFacts ==
  ASSUME TypeInv, DepositInv, NEW r \in Requests, req[r].pc = "write", NEW amount \in Amounts,
         req[r].seen = NoDeposit => deposit[req[r].payment] = NoDeposit
  PROVE  LET p == req[r].payment
             row == Written(r, amount)
         IN  /\ row \in DepositRows /\ row # NoDeposit /\ row.status # "NONE"
             /\ row.amount \in Amounts
             /\ deposit[p] # NoDeposit => row.amount = deposit[p].amount
             /\ row.credited = deposit[p].credited
<1> DEFINE p == req[r].payment
           seen == req[r].seen
           status == NextStatus(seen, req[r].token)
           row == Written(r, amount)
<1>1. /\ req[r] \in WriteCalls /\ p \in Payments /\ seen \in DepositRows
      /\ deposit[p] \in DepositRows
  BY CallTypes DEF WriteCalls, TypeInv
<1>2. NoDeposit.status = "NONE" /\ NoDeposit.credited = FALSE
  BY DEF NoDeposit
<1>3. /\ PaymentInv(p)
      /\ seen # NoDeposit => deposit[p] # NoDeposit /\ seen.status # "NONE"
  BY <1>1 DEF DepositInv, WebhookInv
<1>4. status \in {"PENDING", "CONFIRMING", "COMPLETED"}
  BY <1>1, <1>2, <1>3 DEF NextStatus, DepositRows
<1> HIDE DEF status
<1>5. CASE seen = NoDeposit
  <2>1. row = [status |-> status, amount |-> amount, credited |-> FALSE]
    BY <1>5 DEF Written, status
  <2>2. deposit[p] = NoDeposit
    BY <1>5
  <2> HIDE DEF row
  <2>3. /\ row.status = status /\ row.amount = amount /\ row.credited = FALSE
        /\ row \in DepositRows
    BY <1>4, <2>1 DEF DepositRows
  <2>4. row # NoDeposit
    BY <1>2, <1>4, <2>3
  <2>5. QED  BY <1>2, <1>4, <2>2, <2>3, <2>4 DEF row
<1>6. CASE seen # NoDeposit
  <2>1. row = [deposit[p] EXCEPT !.status = status]
    BY <1>6 DEF Written, status
  <2>2. deposit[p].amount \in Amounts
    BY <1>3, <1>6 DEF PaymentInv
  <2>3. /\ row \in DepositRows /\ row.status = status /\ row.amount = deposit[p].amount
        /\ row.credited = deposit[p].credited
    BY <1>1, <1>4, <2>1 DEF DepositRows
  <2>4. QED  BY <1>2, <1>4, <2>2, <2>3
<1>7. QED  BY <1>5, <1>6

\* The row of a payment is created or gets its status.
LEMMA InWrite ==
  ASSUME TypeInv, LedgerInv, DepositInv, NEW r \in Requests, UNCHANGED outVars, WriteDeposit(r)
  PROVE  InDone
<1>0. PICK p \in Payments : p = req[r].payment
  BY CallTypes DEF WriteDeposit, WriteCalls
<1>1. /\ req[r] \in WriteCalls /\ p = req[r].payment /\ req[r].pc = "write"
      /\ (req[r].token = "paid" => p \in confirmed)
  BY <1>0, CallTypes DEF WriteDeposit, WriteCalls, DepositInv, WebhookInv
<1>2. /\ UNCHANGED <<ledger, wallet, withdrawal, payouts, confirmed>>
      /\ (req[r].seen = NoDeposit => deposit[p] = NoDeposit)
  BY <1>1 DEF WriteDeposit, moneyVars, outVars
<1>3. PICK amount \in Amounts :
        /\ deposit' = [deposit EXCEPT ![p] = Written(r, amount)]
        /\ IF ToCredit(r, Written(r, amount))
             THEN Goto(r, "credit") /\ UNCHANGED delivered
             ELSE /\ Answer(r)
                  /\ delivered' = IF req[r].token = "paid" THEN delivered \cup {p}
                                                            ELSE delivered
  BY <1>1 DEF WriteDeposit
<1> DEFINE row == Written(r, amount)
<1>4. /\ row \in DepositRows /\ row # NoDeposit /\ row.status # "NONE"
      /\ row.amount \in Amounts
      /\ deposit[p] # NoDeposit => row.amount = deposit[p].amount
      /\ row.credited = deposit[p].credited
  BY <1>1, <1>2, WrittenFacts
<1>5. /\ req' \in [Requests -> Calls] /\ \A q \in Requests \ {r} : req'[q] = req[q]
      /\ \/ req'[r].pc = "idle"
         \/ req'[r].pc = "credit" /\ req'[r].payment = p /\ req[r].token = "paid"
      /\ delivered' \subseteq confirmed
  <2>1. CASE Goto(r, "credit") /\ UNCHANGED delivered /\ ToCredit(r, row)
    BY <1>1, <2>1, WebhookGoto DEF ToCredit, TypeInv
  <2>2. CASE /\ Answer(r)
             /\ delivered' = IF req[r].token = "paid" THEN delivered \cup {p} ELSE delivered
    BY <1>1, <2>2, AnswerEffect DEF TypeInv
  <2>3. QED  BY <1>3, <2>1, <2>2
<1> HIDE DEF row
<1>6. deposit'[p] = row /\ \A q \in Payments \ {p} : deposit'[q] = deposit[q]
  BY <1>1, <1>3 DEF TypeInv, row
<1>7. /\ LedgerInv' /\ OutKept /\ \A v, k : RowsKept(v, k)
      /\ \A q \in Payments : Credit(q)' = Credit(q)
  BY <1>2, <1>5, InFrame DEF Owned, outVars
<1>8. TypeInv'
  <2>1. deposit' \in [Payments -> DepositRows]
    BY <1>1, <1>3, <1>4 DEF TypeInv, row
  <2>2. QED  BY <1>2, <1>5, <2>1 DEF TypeInv
<1>9. WebhookInv(r)' \/ req'[r].pc = "idle"
  BY <1>1, <1>2, <1>4, <1>5, <1>6 DEF WebhookInv
<1>10. ASSUME NEW q \in Payments PROVE PaymentInv(q)'
  <2>1. CASE q # p
    BY <1>2, <1>6, <1>7, <2>1, PaymentKept DEF DepositInv
  <2>2. CASE q = p
    <3>1. PaymentInv(p)
      BY <1>1 DEF DepositInv
    <3>2. /\ Credit(p)' = Credit(p) /\ ledger' = ledger /\ confirmed' = confirmed
          /\ RowsWithKey(Payee[p], <<"bonus", p>>)' = RowsWithKey(Payee[p], <<"bonus", p>>)
      BY <1>1, <1>2, <1>7 DEF RowsKept
    <3>3. Credit(p) # {} => row.amount = deposit[p].amount
      BY <1>4, <3>1 DEF PaymentInv
    <3>4. QED  BY <1>4, <1>6, <2>2, <3>1, <3>2, <3>3 DEF PaymentInv
  <2>3. QED  BY <2>1, <2>2
<1>11. DepositInv'
  <2>1. \A q \in Payments : deposit[q] # NoDeposit => deposit'[q] # NoDeposit
    BY <1>4, <1>6
  <2>2. QED  BY <1>2, <1>5, <1>7, <1>9, <1>10, <2>1, WebhookStep DEF Webhooks
<1>12. QED  BY <1>7, <1>8, <1>11 DEF InDone

\* A webhook whose insert fails answers with an error.
LEMMA InConflict ==
  ASSUME TypeInv, LedgerInv, DepositInv, NEW r \in Requests, UNCHANGED outVars,
         WriteConflict(r)
  PROVE  InDone
<1>1. /\ UNCHANGED <<ledger, wallet, withdrawal, payouts, deposit, confirmed, delivered>>
      /\ Answer(r)
  BY DEF WriteConflict, moneyVars, outVars
<1>2. /\ req' \in [Requests -> Calls] /\ req'[r].pc = "idle"
      /\ \A q \in Requests \ {r} : req'[q] = req[q]
  BY <1>1, AnswerEffect
<1>3. LedgerInv' /\ OutKept /\ \A v, k : RowsKept(v, k)
  BY <1>1, <1>2, InFrame DEF Owned, outVars
<1>4. PaymentsKept /\ WebhooksKept
  BY <1>1, <1>2, <1>3 DEF PaymentsKept, WebhooksKept, Webhooks
<1>5. TypeInv'
  BY <1>1, <1>2 DEF TypeInv
<1>6. QED  BY <1>3, <1>4, <1>5, DepositStays DEF InDone

\* The confirmed amount is credited under the payment's key, unless another
\* webhook of the payment did so.
LEMMA InCredit ==
  ASSUME TypeInv, LedgerInv, DepositInv, NEW r \in Requests, UNCHANGED outVars,
         CreditDeposit(r)
  PROVE  InDone
<1>0. PICK p \in Payments : p = req[r].payment
  BY CallTypes DEF CreditDeposit, WriteCalls
<1>1. /\ req[r] \in WriteCalls /\ req[r].pc = "credit" /\ WebhookInv(r) /\ PaymentInv(p)
      /\ p \in confirmed /\ deposit[p] # NoDeposit
  BY <1>0, CallTypes DEF CreditDeposit, DepositInv, WebhookInv
<1>2. PICK amount \in Amounts : amount = deposit[p].amount
  BY <1>1 DEF PaymentInv
<1>3. PICK w \in Wallets : w = Payee[p]
  BY CashierAssumption
<1>4. PICK key \in MovementKeys : key = <<"credit", p>>
  BY DEF MovementKeys
<1>5. /\ Adjusted(w, amount, key) /\ Goto(r, "complete")
      /\ UNCHANGED <<deposit, confirmed, delivered, withdrawal, payouts>>
  BY <1>0, <1>2, <1>3, <1>4 DEF CreditDeposit, CreditKey, outVars
<1>6. amount \in Int /\ amount > 0
  BY Numbers
<1> DEFINE last == Len(ledger[w]) + 1
<1>7. /\ wallet' \in [Wallets -> WalletRows] /\ ledger' \in [Wallets -> Seq(LedgerRows)]
      /\ LedgerInv'
      /\ \A v \in Wallets : \A k : v # w \/ k # key => RowsKept(v, k)
      /\ \/ RowsWithKey(w, key) # {} /\ RowsKept(w, key)
         \/ /\ RowsWithKey(w, key) = {} /\ RowsWithKey(w, key)' = {last}
            /\ ledger'[w][last].amount = amount
  BY <1>5, <1>6, AdjustedRows
<1> HIDE DEF last
<1>8. /\ req' \in [Requests -> Calls] /\ req'[r].pc = "complete" /\ req'[r].payment = p
      /\ \A q \in Requests \ {r} : req'[q] = req[q]
  BY <1>0, <1>1, <1>5, WebhookGoto
<1>9. OutKept
  <2>1. \A s \in Slots : /\ s[1] \in Wallets
                         /\ <<"debit", s[2]>> # key /\ <<"revert", s[2]>> # key
    BY <1>4 DEF Slots
  <2>2. \A s \in Slots : OwnKept(s)
    BY <1>7, <2>1, KeptOwn
  <2>3. QED  BY <1>5, <1>8, <2>2 DEF OutKept, Owned
<1>10. ASSUME NEW q \in Payments
       PROVE  /\ RowsKept(Payee[q], <<"bonus", q>>)
              /\ q # p => RowsKept(Payee[q], <<"credit", q>>)
  <2>1. /\ Payee[q] \in Wallets /\ <<"bonus", q>> # key
        /\ q # p => <<"credit", q>> # key
    BY <1>4, CashierAssumption
  <2>2. QED  BY <1>7, <2>1
<1>11. Credit(p) = RowsWithKey(w, key) /\ Credit(p)' = RowsWithKey(w, key)'
  BY <1>3, <1>4 DEF Credit, RowsWithKey
<1>12. PaymentInv(p)' /\ Credit(p)' # {}
  <2>1. CASE RowsWithKey(w, key) # {} /\ RowsKept(w, key)
    <3>1. RowsKept(Payee[p], <<"credit", p>>)
      BY <1>3, <1>4, <2>1
    <3>2. QED  BY <1>1, <1>5, <1>10, <1>11, <2>1, <3>1, PaymentKept
  <2>2. CASE /\ RowsWithKey(w, key) = {} /\ RowsWithKey(w, key)' = {last}
             /\ ledger'[w][last].amount = amount
    <3>1. /\ Credit(p) = {} /\ Credit(p)' = {last} /\ ledger'[Payee[p]][last].amount = amount
      BY <1>3, <1>11, <2>2
    <3>2. RowsWithKey(Payee[p], <<"bonus", p>>)' = {}
      BY <1>1, <1>10, <3>1 DEF PaymentInv, RowsKept
    <3>3. deposit' = deposit /\ confirmed' = confirmed
      BY <1>5
    <3>4. QED  BY <1>1, <1>2, <3>1, <3>2, <3>3 DEF PaymentInv
  <2>3. QED  BY <1>7, <2>1, <2>2
<1>13. \A q \in Payments : PaymentInv(q)' /\ (Credit(q) # {} => Credit(q)' # {})
  <2>1. ASSUME NEW q \in Payments, q # p PROVE PaymentInv(q)' /\ Credit(q)' = Credit(q)
    BY <1>5, <1>10, <2>1, PaymentKept DEF DepositInv
  <2>2. QED  BY <1>12, <2>1
<1>14. WebhookInv(r)'
  BY <1>1, <1>5, <1>8, <1>12 DEF WebhookInv
<1>15. DepositInv'
  BY <1>5, <1>8, <1>13, <1>14, WebhookStep
<1>16. TypeInv'
  BY <1>5, <1>7, <1>8 DEF TypeInv
<1>17. QED  BY <1>7, <1>9, <1>15, <1>16 DEF InDone

\* A credited deposit is completed.
LEMMA InComplete ==
  ASSUME TypeInv, LedgerInv, DepositInv, NEW r \in Requests, UNCHANGED outVars,
         CompleteDeposit(r)
  PROVE  InDone
<1>0. PICK p \in Payments : p = req[r].payment
  BY CallTypes DEF CompleteDeposit, WriteCalls
<1>1. /\ req[r].pc = "complete" /\ WebhookInv(r) /\ PaymentInv(p)
      /\ p \in confirmed /\ deposit[p] # NoDeposit /\ Credit(p) # {}
  BY <1>0 DEF CompleteDeposit, DepositInv, WebhookInv
<1> DEFINE call == [pc |-> "extras", payment |-> p, left |-> {"wager", "bonus"}]
           row == [deposit[p] EXCEPT !.status = "COMPLETED", !.credited = TRUE]
<1>2. /\ UNCHANGED <<ledger, wallet, withdrawal, payouts, confirmed>>
      /\ deposit' = [deposit EXCEPT ![p] = row] /\ delivered' = delivered \cup {p}
      /\ req' = [req EXCEPT ![r] = call]
  BY <1>0 DEF CompleteDeposit, moneyVars, outVars, TypeInv
<1>3. call \in ExtraCalls /\ call.pc = "extras" /\ call.payment = p
  BY DEF ExtraCalls
<1>4. /\ row \in DepositRows /\ row.status = "COMPLETED" /\ row.credited
      /\ row.amount = deposit[p].amount
  BY DEF TypeInv, DepositRows
<1> HIDE DEF call, row
<1>5. /\ req' \in [Requests -> Calls] /\ req'[r] = call
      /\ \A q \in Requests \ {r} : req'[q] = req[q]
  BY <1>2, <1>3 DEF TypeInv, Calls
<1>6. deposit'[p] = row /\ \A q \in Payments \ {p} : deposit'[q] = deposit[q]
  BY <1>2 DEF TypeInv
<1>7. row # NoDeposit
  BY <1>4 DEF NoDeposit
<1>8. /\ LedgerInv' /\ OutKept /\ \A v, k : RowsKept(v, k)
      /\ \A q \in Payments : Credit(q)' = Credit(q)
  BY <1>2, <1>3, <1>5, InFrame DEF Owned, outVars
<1>9. TypeInv'
  <2>1. deposit' \in [Payments -> DepositRows]
    BY <1>2, <1>4 DEF TypeInv
  <2>2. delivered' \subseteq confirmed'
    BY <1>1, <1>2 DEF TypeInv
  <2>3. QED  BY <1>2, <1>5, <2>1, <2>2 DEF TypeInv
<1>10. WebhookInv(r)'
  BY <1>1, <1>3, <1>5, <1>6, <1>7, <1>8 DEF WebhookInv
<1>11. PaymentInv(p)'
  <2>1. /\ ledger' = ledger /\ confirmed' = confirmed /\ Credit(p)' = Credit(p)
        /\ RowsWithKey(Payee[p], <<"bonus", p>>)' = RowsWithKey(Payee[p], <<"bonus", p>>)
    BY <1>2, <1>8 DEF RowsKept
  <2>2. row.amount \in Amounts
    BY <1>1, <1>4 DEF PaymentInv
  <2>3. QED  BY <1>1, <1>4, <1>6, <1>7, <2>1, <2>2 DEF PaymentInv
<1>12. \A q \in Payments : PaymentInv(q)'
  BY <1>2, <1>6, <1>8, <1>11, PaymentKept DEF DepositInv
<1>13. \A q \in Payments : deposit[q] # NoDeposit => deposit'[q] # NoDeposit
  BY <1>6, <1>7
<1>14. DepositInv'
  BY <1>2, <1>5, <1>8, <1>10, <1>12, <1>13, WebhookStep
<1>15. QED  BY <1>8, <1>9, <1>14 DEF InDone

\* A bonus posting under the key of its source keeps every withdrawal and
\* credit; where it is a payment's, the payment has its credit already.
LEMMA BonusKeeps ==
  ASSUME TypeInv, LedgerInv, NEW w \in Wallets, NEW amount \in Nat, NEW key \in BonusKeys,
         NEW ref \in Payments \cup Promos, ref \in Payments => key = <<"bonus", ref>>,
         CreditBonus(w, amount, key, ref)
  PROVE  /\ \A s \in Slots : OwnKept(s)
         /\ \A p \in Payments : RowsKept(Payee[p], <<"credit", p>>)
         /\ \A p \in Payments : <<"bonus", p>> # key =>
              RowsKept(Payee[p], <<"bonus", p>>)
<1>1. \A v \in Wallets : \A k : v # w \/ k # key => RowsKept(v, k)
  BY BonusedRows
<1>2. \A s \in Slots : /\ s[1] \in Wallets
                       /\ <<"debit", s[2]>> # key /\ <<"revert", s[2]>> # key
  BY DEF Slots, BonusKeys
<1>3. \A p \in Payments : Payee[p] \in Wallets /\ <<"credit", p>> # key
  BY CashierAssumption DEF BonusKeys
<1>4. \A s \in Slots : OwnKept(s)
  BY <1>1, <1>2, KeptOwn
<1>5. QED  BY <1>1, <1>3, <1>4

\* The bonus of a deposit is posted after its credit.
LEMMA BonusAfterCredit ==
  ASSUME TypeInv, LedgerInv, NEW p \in Payments, PaymentInv(p), Credit(p) # {},
         NEW amount \in Nat, CreditBonus(Payee[p], amount, <<"bonus", p>>, p),
         UNCHANGED <<deposit, confirmed>>
  PROVE  PaymentInv(p)'
<1>1. PICK w \in Wallets : w = Payee[p]
  BY CashierAssumption
<1>2. PICK key \in BonusKeys : key = <<"bonus", p>>
  BY DEF BonusKeys
<1> DEFINE last == Len(ledger[w]) + 1
<1>3. RowsWithKey(w, key)' = {last} /\ \A i \in DOMAIN ledger[w] : i < last
  BY <1>1, <1>2, BonusedRows
<1> HIDE DEF last
<1>4. RowsKept(Payee[p], <<"credit", p>>)
  BY <1>1, <1>2, BonusKeeps
<1>5. /\ Credit(p)' = Credit(p) /\ \A i \in Credit(p) : ledger'[Payee[p]][i] = ledger[Payee[p]][i]
  BY <1>4 DEF RowsKept, Credit
<1>6. \A i \in RowsWithKey(Payee[p], <<"bonus", p>>)' : \E j \in Credit(p)' : j < i
  <2>1. \A j \in Credit(p) : j \in DOMAIN ledger[w]
    BY <1>1 DEF Credit, RowsWithKey
  <2>2. RowsWithKey(Payee[p], <<"bonus", p>>)' = {last}
    BY <1>1, <1>2, <1>3
  <2>3. QED  BY <1>3, <1>5, <2>1, <2>2
<1>7. QED  BY <1>5, <1>6 DEF PaymentInv

\* The bonus of a deposit is a natural number.
LEMMA BonusNat == ASSUME NEW amount \in Amounts PROVE DepositBonus(amount) \in Int
BY Numbers DEF DepositBonus

\* After the deposit: the wager requirement is raised, a bonus may be posted.
LEMMA InExtra ==
  ASSUME TypeInv, LedgerInv, DepositInv, NEW r \in Requests, UNCHANGED outVars, Extra(r)
  PROVE  InDone
<1>0. PICK p \in Payments : p = req[r].payment
  BY CallTypes DEF Extra, ExtraCalls
<1>1. /\ req[r] \in ExtraCalls /\ req[r].pc = "extras" /\ WebhookInv(r) /\ PaymentInv(p)
      /\ deposit[p] # NoDeposit /\ Credit(p) # {}
  BY <1>0, CallTypes DEF Extra, DepositInv, WebhookInv
<1>2. PICK amount \in Amounts : amount = deposit[p].amount
  BY <1>1 DEF PaymentInv
<1>3. PICK w \in Wallets : w = Payee[p]
  BY CashierAssumption
<1>4. PICK x \in req[r].left :
        /\ IF x = "wager" THEN AddWagerRequirement(w, amount) ELSE ApplyDepositBonus(w, p, amount)
        /\ IF req[r].left = {x} THEN Answer(r) ELSE req' = [req EXCEPT ![r].left = @ \ {x}]
  BY <1>0, <1>2, <1>3 DEF Extra
<1>5. UNCHANGED <<deposit, confirmed, delivered, withdrawal, payouts>>
  BY DEF Extra, outVars
<1>6. /\ req' \in [Requests -> Calls] /\ \A q \in Requests \ {r} : req'[q] = req[q]
      /\ req'[r].pc = "idle" \/ (req'[r].pc = "extras" /\ req'[r].payment = p)
  <2>1. CASE Answer(r)
    BY <2>1, AnswerEffect
  <2>2. CASE req' = [req EXCEPT ![r].left = @ \ {x}]
    <3> DEFINE call == [req[r] EXCEPT !.left = @ \ {x}]
    <3>1. call \in ExtraCalls /\ call.pc = "extras" /\ call.payment = p
      BY <1>0, <1>1 DEF ExtraCalls
    <3>2. req' = [req EXCEPT ![r] = call]
      BY <2>2
    <3> HIDE DEF call
    <3>3. QED  BY <3>1, <3>2 DEF TypeInv, Calls
  <2>3. QED  BY <1>4, <2>1, <2>2
<1> DEFINE Kept ==
      /\ wallet' \in [Wallets -> WalletRows] /\ ledger' \in [Wallets -> Seq(LedgerRows)]
      /\ LedgerInv'
      /\ \A s \in Slots : OwnKept(s)
      /\ \A q \in Payments : RowsKept(Payee[q], <<"credit", q>>) /\ PaymentInv(q)'
<1>7. Kept
  <2>1. ASSUME UNCHANGED ledger, wallet' \in [Wallets -> WalletRows] PROVE Kept
    <3>1. LedgerInv' /\ \A v, k : RowsKept(v, k)
      BY <2>1, RowsStay, LedgerStays
    <3>2. \A q \in Payments : PaymentInv(q)'
      BY <1>5, <3>1, PaymentKept DEF DepositInv
    <3>3. \A s \in Slots : OwnKept(s)
      BY <3>1, KeptOwn
    <3>4. QED  BY <2>1, <3>1, <3>2, <3>3 DEF TypeInv
  <2>2. CASE AddWagerRequirement(w, amount)
    <3>1. wallet[w] \in WalletRows /\ amount \in Nat
      BY Numbers DEF TypeInv
    <3> DEFINE row == [wallet[w] EXCEPT !.wager = wallet[w].wager + amount]
    <3>2. row \in WalletRows
      BY <3>1 DEF WalletRows
    <3>3. wallet' = [wallet EXCEPT ![w] = row] /\ UNCHANGED ledger
      BY <2>2 DEF AddWagerRequirement, TypeInv
    <3> HIDE DEF row
    <3>4. wallet' \in [Wallets -> WalletRows]
      BY <3>2, <3>3 DEF TypeInv
    <3>5. QED  BY <2>1, <3>3, <3>4
  <2>3. CASE UNCHANGED moneyVars
    BY <2>1, <2>3 DEF moneyVars, TypeInv
  <2>4. CASE /\ DepositBonus(amount) > 0
             /\ CreditBonus(w, DepositBonus(amount), BonusKey(w, p), p)
    <3>1. PICK bonus \in Nat : bonus = DepositBonus(amount)
      BY <2>4, BonusNat
    <3>2. PICK key \in BonusKeys : key = <<"bonus", p>>
      BY DEF BonusKeys
    <3>3. CreditBonus(w, bonus, key, p) /\ p \in Payments \cup Promos
      BY <2>4, <3>1, <3>2 DEF BonusKey
    <3>4. /\ wallet' \in [Wallets -> WalletRows] /\ ledger' \in [Wallets -> Seq(LedgerRows)]
          /\ LedgerInv'
      BY <3>2, <3>3, BonusedRows
    <3>5. /\ \A s \in Slots : OwnKept(s)
          /\ \A q \in Payments : RowsKept(Payee[q], <<"credit", q>>)
          /\ \A q \in Payments : <<"bonus", q>> # key => RowsKept(Payee[q], <<"bonus", q>>)
      BY <3>2, <3>3, BonusKeeps
    <3>6. PaymentInv(p)'
      BY <1>1, <1>3, <1>5, <3>2, <3>3, BonusAfterCredit
    <3>7. ASSUME NEW q \in Payments, q # p PROVE PaymentInv(q)'
      <4>1. <<"bonus", q>> # key
        BY <3>2, <3>7
      <4>2. QED  BY <1>5, <3>5, <4>1, PaymentKept DEF DepositInv
    <3>8. QED  BY <3>4, <3>5, <3>6, <3>7
  <2>5. QED  BY <1>4, <2>2, <2>3, <2>4 DEF ApplyDepositBonus
<1>8. \A q \in Payments : Credit(q)' = Credit(q)
  BY <1>7 DEF Credit, RowsKept
<1>9. OutKept
  BY <1>5, <1>6, <1>7 DEF OutKept, Owned
<1>10. req'[r].pc \in Webhooks => WebhookInv(r)'
  BY <1>1, <1>5, <1>6, <1>8 DEF WebhookInv, Webhooks
<1>11. DepositInv'
  BY <1>5, <1>6, <1>7, <1>8, <1>10, WebhookStep
<1>12. TypeInv'
  BY <1>5, <1>6, <1>7 DEF TypeInv
<1>13. QED  BY <1>7, <1>9, <1>11, <1>12 DEF InDone

\* Every step of a webhook.
LEMMA InStep ==
  ASSUME TypeInv, LedgerInv, DepositInv, NEW r \in Requests, UNCHANGED outVars, Handle(r)
  PROVE  InDone
BY InFind, InWrite, InConflict, InCredit, InComplete, InExtra DEF Handle

-----------------------------------------------------------------------------
(***************************************************************************)
(* The other steps, and the invariant.                                     *)
(***************************************************************************)

\* The requirement of an owner changes, or nothing of the money does.
LEMMA PromoQuiet ==
  ASSUME TypeInv, LedgerInv, UNCHANGED <<outVars, inVars, req, ledger>>,
         wallet' \in [Wallets -> WalletRows]
  PROVE  TypeInv' /\ LedgerInv' /\ OutKept /\ PaymentsKept /\ WebhooksKept
<1>1. LedgerInv' /\ \A v, k : RowsKept(v, k)
  BY RowsStay, LedgerStays
<1>2. UNCHANGED <<withdrawal, payouts, deposit, confirmed, delivered, req, ledger>>
  BY DEF outVars, inVars
<1>3. OutKept /\ PaymentsKept /\ WebhooksKept
  BY <1>1, <1>2, KeptOwn DEF OutKept, PaymentsKept, WebhooksKept
<1>4. TypeInv'
  BY <1>2 DEF TypeInv
<1>5. QED  BY <1>1, <1>3, <1>4

\* The reward of a promo code is posted under the code's key.
LEMMA PromoReward ==
  ASSUME TypeInv, LedgerInv, UNCHANGED <<outVars, inVars, req>>,
         NEW code \in Promos, NEW w \in Wallets, RedeemPromoCode(code, w)
  PROVE  TypeInv' /\ LedgerInv' /\ OutKept /\ PaymentsKept /\ WebhooksKept
<1>1. PICK amount \in Nat : amount = Reward[code]
  BY PromoAssumption
<1>2. PICK key \in BonusKeys : key = <<"promo", code>>
  BY DEF BonusKeys
<1>3. /\ code \in Payments \cup Promos /\ (code \in Payments => key = <<"bonus", code>>)
      /\ CreditBonus(w, amount, key, code)
  BY <1>1, <1>2, CashierAssumption DEF RedeemPromoCode
<1>4. /\ wallet' \in [Wallets -> WalletRows] /\ ledger' \in [Wallets -> Seq(LedgerRows)]
      /\ LedgerInv'
  BY <1>3, BonusedRows
<1>5. /\ \A s \in Slots : OwnKept(s)
      /\ \A p \in Payments : RowsKept(Payee[p], <<"credit", p>>)
      /\ \A p \in Payments : <<"bonus", p>> # key => RowsKept(Payee[p], <<"bonus", p>>)
  BY <1>3, BonusKeeps
<1>6. \A p \in Payments : <<"bonus", p>> # key
  BY <1>2
<1>7. UNCHANGED <<withdrawal, payouts, deposit, confirmed, delivered, req>>
  BY DEF outVars, inVars
<1>8. OutKept /\ PaymentsKept /\ WebhooksKept
  BY <1>5, <1>6, <1>7 DEF OutKept, PaymentsKept, WebhooksKept
<1>9. TypeInv'
  BY <1>4, <1>7 DEF TypeInv
<1>10. QED  BY <1>4, <1>8, <1>9

\* Every step of the promotions.
LEMMA PromoStep ==
  ASSUME TypeInv, LedgerInv, UNCHANGED <<outVars, inVars, req>>, PromoNext
  PROVE  TypeInv' /\ LedgerInv' /\ OutKept /\ PaymentsKept /\ WebhooksKept
<1>1. CASE \E p \in Promos, w \in Wallets : RedeemPromoCode(p, w)
  BY <1>1, PromoReward
<1>2. ASSUME NEW w \in Wallets, ApplyDepositBonusCode(w) \/ ActivationExpires(w)
      PROVE  TypeInv' /\ LedgerInv' /\ OutKept /\ PaymentsKept /\ WebhooksKept
  <2>1. UNCHANGED <<wallet, ledger>>
    BY <1>2 DEF ApplyDepositBonusCode, ActivationExpires, moneyVars
  <2>2. wallet' \in [Wallets -> WalletRows]
    BY <2>1 DEF TypeInv
  <2>3. QED  BY <2>1, <2>2, PromoQuiet
<1>3. ASSUME NEW w \in Wallets, SetWagerRemaining(w, 0)
      PROVE  TypeInv' /\ LedgerInv' /\ OutKept /\ PaymentsKept /\ WebhooksKept
  <2> DEFINE row == [wallet[w] EXCEPT !.wager = 0]
  <2>1. wallet[w] \in WalletRows
    BY DEF TypeInv
  <2>2. row \in WalletRows
    BY <2>1 DEF WalletRows
  <2>3. wallet' = [wallet EXCEPT ![w] = row] /\ UNCHANGED ledger
    BY <1>3 DEF SetWagerRemaining, TypeInv
  <2> HIDE DEF row
  <2>4. wallet' \in [Wallets -> WalletRows]
    BY <2>2, <2>3 DEF TypeInv
  <2>5. QED  BY <2>3, <2>4, PromoQuiet
<1>4. QED  BY <1>1, <1>2, <1>3 DEF PromoNext

\* A handler dies: what it committed stays, and nobody goes on with it.
LEMMA FailStep ==
  ASSUME TypeInv, LedgerInv, Fail
  PROVE  TypeInv' /\ LedgerInv' /\ OutKept /\ PaymentsKept /\ WebhooksKept
<1>1. PICK r \in Requests : Answer(r)
  BY DEF Fail
<1>2. UNCHANGED <<wallet, ledger, withdrawal, payouts, deposit, confirmed, delivered>>
  BY DEF Fail, moneyVars, outVars, inVars
<1>3. /\ req' \in [Requests -> Calls] /\ req'[r].pc = "idle"
      /\ \A q \in Requests \ {r} : req'[q] = req[q]
  BY <1>1, AnswerEffect
<1>4. LedgerInv' /\ \A v, k : RowsKept(v, k)
  BY <1>2, RowsStay, LedgerStays
<1>5. OutKept /\ PaymentsKept /\ WebhooksKept
  BY <1>2, <1>3, <1>4, KeptOwn DEF OutKept, PaymentsKept, WebhooksKept, Owned, Webhooks
<1>6. TypeInv'
  BY <1>2, <1>3 DEF TypeInv
<1>7. QED  BY <1>4, <1>5, <1>6

\* A stake is held under a key no row of the wallet has: the cashier's own rows
\* and those of the payments stay.
LEMMA StakeStep ==
  ASSUME TypeInv, LedgerInv, UNCHANGED <<outVars, inVars, req>>,
         NEW w \in Wallets, NEW key \in OtherKeys, NEW stake \in Stakes,
         PlaceStake(w, key, stake)
  PROVE  TypeInv' /\ LedgerInv' /\ OutKept /\ PaymentsKept /\ WebhooksKept
<1> DEFINE before == wallet[w].balance
           row == [balance |-> before - stake, locked |-> wallet[w].locked + stake,
                   wager |-> ConsumeWager(wallet[w].wager, stake)]
           e == Entry("BET_HOLD", "DEBIT", stake, before, before - stake, key, NoRef)
           last == Len(ledger[w]) + 1
<1>1. /\ wallet[w] \in WalletRows /\ stake \in Nat /\ BigintMax \in Nat
      /\ key \in {"debit", "revert"} \X Keys
  BY Numbers, CashierAssumption DEF TypeInv
<1>2. /\ ~KeyUsed(w, key) /\ before >= stake /\ wallet[w].locked + stake \in 0..BigintMax
      /\ wallet' = [wallet EXCEPT ![w] = row] /\ Post(w, e)
  BY DEF PlaceStake, DebitBalanceInTx, CanDebit, Fits
<1>3. row \in WalletRows /\ before \in 0..BigintMax /\ before - stake \in 0..BigintMax
  BY <1>1, <1>2 DEF WalletRows, ConsumeWager
<1>4. e \in HoldRows /\ e \in LedgerRows /\ e.key = key /\ e.reason = "BET_HOLD"
  BY <1>1, <1>3 DEF Entry, HoldRows, LedgerRows
<1> HIDE DEF row, e, last
<1>5. LedgerInv'
  BY <1>2, <1>4, LedgerPosted
<1>6. /\ ledger' \in [Wallets -> Seq(LedgerRows)] /\ ledger'[w][last] = e
      /\ \A v \in Wallets : \A i \in DOMAIN ledger[v] :
           i \in DOMAIN ledger'[v] /\ ledger'[v][i] = ledger[v][i]
      /\ \A v \in Wallets : \A i \in DOMAIN ledger'[v] :
           i \in DOMAIN ledger[v] \/ (v = w /\ i = last)
  BY <1>2, <1>4, PostEffect DEF last
<1>7. \A v \in Wallets : \A k : v # w \/ k # key => RowsKept(v, k)
  BY <1>2, <1>4, PostRows
<1>8. ASSUME NEW s \in Slots PROVE OwnKept(s)
  <2>1. s[1] \in Wallets
    BY DEF Slots
  <2>2. ASSUME NEW kind \in {"debit", "revert"}
        PROVE  /\ Own(s, kind)' = Own(s, kind)
               /\ \A i \in Own(s, kind) : ledger'[s[1]][i] = ledger[s[1]][i]
               /\ Others(s, kind) \subseteq Others(s, kind)'
    <3>1. /\ \A i \in Posted(s, kind) :
               i \in Posted(s, kind)' /\ ledger'[s[1]][i] = ledger[s[1]][i]
          /\ \A i \in Posted(s, kind)' :
               i \in Posted(s, kind) \/ ledger'[s[1]][i].reason = "BET_HOLD"
      BY <1>4, <1>6, <2>1 DEF Posted, RowsWithKey
    <3>2. QED  BY <3>1 DEF Own, Others
  <2>3. QED  BY <2>2 DEF OwnKept
<1>9. UNCHANGED <<withdrawal, payouts, deposit, confirmed, delivered, req>>
  BY DEF outVars, inVars
<1>10. \A p \in Payments : RowsKept(Payee[p], <<"credit", p>>)
                            /\ RowsKept(Payee[p], <<"bonus", p>>)
  <2>1. \A p \in Payments : Payee[p] \in Wallets /\ <<"credit", p>> # key /\ <<"bonus", p>> # key
    BY <1>1, CashierAssumption
  <2>2. QED  BY <1>7, <2>1
<1>11. OutKept /\ PaymentsKept /\ WebhooksKept
  BY <1>8, <1>9, <1>10 DEF OutKept, PaymentsKept, WebhooksKept
<1>12. TypeInv'
  BY <1>2, <1>3, <1>6, <1>9 DEF TypeInv
<1>13. QED  BY <1>5, <1>11, <1>12

\* The invariant holds at first.
LEMMA IInit == Init => IInv
<1> SUFFICES ASSUME Init PROVE IInv
  OBVIOUS
<1>1. /\ wallet = [w \in Wallets |-> [balance |-> 0, locked |-> 0, wager |-> WagerRequired]]
      /\ ledger = [w \in Wallets |-> <<>>]
      /\ withdrawal = [s \in Slots |-> NoWithdrawal] /\ payouts = [s \in Slots |-> 0]
      /\ deposit = [p \in Payments |-> NoDeposit] /\ confirmed = {} /\ delivered = {}
      /\ req = [r \in Requests |-> Idle]
  BY DEF Init, MoneyInit
<1>2. \A r \in Requests : req[r].pc = "idle"
  BY <1>1 DEF Idle
<1>3. \A w \in Wallets : DOMAIN ledger[w] = {}
  <2>1. <<>> \in Seq(LedgerRows) /\ Len(<<>>) = 0
    OBVIOUS
  <2>2. DOMAIN <<>> = {}
    OBVIOUS
  <2>3. \A w \in Wallets : ledger[w] = <<>>
    BY <1>1
  <2>4. QED  BY <2>2, <2>3
<1>4. \A s \in Slots : Own(s, "debit") = {} /\ Own(s, "revert") = {}
  BY <1>3 DEF Own, Posted, RowsWithKey, Slots
<1>5. \A p \in Payments : Credit(p) = {} /\ RowsWithKey(Payee[p], <<"bonus", p>>) = {}
  BY <1>3, CashierAssumption DEF Credit, RowsWithKey
<1>6. TypeInv
  <2>1. [balance |-> 0, locked |-> 0, wager |-> WagerRequired] \in WalletRows
    BY Numbers, BigintAssumption DEF WalletRows
  <2>2. NoWithdrawal \in WithdrawalRows
    BY DEF NoWithdrawal, WithdrawalRows, WithdrawalStatuses
  <2>3. NoDeposit \in DepositRows
    BY DEF NoDeposit, DepositRows
  <2>4. ledger \in [Wallets -> Seq(LedgerRows)]
    BY <1>1
  <2>5. QED  BY <1>1, <2>1, <2>2, <2>3, <2>4 DEF TypeInv, Calls
<1>7. LedgerInv
  BY <1>3 DEF LedgerInv, KeysDistinct
<1>8. WithdrawInv
  <2>1. \A r \in Requests : ~Owns(r)
    BY <1>2 DEF Owns, Owned
  <2>2. \A s \in Slots : SlotInv(s)
    BY <1>1, <1>4 DEF SlotInv, NoWithdrawal
  <2>3. QED  BY <2>1, <2>2 DEF WithdrawInv
<1>9. DepositInv
  <2>1. \A p \in Payments : PaymentInv(p)
    BY <1>1, <1>5 DEF PaymentInv, NoDeposit
  <2>2. QED  BY <1>2, <2>1 DEF DepositInv
<1>10. QED  BY <1>6, <1>7, <1>8, <1>9 DEF IInv

\* Every step keeps the invariant.
LEMMA IStep == IInv /\ [Next]_vars => IInv'
<1> SUFFICES ASSUME IInv, [Next]_vars PROVE IInv'
  OBVIOUS
<1>0. TypeInv /\ LedgerInv /\ WithdrawInv /\ DepositInv
  BY DEF IInv
<1>1. ASSUME OutDone PROVE IInv'
  BY <1>0, <1>1, DepositStays DEF OutDone, IInv
<1>2. ASSUME InDone PROVE IInv'
  BY <1>0, <1>2, WithdrawStays DEF InDone, IInv
<1>3. ASSUME TypeInv', LedgerInv', OutKept, PaymentsKept, WebhooksKept PROVE IInv'
  BY <1>0, <1>3, WithdrawStays, DepositStays DEF IInv
<1>4. CASE \E r \in Requests : (Submit(r) \/ Withdraw(r)) /\ UNCHANGED <<promoVars, inVars, failures>>
  <2>1. PICK r \in Requests : (Submit(r) \/ Withdraw(r)) /\ UNCHANGED <<promoVars, inVars, failures>>
    BY <1>4
  <2>2. UNCHANGED inVars
    BY <2>1
  <2>3. QED  BY <1>0, <1>1, <2>1, <2>2, OutStep
<1>5. CASE \E s \in Slots : PayoutWebhook(s) /\ UNCHANGED <<promoVars, inVars, failures>>
  <2>1. PICK s \in Slots : PayoutWebhook(s) /\ UNCHANGED inVars
    BY <1>5
  <2>2. QED  BY <1>0, <1>1, <2>1, OutWebhook
<1>6. CASE \E p \in Payments : Confirm(p) /\ UNCHANGED <<promoVars, outVars, failures>>
  <2>1. PICK p \in Payments : Confirm(p) /\ UNCHANGED outVars
    BY <1>6
  <2>2. QED  BY <1>0, <1>2, <2>1, InConfirm
<1>7. CASE \E r \in Requests, p \in Payments, token \in {"paid", "progress", "other"} :
             Deliver(r, p, token) /\ UNCHANGED <<promoVars, outVars, failures>>
  <2>1. PICK r \in Requests, p \in Payments, token \in Tokens :
          Deliver(r, p, token) /\ UNCHANGED outVars
    BY <1>7 DEF Tokens
  <2>2. QED  BY <1>0, <1>2, <2>1, InDeliver
<1>8. CASE \E r \in Requests : Handle(r) /\ UNCHANGED <<promoVars, outVars, failures>>
  <2>1. PICK r \in Requests : Handle(r) /\ UNCHANGED outVars
    BY <1>8
  <2>2. QED  BY <1>0, <1>2, <2>1, InStep
<1>9. CASE PromoNext /\ UNCHANGED <<outVars, inVars, req, failures>>
  <2>1. PromoNext /\ UNCHANGED <<outVars, inVars, req>>
    BY <1>9
  <2>2. QED  BY <1>0, <1>3, <2>1, PromoStep
<1>10. CASE Fail
  BY <1>0, <1>3, <1>10, FailStep
<1>11. CASE \E w \in Wallets, key \in OtherKeys, stake \in Stakes :
              /\ PlaceStake(w, key, stake)
              /\ UNCHANGED <<promoVars, outVars, inVars, req, failures>>
  <2>1. PICK w \in Wallets, key \in OtherKeys, stake \in Stakes :
          PlaceStake(w, key, stake) /\ UNCHANGED <<outVars, inVars, req>>
    BY <1>11
  <2>2. QED  BY <1>0, <1>3, <2>1, StakeStep
<1>12. CASE UNCHANGED vars
  <2>1. UNCHANGED <<outVars, inVars, req, wallet, ledger>>
    BY <1>12 DEF vars, moneyVars
  <2>2. wallet' \in [Wallets -> WalletRows]
    BY <1>0, <2>1 DEF TypeInv
  <2>3. QED  BY <1>0, <1>3, <2>1, <2>2, PromoQuiet
<1>13. QED  BY <1>4, <1>5, <1>6, <1>7, <1>8, <1>9, <1>10, <1>11, <1>12 DEF Next

\* In every behaviour the withdrawals, payments and webhooks are where the
\* statements of their handlers left them, and a ledger has one row per key.
THEOREM Invariance == Spec => []IInv
<1>1. Init => IInv
  BY IInit
<1>2. IInv /\ [Next]_vars => IInv'
  BY IStep
<1>3. QED  BY <1>1, <1>2, PTL DEF Spec

-----------------------------------------------------------------------------
(***************************************************************************)
(* The properties.                                                         *)
(***************************************************************************)

\* No retry, race or crash of createCashierWithdrawal pays a withdrawal twice,
\* or one whose amount was not taken from the wallet, unless another service's
\* posting has the key of the debit.
THEOREM OnePayoutHolds == Spec => []OnePayout
<1>1. IInv => OnePayout
  BY DEF IInv, WithdrawInv, SlotInv, Taken, OnePayout
<1>2. QED  BY <1>1, Invariance, PTL

\* The debit, the refund and the track id of a withdrawal agree with its row,
\* where the keys of the debit and the refund are not other services'.
THEOREM WithdrawalAccountedHolds == Spec => []WithdrawalAccounted
<1>1. ASSUME IInv PROVE WithdrawalAccounted
  <2>1. \A s \in Slots : SlotInv(s)
    BY <1>1 DEF IInv, WithdrawInv
  <2>2. \A s \in Slots : Taken(s) => Own(s, "debit") # {} \/ Others(s, "debit") # {}
    BY DEF Taken
  <2>3. QED  BY <2>1, <2>2, OwnOrOther DEF SlotInv, WithdrawalAccounted
<1>2. QED  BY <1>1, Invariance, PTL

\* The rows that credit a payment are those under its key.
LEMMA CreditRowsByKey == TypeInv => \A p \in Payments : CreditRows(p) = Credit(p)
<1> SUFFICES ASSUME TypeInv, NEW p \in Payments PROVE CreditRows(p) = Credit(p)
  OBVIOUS
<1>1. PICK w \in Wallets : w = Payee[p]
  BY CashierAssumption
<1>2. \A i \in DOMAIN ledger[w] : ledger[w][i] \in LedgerRows
  BY DEF TypeInv
<1>3. ASSUME NEW row \in LedgerRows
      PROVE  /\ row.ref = NoRef /\ row.key[1] = "credit" /\ row.key[2] = p
                  => row.key = <<"credit", p>>
             /\ row.key = <<"credit", p>>
                  => row.ref = NoRef /\ row.key[1] = "credit" /\ row.key[2] = p
  <2>1. CASE row \in AdjustRows
    <3>1. row.key \in MovementKeys /\ row.ref = NoRef
      BY <2>1 DEF AdjustRows
    <3>2. QED  BY <3>1 DEF MovementKeys
  <2>2. CASE row \in BonusRows
    <3>1. row.key \in BonusKeys /\ row.ref # NoRef
      BY <2>2, CashierAssumption DEF BonusRows
    <3>2. row.key # <<"credit", p>>
      BY <3>1 DEF BonusKeys
    <3>3. QED  BY <3>1, <3>2
  <2>3. CASE row \in HoldRows
    <3>1. row.key \in {"debit", "revert"} \X Keys
      BY <2>3, CashierAssumption DEF HoldRows
    <3>2. QED  BY <3>1
  <2>4. QED  BY <2>1, <2>2, <2>3 DEF LedgerRows
<1>4. QED  BY <1>1, <1>2, <1>3 DEF CreditRows, Credit, RowsWithKey

\* A set whose members are all the same has at most one.
LEMMA AtMostOne ==
  ASSUME NEW S, \A i, j \in S : i = j
  PROVE  Cardinality(S) <= 1
<1>1. CASE S = {}
  BY <1>1, FS_EmptySet
<1>2. CASE S # {}
  <2>1. PICK i \in S : TRUE
    BY <1>2
  <2>2. S = {i}
    BY <2>1
  <2>3. Cardinality({i}) = 1
    BY FS_Singleton, Zenon
  <2>4. QED  BY <2>2, <2>3
<1>3. QED  BY <1>1, <1>2

\* One row under a key, as a count.
LEMMA OneRow ==
  ASSUME LedgerInv, NEW w \in Wallets, NEW key,
         NEW S \in SUBSET RowsWithKey(w, key)
  PROVE  Cardinality(S) <= 1
<1>1. \A i, j \in S : i = j
  BY DEF LedgerInv, KeysDistinct, RowsWithKey
<1>2. QED  BY <1>1, AtMostOne

\* However often, late or out of order its webhooks come, a payment is credited
\* once with the amount of its row, after it was confirmed, and its bonus is
\* paid once, after the credit.
THEOREM DepositsAddUpHolds == Spec => []DepositsAddUp
<1>1. ASSUME IInv PROVE DepositsAddUp
  <2>1. TypeInv /\ LedgerInv /\ \A p \in Payments : PaymentInv(p)
    BY <1>1 DEF IInv, DepositInv
  <2>2. TypeOK
    BY <2>1 DEF TypeInv, TypeOK, WithdrawalRows, WithdrawalStatuses, DepositRows
  <2>3. ASSUME NEW p \in Payments
        PROVE  /\ Payee[p] \in Wallets /\ CreditRows(p) = Credit(p) /\ PaymentInv(p)
               /\ Cardinality(Credit(p)) <= 1
    <3>1. Payee[p] \in Wallets /\ CreditRows(p) = Credit(p) /\ PaymentInv(p)
      BY <2>1, CashierAssumption, CreditRowsByKey
    <3>2. Cardinality(Credit(p)) <= 1
      BY <2>1, <3>1, OneRow DEF Credit
    <3>3. QED  BY <3>1, <3>2
  <2>4. CreditedOnce
    BY <2>3 DEF CreditedOnce, PaymentInv
  <2>5. ASSUME NEW p \in Payments,
               NEW bonuses \in SUBSET DOMAIN ledger[Payee[p]],
               \A i \in bonuses : /\ ledger[Payee[p]][i].reason = "BONUS"
                                  /\ ledger[Payee[p]][i].ref = p
        PROVE  /\ Cardinality(bonuses) <= 1
               /\ \A i \in bonuses : \E j \in CreditRows(p) : j < i
    <3>1. bonuses \subseteq RowsWithKey(Payee[p], <<"bonus", p>>)
      BY <2>1, <2>3, <2>5 DEF LedgerInv, RowsWithKey
    <3>2. Cardinality(bonuses) <= 1
      BY <2>1, <2>3, <3>1, OneRow
    <3>3. \A i \in bonuses : \E j \in CreditRows(p) : j < i
      BY <2>3, <3>1 DEF PaymentInv
    <3>4. QED  BY <3>2, <3>3
  <2>6. BonusOnce
    <3> SUFFICES ASSUME NEW p \in Payments
                 PROVE  LET bonuses == {i \in DOMAIN ledger[Payee[p]] :
                                          /\ ledger[Payee[p]][i].reason = "BONUS"
                                          /\ ledger[Payee[p]][i].ref = p}
                        IN /\ Cardinality(bonuses) <= 1
                           /\ \A i \in bonuses : \E j \in CreditRows(p) : j < i
      BY DEF BonusOnce
    <3> DEFINE bonuses == {i \in DOMAIN ledger[Payee[p]] :
                             /\ ledger[Payee[p]][i].reason = "BONUS"
                             /\ ledger[Payee[p]][i].ref = p}
    <3>1. /\ bonuses \in SUBSET DOMAIN ledger[Payee[p]]
          /\ \A i \in bonuses : /\ ledger[Payee[p]][i].reason = "BONUS"
                                /\ ledger[Payee[p]][i].ref = p
      OBVIOUS
    <3> HIDE DEF bonuses
    <3>2. /\ Cardinality(bonuses) <= 1
          /\ \A i \in bonuses : \E j \in CreditRows(p) : j < i
      BY <2>5, <3>1
    <3>3. QED  BY <3>2 DEF bonuses
  <2>7. QED  BY <2>2, <2>4, <2>6 DEF DepositsAddUp
<1>2. QED  BY <1>1, Invariance, PTL

\* A step of a webhook keeps a credited row credited, with its amount.
LEMMA RowStays ==
  ASSUME TypeInv, DepositInv, NEW r \in Requests, Handle(r), NEW p \in Payments,
         deposit[p].credited
  PROVE  deposit'[p].credited /\ deposit'[p].amount = deposit[p].amount
<1>1. CASE WriteDeposit(r)
  <2>1. PICK q \in Payments : q = req[r].payment
    BY <1>1, CallTypes DEF WriteDeposit, WriteCalls
  <2>2. req[r].pc = "write" /\ (req[r].seen = NoDeposit => deposit[q] = NoDeposit)
    BY <1>1, <2>1 DEF WriteDeposit
  <2>3. PICK amount \in Amounts : deposit' = [deposit EXCEPT ![q] = Written(r, amount)]
    BY <1>1, <2>1 DEF WriteDeposit
  <2>4. /\ deposit[q] # NoDeposit => Written(r, amount).amount = deposit[q].amount
        /\ Written(r, amount).credited = deposit[q].credited
    BY <2>1, <2>2, WrittenFacts
  <2>5. deposit'[q] = Written(r, amount) /\ \A o \in Payments \ {q} : deposit'[o] = deposit[o]
    BY <2>3 DEF TypeInv
  <2>6. deposit[p] # NoDeposit
    BY DEF NoDeposit
  <2>7. QED  BY <2>4, <2>5, <2>6
<1>2. CASE CompleteDeposit(r)
  <2>1. PICK q \in Payments : q = req[r].payment
    BY <1>2, CallTypes DEF CompleteDeposit, WriteCalls
  <2> DEFINE row == [deposit[q] EXCEPT !.status = "COMPLETED", !.credited = TRUE]
  <2>2. deposit' = [deposit EXCEPT ![q] = row]
    BY <1>2, <2>1 DEF CompleteDeposit, TypeInv
  <2>3. row.credited /\ row.amount = deposit[q].amount
    BY DEF TypeInv, DepositRows
  <2> HIDE DEF row
  <2>4. deposit'[q] = row /\ \A o \in Payments \ {q} : deposit'[o] = deposit[o]
    BY <2>2 DEF TypeInv
  <2>5. QED  BY <2>3, <2>4
<1>3. CASE FindDeposit(r) \/ WriteConflict(r) \/ CreditDeposit(r) \/ Extra(r)
  BY <1>3 DEF FindDeposit, WriteConflict, CreditDeposit, Extra
<1>4. QED  BY <1>1, <1>2, <1>3 DEF Handle

\* No late, repeated or concurrent webhook reopens a credited deposit or
\* changes its amount.
THEOREM CreditedStaysHolds == Spec => CreditedStays
<1> DEFINE Stays ==
      \A p \in Payments :
        deposit[p].credited => deposit'[p].credited /\ deposit'[p].amount = deposit[p].amount
<1>1. ASSUME IInv, [Next]_vars PROVE Stays
  <2>1. CASE UNCHANGED deposit
    BY <2>1
  <2>2. CASE \E r \in Requests : Handle(r)
    BY <1>1, <2>2, RowStays DEF IInv
  <2>3. CASE Next
    BY <2>1, <2>2, <2>3 DEF Next, PayoutWebhook, Confirm, Deliver, Fail, inVars
  <2>4. QED  BY <1>1, <2>1, <2>3 DEF vars, inVars
<1>2. IInv /\ [Next]_vars => [Stays]_vars
  BY <1>1
<1>3. QED  BY <1>2, Invariance, PTL DEF Spec, CreditedStays
=============================================================================
