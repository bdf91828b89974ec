-------------------------- MODULE Transfers_proofs --------------------------
(***************************************************************************)
(* Whatever tips, rains, vault movements, affiliate claims and promo codes *)
(* overlap, every ledger stays one chain of balances, every tip arrives,   *)
(* and every reward is paid once, for any number of wallets, calls, codes  *)
(* and referrals.                                                          *)
(*                                                                         *)
(* The argument is the lock discipline: a balance a transaction read under *)
(* the row's lock is the balance of the wallet until the transaction ends, *)
(* a transaction writes the wallets it has locked and no others, and the   *)
(* adjustments that lock, write and commit in one step meet no open        *)
(* transaction.                                                            *)
(***************************************************************************)
EXTENDS Transfers, Ledgers_proofs, WellFoundedInduction

RainOps == {"LOOK", "JOIN", "RAINTIP"}

\* The calls that keep row locks from one step to the next.
LockOps == {"TIP", "CLAIM"} \cup RainOps

Reads == UNION {[D -> 0..BigintMax] : D \in SUBSET Wallets}

Times == 0..MaxClock

TipCalls ==
  {call \in [op : {"TIP"}, pc : {"lock"}, from : Wallets, to : Wallets, amount : Amounts,
             order : Seq(Wallets), read : Reads, now : Times] : call.from # call.to}

RainCalls ==
  [op : RainOps, pc : {"previous", "lock"}, from : Wallets, amount : Amounts,
   order : Seq(Wallets), read : Reads, settles : SUBSET Rounds, joined : Seq(Wallets),
   pot : Nat, now : Times]

ClaimCalls ==
  [op : {"CLAIM"}, pc : {"lock", "pay"}, from : Wallets, key : Keys,
   order : Seq(Wallets), read : Reads, sum : Nat, now : Times]

DepositCalls ==
  [op : {"DEPOSIT"}, pc : {"settle", "debit", "credit"}, from : Wallets,
   amount : Amounts, key : Keys, hours : Durations, now : Times]

\* The vault's balance may be anything.
WithdrawCalls(seen) ==
  [op : {"WITHDRAW"}, pc : {"settle", "balance", "locks", "take", "pay"},
   from : Wallets, amount : Amounts, key : Keys, seen : {seen}, now : Times]

IsCall(call) ==
  \/ call \in TipCalls \cup RainCalls \cup ClaimCalls \cup DepositCalls
  \/ call.op = "WITHDRAW" /\ call \in WithdrawCalls(call.seen)

ReferralRows == [claimable : Nat, claimed : Nat, total : Nat]

RainRows ==
  [exists : BOOLEAN, tipped : Nat, settled : BOOLEAN, joins : SUBSET Wallets]

Elements(s) == {s[i] : i \in DOMAIN s}

TypeOK ==
  /\ wallet \in [Wallets -> WalletRows]
  /\ DOMAIN ledger = Wallets
  /\ \A w \in Wallets : ledger[w] \in Seq(Elements(ledger[w]))
  /\ walletLock \in [Wallets -> Requests \cup {NoRequest}]
  /\ DOMAIN req = Requests /\ \A r \in Requests : req[r] = Idle \/ IsCall(req[r])
  /\ clock \in Times
  /\ rain \in [Rounds -> RainRows]
  /\ referral \in [Referrals -> ReferralRows]
  /\ rowsLocked \in [Requests -> SUBSET Referrals]

\* The wallets a transaction locks before it commits.
Wants(call) ==
  CASE call.op = "TIP" -> {call.from, call.to}
    [] call.op \in {"LOOK", "JOIN"} -> Elements(call.joined)
    [] call.op = "RAINTIP" -> Elements(call.joined) \cup {call.from}
    [] call.op = "CLAIM" -> {call.from}

Open(call) == call # Idle /\ call.op \in LockOps /\ call.pc \in {"lock", "pay"}

\* A locked wallet has the balance its holder read, and an open transaction has
\* locked what it wants but for what it still has to lock.
LocksHold ==
  /\ \A w \in Wallets : walletLock[w] # NoRequest =>
       LET call == req[walletLock[w]]
       IN /\ Open(call)
          /\ w \in DOMAIN call.read /\ call.read[w] = wallet[w].balance
  /\ \A r \in Requests : Open(req[r]) =>
       \A w \in Wants(req[r]) : walletLock[w] = r \/ w \in Elements(req[r].order)

\* A claim that has locked its referrals found its key unused.
ClaimsFresh ==
  \A r \in Requests : req[r] # Idle /\ req[r].op = "CLAIM" /\ req[r].pc = "pay" =>
    req[r].order = <<>> /\ ~KeyUsed(req[r].from, req[r].key)

MoneyInv == TypeOK /\ LocksHold /\ ClaimsFresh /\ LedgerContinuity

-----------------------------------------------------------------------------
(***************************************************************************)
(* Sequences of any elements.                                              *)
(***************************************************************************)

LEMMA ElementsOfSeq ==
  ASSUME NEW S, NEW s \in Seq(S)
  PROVE  s \in Seq(Elements(s)) /\ Elements(s) \subseteq S
<1>1. /\ Len(s) \in Nat /\ DOMAIN s = 1..Len(s) /\ s = [i \in 1..Len(s) |-> s[i]]
      /\ \A i \in 1..Len(s) : s[i] \in S
  OBVIOUS
<1>2. s \in [1..Len(s) -> Elements(s)]
  <2>1. \A i \in 1..Len(s) : s[i] \in Elements(s)
    BY <1>1 DEF Elements
  <2>2. QED  BY <1>1, <2>1
<1>3. s \in Seq(Elements(s))
  BY <1>1, <1>2
<1>4. QED  BY <1>1, <1>3 DEF Elements

\* A row under an unused key that starts from the last balance continues the
\* ledger.
LEMMA LedgerGrows ==
  ASSUME NEW rows, rows \in Seq(Elements(rows)), NEW entry, NEW balance
  PROVE  /\ Append(rows, entry) \in Seq(Elements(Append(rows, entry)))
         /\ Len(rows) \in Nat /\ DOMAIN rows = 1..Len(rows)
         /\ DOMAIN Append(rows, entry) = 1..(Len(rows) + 1)
         /\ \A i \in 1..Len(rows) : Append(rows, entry)[i] = rows[i]
         /\ Append(rows, entry)[Len(rows) + 1] = entry
         /\ (/\ ChainFrom(rows, balance) /\ KeysDistinct(rows) /\ entry.before = balance
             /\ \A i \in DOMAIN rows : rows[i].key # entry.key) =>
               /\ ChainFrom(Append(rows, entry), entry.after)
               /\ KeysDistinct(Append(rows, entry))
<1> DEFINE S == Elements(rows) \cup {entry}
           new == Append(rows, entry)
<1>1. rows \in Seq(S) /\ entry \in S
  <2>1. /\ Len(rows) \in Nat /\ rows \in [1..Len(rows) -> Elements(rows)]
    OBVIOUS
  <2>2. rows \in [1..Len(rows) -> S]
    BY <2>1
  <2>3. QED  BY <2>1, <2>2
<1> HIDE DEF S
<1>2. new \in Seq(S)
  BY <1>1
<1>3. new \in Seq(Elements(new))
  BY <1>2, ElementsOfSeq
<1>4. /\ Len(rows) \in Nat /\ DOMAIN rows = 1..Len(rows)
      /\ DOMAIN new = 1..(Len(rows) + 1)
      /\ \A i \in 1..Len(rows) : new[i] = rows[i]
      /\ new[Len(rows) + 1] = entry
  BY <1>1
<1>5. ASSUME ChainFrom(rows, balance), KeysDistinct(rows), entry.before = balance,
             \A i \in DOMAIN rows : rows[i].key # entry.key
      PROVE  ChainFrom(new, entry.after) /\ KeysDistinct(new)
  BY <1>1, <1>5, ChainAppend, Zenon
<1>6. QED  BY <1>3, <1>4, <1>5

-----------------------------------------------------------------------------
(***************************************************************************)
(* Calls.                                                                  *)
(***************************************************************************)

LEMMA Shapes ==
  ASSUME TypeOK, NEW r \in Requests, req[r] # Idle
  PROVE  /\ req[r].pc # "idle"
         /\ req[r].op = "TIP" => req[r] \in TipCalls
         /\ req[r].op \in RainOps => req[r] \in RainCalls
         /\ req[r].op = "CLAIM" => req[r] \in ClaimCalls
         /\ req[r].op = "DEPOSIT" => req[r] \in DepositCalls
         /\ req[r].op = "WITHDRAW" => req[r] \in WithdrawCalls(req[r].seen)
<1> DEFINE call == req[r]
<1>1. IsCall(call)
  BY DEF TypeOK
<1> HIDE DEF call
<1>2. CASE call \in TipCalls
  BY <1>2 DEF TipCalls, RainOps, call
<1>3. CASE call \in RainCalls
  BY <1>3 DEF RainCalls, RainOps, call
<1>4. CASE call \in ClaimCalls
  BY <1>4 DEF ClaimCalls, RainOps, call
<1>5. CASE call \in DepositCalls
  BY <1>5 DEF DepositCalls, RainOps, call
<1>6. CASE call.op = "WITHDRAW" /\ call \in WithdrawCalls(call.seen)
  BY <1>6 DEF WithdrawCalls, RainOps, call
<1>7. QED  BY <1>1, <1>2, <1>3, <1>4, <1>5, <1>6 DEF IsCall

\* The fields every open call has.
LEMMA OpenFields ==
  ASSUME TypeOK, NEW r \in Requests, Open(req[r])
  PROVE  /\ req[r].order \in Seq(Wallets) /\ req[r].read \in Reads
         /\ req[r].from \in Wallets /\ Wants(req[r]) \subseteq Wallets
         /\ req[r] \in TipCalls \cup RainCalls \cup ClaimCalls
<1>1. CASE req[r].op = "TIP"
  <2>1. req[r] \in TipCalls
    BY <1>1, Shapes DEF Open
  <2>2. QED  BY <1>1, <2>1 DEF TipCalls, Wants
<1>2. CASE req[r].op = "CLAIM"
  <2>1. req[r] \in ClaimCalls
    BY <1>2, Shapes DEF Open
  <2>2. QED  BY <1>2, <2>1 DEF ClaimCalls, Wants
<1>3. CASE req[r].op \in RainOps
  <2>1. req[r] \in RainCalls
    BY <1>3, Shapes DEF Open
  <2>2. Elements(req[r].joined) \subseteq Wallets
    <3>1. req[r].joined \in Seq(Wallets)
      BY <2>1 DEF RainCalls
    <3>2. QED  BY <3>1, ElementsOfSeq
  <2>3. Wants(req[r]) \subseteq Elements(req[r].joined) \cup {req[r].from}
    BY <1>3 DEF Wants, RainOps
  <2>4. QED  BY <2>1, <2>2, <2>3 DEF RainCalls
<1>4. QED  BY <1>1, <1>2, <1>3 DEF Open, LockOps

LEMMA CallSet ==
  ASSUME TypeOK, NEW r \in Requests, NEW call, req' = [req EXCEPT ![r] = call]
  PROVE  /\ DOMAIN req' = Requests /\ req'[r] = call
         /\ \A q \in Requests \ {r} : req'[q] = req[q]
BY DEF TypeOK

LEMMA AnswerEffect ==
  ASSUME TypeOK, NEW r \in Requests, Answer(r)
  PROVE  /\ walletLock' \in [Wallets -> Requests \cup {NoRequest}]
         /\ \A w \in Wallets : walletLock'[w] = IF walletLock[w] = r THEN NoRequest
                                                ELSE walletLock[w]
         /\ DOMAIN req' = Requests /\ req'[r] = Idle
         /\ \A q \in Requests \ {r} : req'[q] = req[q]
<1>1. /\ req' = [req EXCEPT ![r] = Idle] /\ walletLock' = Unlocked(r)
  BY DEF Answer
<1>2. /\ DOMAIN req' = Requests /\ req'[r] = Idle
      /\ \A q \in Requests \ {r} : req'[q] = req[q]
  BY <1>1, CallSet
<1>3. walletLock \in [Wallets -> Requests \cup {NoRequest}]
  BY DEF TypeOK
<1>4. QED  BY <1>1, <1>2, <1>3 DEF Unlocked

-----------------------------------------------------------------------------
(***************************************************************************)
(* What a step does to a wallet, and to the locks.                         *)
(***************************************************************************)

Kept(w) == wallet'[w] = wallet[w] /\ ledger'[w] = ledger[w]

\* A row may follow these, from this balance.
NextRow(rows, balance, entry) ==
  entry.before = balance /\ \A i \in DOMAIN rows : rows[i].key # entry.key

PostsOne(w, entry) ==
  /\ NextRow(ledger[w], wallet[w].balance, entry)
  /\ ledger'[w] = Append(ledger[w], entry)
  /\ wallet'[w].balance = entry.after

PostsTwo(w, first, second) ==
  /\ NextRow(ledger[w], wallet[w].balance, first)
  /\ NextRow(Append(ledger[w], first), first.after, second)
  /\ ledger'[w] = Append(Append(ledger[w], first), second)
  /\ wallet'[w].balance = second.after

Continues(w) ==
  \/ Kept(w)
  \/ \E entry : PostsOne(w, entry)
  \/ \E first, second : PostsTwo(w, first, second)

\* Rows of adjustments and rains, and a ledger that only gets such rows.
Plain(entry) == entry.reason \in {"ADJUST", "RAIN_PAYOUT", "RAIN_TIP"}

PlainGrowth(w) ==
  \/ ledger'[w] = ledger[w]
  \/ \E entry : Plain(entry) /\ ledger'[w] = Append(ledger[w], entry)
  \/ \E first, second : /\ Plain(first) /\ Plain(second)
                        /\ ledger'[w] = Append(Append(ledger[w], first), second)

MoneyTyped == wallet' \in [Wallets -> WalletRows] /\ DOMAIN ledger' = Wallets

\* Wallets that are locked do not change.
OnlyFree == \A w \in Wallets : ~Free(w) => Kept(w)

\* A call without locks goes on: to a call that has all its locks to come, or to
\* its end.
Moved(r, call) ==
  /\ req' = [req EXCEPT ![r] = call] /\ UNCHANGED walletLock
  /\ ~Open(req[r])
  /\ \/ call = Idle
     \/ /\ IsCall(call)
        /\ Open(call) => call.pc = "lock" /\ Wants(call) \subseteq Elements(call.order)
  /\ OnlyFree

\* A transaction ends: only what it had locked has changed.
Ended(r) == Answer(r) /\ \A w \in Wallets : walletLock[w] # r => Kept(w)

Untouched == UNCHANGED <<req, walletLock>> /\ OnlyFree

\* The kinds of steps.
Kind ==
  /\ MoneyTyped /\ \A w \in Wallets : Continues(w)
  /\ \/ Untouched
     \/ \E r \in Requests : \/ \E call : Moved(r, call)
                            \/ LockWallet(r) \/ Ended(r)
                            \/ ClaimSum(r) /\ ~Answer(r)

LEMMA KeptMoney ==
  ASSUME TypeOK, UNCHANGED moneyVars
  PROVE  /\ MoneyTyped /\ OnlyFree
         /\ \A w \in Wallets : Kept(w) /\ Continues(w) /\ PlainGrowth(w)
BY DEF TypeOK, moneyVars, MoneyTyped, OnlyFree, Kept, Continues, PlainGrowth

LEMMA BalanceType ==
  ASSUME TypeOK, NEW w \in Wallets
  PROVE  /\ wallet[w] \in WalletRows /\ wallet[w].balance \in 0..BigintMax
         /\ BigintMax \in Nat
BY BigintAssumption DEF TypeOK, WalletRows

LEMMA OnePosting ==
  ASSUME TypeOK, NEW w \in Wallets, NEW row \in WalletRows, NEW entry,
         wallet' = [wallet EXCEPT ![w] = row], Post(w, entry),
         NextRow(ledger[w], wallet[w].balance, entry), row.balance = entry.after
  PROVE  /\ MoneyTyped /\ PostsOne(w, entry)
         /\ \A x \in Wallets \ {w} : Kept(x)
         /\ \A x \in Wallets : Continues(x)
<1>1. wallet \in [Wallets -> WalletRows] /\ DOMAIN ledger = Wallets
  BY DEF TypeOK
<1>2. /\ wallet'[w] = row /\ ledger'[w] = Append(ledger[w], entry)
      /\ \A x \in Wallets \ {w} : wallet'[x] = wallet[x] /\ ledger'[x] = ledger[x]
      /\ wallet' \in [Wallets -> WalletRows] /\ DOMAIN ledger' = Wallets
  BY <1>1 DEF Post
<1>3. PostsOne(w, entry)
  BY <1>2 DEF PostsOne
<1>4. \A x \in Wallets \ {w} : Kept(x)
  BY <1>2 DEF Kept
<1>5. QED  BY <1>2, <1>3, <1>4 DEF MoneyTyped, Continues

LEMMA BalanceSet ==
  ASSUME TypeOK, NEW w \in Wallets, NEW after \in 0..BigintMax
  PROVE  /\ [wallet EXCEPT ![w].balance = after]
              = [wallet EXCEPT ![w] = [wallet[w] EXCEPT !.balance = after]]
         /\ [wallet[w] EXCEPT !.balance = after] \in WalletRows
         /\ [wallet[w] EXCEPT !.balance = after].balance = after
BY DEF TypeOK, WalletRows

LEMMA EntryFields ==
  ASSUME NEW reason, NEW direction, NEW amount, NEW before, NEW after, NEW key, NEW ref
  PROVE  LET e == Entry(reason, direction, amount, before, after, key, ref)
         IN /\ e.reason = reason /\ e.direction = direction /\ e.amount = amount
            /\ e.before = before /\ e.after = after /\ e.key = key /\ e.ref = ref
BY DEF Entry

LEMMA AdjustEffect ==
  ASSUME TypeOK, NEW w \in Wallets, NEW delta, NEW key, Adjusted(w, delta, key)
  PROVE  /\ MoneyTyped /\ OnlyFree
         /\ \A x \in Wallets : Continues(x) /\ PlainGrowth(x)
<1>1. Free(w)
  BY DEF Adjusted
<1>2. CASE UNCHANGED moneyVars
  BY <1>2, KeptMoney
<1>3. CASE AdjustWalletBalance(w, delta, key)
  <2>1. PICK before, after, direction, amount :
          /\ before = wallet[w].balance /\ after = before + delta /\ Fits(after)
          /\ direction = IF delta > 0 THEN "CREDIT" ELSE "DEBIT"
          /\ amount = IF delta > 0 THEN delta ELSE -delta
    BY <1>3 DEF AdjustWalletBalance
  <2>2. PICK entry : entry = Entry("ADJUST", direction, amount, before, after, key, NoRef)
    OBVIOUS
  <2>3. /\ ~KeyUsed(w, key) /\ wallet' = [wallet EXCEPT ![w].balance = after]
        /\ Post(w, entry)
    BY <1>3, <2>1, <2>2 DEF AdjustWalletBalance
  <2>4. /\ entry.before = before /\ entry.after = after /\ entry.key = key
        /\ Plain(entry)
    BY <2>2, EntryFields DEF Plain
  <2>5. NextRow(ledger[w], wallet[w].balance, entry)
    BY <2>1, <2>3, <2>4 DEF NextRow, KeyUsed
  <2>6. PICK row \in WalletRows :
          wallet' = [wallet EXCEPT ![w] = row] /\ row.balance = entry.after
    BY <2>1, <2>3, <2>4, BalanceSet DEF Fits
  <2>7. /\ MoneyTyped /\ PostsOne(w, entry) /\ \A x \in Wallets \ {w} : Kept(x)
        /\ \A x \in Wallets : Continues(x)
    BY <2>3, <2>5, <2>6, OnePosting
  <2>8. \A x \in Wallets : PlainGrowth(x)
    BY <2>4, <2>7 DEF PlainGrowth, PostsOne, Kept
  <2>9. QED  BY <1>1, <2>7, <2>8 DEF OnlyFree
<1>4. QED  BY <1>2, <1>3 DEF Adjusted

\* A promo code pays: the bonus is one row, under the code's key.
LEMMA BonusEffect ==
  ASSUME TypeOK, NEW w \in Wallets, NEW amount \in Nat, NEW key, NEW ref,
         CreditBonus(w, amount, key, ref)
  PROVE  /\ MoneyTyped
         /\ \E entry : /\ PostsOne(w, entry)
                       /\ entry.reason = "BONUS" /\ entry.key = key /\ entry.ref = ref
                       /\ entry.amount = amount
         /\ \A x \in Wallets \ {w} : Kept(x)
         /\ \A x \in Wallets : Continues(x)
<1>1. PICK before, after : before = wallet[w].balance /\ after = before + amount
  OBVIOUS
<1>2. PICK entry : entry = Entry("BONUS", "CREDIT", amount, before, after, key, ref)
  OBVIOUS
<1>3. /\ ~KeyUsed(w, key) /\ Fits(after) /\ wallet' = WithBonus(w, amount)
      /\ Post(w, entry)
  BY <1>1, <1>2 DEF CreditBonus
<1>4. /\ entry.before = before /\ entry.after = after /\ entry.key = key
      /\ entry.reason = "BONUS" /\ entry.ref = ref /\ entry.amount = amount
  BY <1>2, EntryFields
<1>5. NextRow(ledger[w], wallet[w].balance, entry)
  BY <1>1, <1>3, <1>4 DEF NextRow, KeyUsed
<1>6. PICK row \in WalletRows :
        wallet' = [wallet EXCEPT ![w] = row] /\ row.balance = entry.after
  <2>1. wallet \in [Wallets -> WalletRows] /\ wallet[w] \in WalletRows
    BY DEF TypeOK
  <2>2. wallet' = [wallet EXCEPT ![w] = [balance |-> after, locked |-> wallet[w].locked,
                                         wager |-> wallet[w].wager + amount]]
    <3>1. PICK b, l, g : wallet[w] = [balance |-> b, locked |-> l, wager |-> g]
      BY <2>1 DEF WalletRows
    <3>2. wallet' = [wallet EXCEPT ![w].balance = b + amount, ![w].wager = g + amount]
      BY <1>3, <2>1, <3>1 DEF WithBonus
    <3>3. wallet' = [wallet EXCEPT ![w] = [balance |-> b + amount, locked |-> l,
                                           wager |-> g + amount]]
      <4> DEFINE to == [balance |-> b + amount, locked |-> l, wager |-> g + amount]
                 half == [wallet EXCEPT ![w] = [wallet[w] EXCEPT !.balance = b + amount]]
      <4>1. wallet' = [half EXCEPT ![w] = [half[w] EXCEPT !.wager = g + amount]]
        BY <2>1, <3>1, <3>2
      <4>2. half[w] = [balance |-> b + amount, locked |-> l, wager |-> g]
        BY <2>1, <3>1
      <4>3. [half[w] EXCEPT !.wager = g + amount] = to
        BY <4>2
      <4>4. wallet' = [half EXCEPT ![w] = to]
        BY <4>1, <4>3
      <4> HIDE DEF to
      <4>5. [half EXCEPT ![w] = to] = [wallet EXCEPT ![w] = to]
        BY <2>1
      <4>6. QED  BY <4>4, <4>5 DEF to
    <3>4. after = b + amount /\ l = wallet[w].locked /\ g = wallet[w].wager
      BY <1>1, <3>1
    <3>5. QED  BY <3>3, <3>4
  <2>3. [balance |-> after, locked |-> wallet[w].locked,
         wager |-> wallet[w].wager + amount] \in WalletRows
    BY <1>3, <2>1 DEF WalletRows, Fits
  <2>4. QED  BY <1>4, <2>2, <2>3
<1>7. /\ MoneyTyped /\ PostsOne(w, entry) /\ \A x \in Wallets \ {w} : Kept(x)
      /\ \A x \in Wallets : Continues(x)
  BY <1>3, <1>5, <1>6, OnePosting
<1>8. QED  BY <1>4, <1>7

-----------------------------------------------------------------------------
(***************************************************************************)
(* The transactions that write what they have locked.                      *)
(***************************************************************************)

\* A transaction that has nothing left to lock has locked all it wants, and
\* knows the balances.
LEMMA AllLocked ==
  ASSUME TypeOK, LocksHold, NEW r \in Requests, Open(req[r]), req[r].order = <<>>
  PROVE  \A w \in Wants(req[r]) : /\ w \in Wallets /\ walletLock[w] = r
                                  /\ req[r].read[w] = wallet[w].balance
<1> SUFFICES ASSUME NEW w \in Wants(req[r])
             PROVE  w \in Wallets /\ walletLock[w] = r /\ req[r].read[w] = wallet[w].balance
  OBVIOUS
<1>1. w \in Wallets
  BY OpenFields
<1>2. Elements(req[r].order) = {}
  BY DEF Elements
<1>3. walletLock[w] = r
  BY <1>2 DEF LocksHold
<1>4. walletLock[w] # NoRequest
  BY <1>3, WalletLocksAssumption
<1>5. QED  BY <1>1, <1>3, <1>4 DEF LocksHold

BalancesSet(v, a, w, b) == wallet' = [wallet EXCEPT ![v].balance = a, ![w].balance = b]

LEMMA TwoBalances ==
  ASSUME TypeOK, NEW v \in Wallets, NEW w \in Wallets, v # w,
         NEW a \in 0..BigintMax, NEW b \in 0..BigintMax,
         BalancesSet(v, a, w, b)
  PROVE  /\ wallet' \in [Wallets -> WalletRows]
         /\ wallet'[v].balance = a /\ wallet'[w].balance = b
         /\ \A x \in Wallets \ {v, w} : wallet'[x] = wallet[x]
<1>1. PICK first : first = [wallet EXCEPT ![v] = [wallet[v] EXCEPT !.balance = a]]
  OBVIOUS
<1>2. /\ first \in [Wallets -> WalletRows] /\ first[v].balance = a
      /\ \A x \in Wallets \ {v} : first[x] = wallet[x]
  BY <1>1 DEF TypeOK, WalletRows
<1>3. wallet' = [first EXCEPT ![w] = [first[w] EXCEPT !.balance = b]]
  BY <1>1 DEF TypeOK, WalletRows, BalancesSet
<1>4. QED  BY <1>2, <1>3 DEF WalletRows

\* What a tip does: nothing, or one row in each of the two ledgers.
TipRow(entry, r, direction) ==
  /\ entry.reason = "USER_TIP" /\ entry.direction = direction
  /\ entry.key = TipKey(r) /\ entry.amount = req[r].amount
  /\ entry.ref = <<req[r].from, req[r].to>>

TipPosted(r) ==
  /\ req[r].from # req[r].to /\ req[r].from \in Wallets /\ req[r].to \in Wallets
  /\ \E entry : PostsOne(req[r].from, entry) /\ TipRow(entry, r, "DEBIT")
  /\ \E entry : PostsOne(req[r].to, entry) /\ TipRow(entry, r, "CREDIT")
  /\ \A w \in Wallets \ {req[r].from, req[r].to} : Kept(w)

LEMMA TipEffect ==
  ASSUME MoneyInv, NEW r \in Requests, TipCommit(r)
  PROVE  /\ MoneyTyped /\ Ended(r) /\ \A w \in Wallets : Continues(w)
         /\ UNCHANGED moneyVars \/ TipPosted(r)
<1> USE DEF MoneyInv
<1>1. /\ req[r].pc = "lock" /\ req[r].op = "TIP" /\ req[r].order = <<>> /\ Answer(r)
  BY DEF TipCommit, At
<1>2. Open(req[r])
  BY <1>1 DEF Open, Idle, LockOps
<1>3. req[r] \in TipCalls
  BY <1>1, <1>2, Shapes DEF Open
<1>4. PICK from \in Wallets, to \in Wallets, amount \in Amounts :
        from = req[r].from /\ to = req[r].to /\ amount = req[r].amount /\ from # to
  BY <1>3 DEF TipCalls
<1>5. from \in Wants(req[r]) /\ to \in Wants(req[r])
  BY <1>1, <1>4 DEF Wants
<1>6. /\ walletLock[from] = r /\ req[r].read[from] = wallet[from].balance
      /\ walletLock[to] = r /\ req[r].read[to] = wallet[to].balance
  BY <1>1, <1>2, <1>5, AllLocked
<1>7. CASE UNCHANGED moneyVars
  BY <1>1, <1>7, KeptMoney DEF Ended
<1>8. CASE ~UNCHANGED moneyVars
  <2>1. PICK paid \in 0..BigintMax, got \in 0..BigintMax :
          paid = wallet[from].balance /\ got = wallet[to].balance
    BY BalanceType
  <2>2. /\ paid >= amount /\ Fits(got + amount)
        /\ ~KeyUsed(from, TipKey(r)) /\ ~KeyUsed(to, TipKey(r))
        /\ wallet' = [wallet EXCEPT ![from].balance = paid - amount,
                                    ![to].balance = got + amount]
        /\ ledger' = [ledger EXCEPT
             ![from] = Append(@, TipEntry(r, "DEBIT", paid, paid - amount)),
             ![to] = Append(@, TipEntry(r, "CREDIT", got, got + amount))]
    BY <1>4, <1>6, <1>8, <2>1 DEF TipCommit, TipAllowed
  <2>3. PICK debit, credit :
          /\ debit = TipEntry(r, "DEBIT", paid, paid - amount)
          /\ credit = TipEntry(r, "CREDIT", got, got + amount)
    OBVIOUS
  <2>4. /\ TipRow(debit, r, "DEBIT") /\ debit.before = paid /\ debit.after = paid - amount
        /\ TipRow(credit, r, "CREDIT") /\ credit.before = got /\ credit.after = got + amount
    BY <2>3 DEF TipEntry, TipRow, Entry
  <2>5. paid - amount \in 0..BigintMax /\ got + amount \in 0..BigintMax
    BY <2>2, WalletLocksAssumption, BigintAssumption DEF Fits
  <2>6. /\ wallet' \in [Wallets -> WalletRows]
        /\ wallet'[from].balance = paid - amount /\ wallet'[to].balance = got + amount
        /\ \A x \in Wallets \ {from, to} : wallet'[x] = wallet[x]
    <3>1. PICK a \in 0..BigintMax, b \in 0..BigintMax : a = paid - amount /\ b = got + amount
      BY <2>5
    <3>2. BalancesSet(from, a, to, b)
      BY <2>2, <3>1 DEF BalancesSet
    <3>3. /\ wallet' \in [Wallets -> WalletRows]
          /\ wallet'[from].balance = a /\ wallet'[to].balance = b
          /\ \A x \in Wallets \ {from, to} : wallet'[x] = wallet[x]
      BY <1>4, <3>2, TwoBalances
    <3>4. QED  BY <3>1, <3>3
  <2>7. /\ DOMAIN ledger' = Wallets
        /\ ledger'[from] = Append(ledger[from], debit)
        /\ ledger'[to] = Append(ledger[to], credit)
        /\ \A x \in Wallets \ {from, to} : ledger'[x] = ledger[x]
    BY <1>4, <2>2, <2>3 DEF TypeOK
  <2>8. PostsOne(from, debit)
    BY <2>1, <2>2, <2>4, <2>6, <2>7 DEF PostsOne, NextRow, KeyUsed, TipRow
  <2>9. PostsOne(to, credit)
    BY <2>1, <2>2, <2>4, <2>6, <2>7 DEF PostsOne, NextRow, KeyUsed, TipRow
  <2>10. \A x \in Wallets \ {from, to} : Kept(x)
    BY <2>6, <2>7 DEF Kept
  <2>11. TipPosted(r)
    BY <1>4, <2>4, <2>8, <2>9, <2>10 DEF TipPosted
  <2>12. Ended(r)
    BY <1>1, <1>6, <2>10 DEF Ended
  <2>13. QED  BY <2>6, <2>7, <2>8, <2>9, <2>10, <2>11, <2>12 DEF MoneyTyped, Continues
<1>9. QED  BY <1>7, <1>8

\* The payouts of a rain: to each wallet nothing or one row.
PaidOne(r, w, entry) ==
  /\ NextRow(ledger[w], wallet[w].balance, entry)
  /\ PaidLedger(r)[w] = Append(ledger[w], entry)
  /\ PaidWallet(r)[w].balance = entry.after
  /\ entry.key = PayoutKey(r) /\ Plain(entry)

PaidNone(r, w) ==
  PaidWallet(r)[w] = wallet[w] /\ PaidLedger(r)[w] = ledger[w] /\ Places(r, w) = {}

LEMMA RainPays ==
  ASSUME TypeOK, LocksHold, NEW r \in Requests, Ready(r), req[r].op \in RainOps, Payable(r)
  PROVE  /\ PaidWallet(r) \in [Wallets -> WalletRows] /\ DOMAIN PaidLedger(r) = Wallets
         /\ \A w \in Wallets : PaidNone(r, w) \/ \E entry : PaidOne(r, w, entry)
         /\ \A w \in Wallets : walletLock[w] # r => PaidNone(r, w)
         /\ Open(req[r]) /\ req[r] \in RainCalls
<1>1. /\ Open(req[r]) /\ req[r].order = <<>>
  BY DEF Ready, Open, LockOps, Idle
<1>2. req[r] \in RainCalls
  BY <1>1, Shapes DEF Open
<1>3. Elements(req[r].joined) \subseteq Wants(req[r])
  BY DEF Wants, RainOps
<1>4. ASSUME NEW w \in Wallets
      PROVE  /\ PaidWallet(r)[w] \in WalletRows
             /\ PaidNone(r, w) \/ \E entry : PaidOne(r, w, entry)
             /\ walletLock[w] # r => PaidNone(r, w)
  <2>1. CASE Places(r, w) = {}
    <3>1. PaidNone(r, w)
      BY <2>1 DEF PaidNone, PaidWallet, PaidLedger
    <3>2. QED  BY <3>1 DEF PaidNone, TypeOK
  <2>2. CASE Places(r, w) # {}
    <3>1. w \in Elements(req[r].joined)
      BY <2>2 DEF Places, Elements
    <3>2. walletLock[w] = r /\ req[r].read[w] = wallet[w].balance
      BY <1>1, <1>3, <3>1, AllLocked
    <3>3. PICK share, before :
            /\ share = Share(r, CHOOSE i \in Places(r, w) : TRUE) /\ before = wallet[w].balance
      OBVIOUS
    <3>4. PICK entry : entry = Entry("RAIN_PAYOUT", "CREDIT", share, before, before + share,
                                     PayoutKey(r), req[r].settles)
      OBVIOUS
    <3>5. /\ PaidWallet(r)[w] = [wallet[w] EXCEPT !.balance = before + share]
          /\ PaidLedger(r)[w] = Append(ledger[w], entry)
      BY <2>2, <3>2, <3>3, <3>4 DEF PaidWallet, PaidLedger
    <3>6. ~KeyUsed(w, PayoutKey(r)) /\ Fits(PaidWallet(r)[w].balance)
      BY <2>2 DEF Payable
    <3>7. wallet[w] \in WalletRows
      BY BalanceType
    <3>8. PaidWallet(r)[w].balance = before + share
      BY <3>5, <3>7 DEF WalletRows
    <3>9. PaidWallet(r)[w] \in WalletRows
      BY <3>5, <3>6, <3>7, <3>8 DEF WalletRows, Fits
    <3>10. /\ entry.before = before /\ entry.after = before + share
           /\ entry.key = PayoutKey(r) /\ Plain(entry)
      BY <3>4, EntryFields DEF Plain
    <3>11. PaidOne(r, w, entry)
      BY <3>3, <3>5, <3>6, <3>8, <3>10 DEF PaidOne, NextRow, KeyUsed
    <3>12. QED  BY <3>2, <3>9, <3>11
  <2>3. QED  BY <2>1, <2>2
<1>5. /\ PaidWallet(r) \in [Wallets -> WalletRows] /\ DOMAIN PaidLedger(r) = Wallets
  <2>1. \A w \in Wallets : PaidWallet(r)[w] \in WalletRows
    BY <1>4
  <2>2. PaidWallet(r) = [w \in Wallets |-> PaidWallet(r)[w]]
    BY DEF PaidWallet
  <2>3. QED  BY <2>1, <2>2 DEF PaidLedger
<1>6. QED  BY <1>1, <1>2, <1>4, <1>5

\* A commit that only pays the rain.
LEMMA RainEffect ==
  ASSUME TypeOK, LocksHold, NEW r \in Requests, LookCommit(r) \/ JoinCommit(r)
  PROVE  /\ MoneyTyped /\ Ended(r)
         /\ \A w \in Wallets : Continues(w) /\ PlainGrowth(w)
<1>1. /\ Ready(r) /\ req[r].op \in RainOps /\ Payable(r) /\ Answer(r)
      /\ wallet' = PaidWallet(r) /\ ledger' = PaidLedger(r)
  BY DEF LookCommit, JoinCommit, RainOps
<1>2. /\ PaidWallet(r) \in [Wallets -> WalletRows] /\ DOMAIN PaidLedger(r) = Wallets
      /\ \A w \in Wallets : PaidNone(r, w) \/ \E entry : PaidOne(r, w, entry)
      /\ \A w \in Wallets : walletLock[w] # r => PaidNone(r, w)
  BY <1>1, RainPays
<1>3. MoneyTyped
  BY <1>1, <1>2 DEF MoneyTyped
<1>4. \A w \in Wallets : PaidNone(r, w) => Kept(w)
  BY <1>1 DEF PaidNone, Kept
<1>5. Ended(r)
  BY <1>1, <1>2, <1>4 DEF Ended
<1>6. ASSUME NEW w \in Wallets PROVE Continues(w) /\ PlainGrowth(w)
  <2>1. CASE PaidNone(r, w)
    BY <1>4, <2>1 DEF Continues, PlainGrowth, Kept
  <2>2. CASE \E entry : PaidOne(r, w, entry)
    <3>1. PICK entry : PaidOne(r, w, entry)
      BY <2>2
    <3>2. PostsOne(w, entry) /\ Plain(entry)
      BY <1>1, <3>1 DEF PaidOne, PostsOne
    <3>3. QED  BY <3>2 DEF Continues, PlainGrowth, PostsOne
  <2>3. QED  BY <1>2, <2>1, <2>2
<1>7. QED  BY <1>3, <1>5, <1>6

\* After one row, another under a different unused key may follow.
LEMMA RowAfterRow ==
  ASSUME NEW rows, rows \in Seq(Elements(rows)), NEW first, NEW second, NEW balance,
         second.before = first.after, second.key # first.key,
         \A i \in DOMAIN rows : rows[i].key # second.key
  PROVE  NextRow(Append(rows, first), first.after, second)
<1> PICK more : more = Append(rows, first)
  OBVIOUS
<1>1. /\ Len(rows) \in Nat /\ DOMAIN rows = 1..Len(rows)
      /\ DOMAIN more = 1..(Len(rows) + 1)
      /\ \A i \in 1..Len(rows) : more[i] = rows[i]
      /\ more[Len(rows) + 1] = first
  BY LedgerGrows
<1>2. ASSUME NEW i \in DOMAIN more PROVE more[i].key # second.key
  <2>1. i \in 1..Len(rows) \/ i = Len(rows) + 1
    BY <1>1
  <2>2. QED  BY <1>1, <2>1
<1>3. QED  BY <1>2 DEF NextRow

\* A tip to the rain, after the payouts of the round before.
LEMMA RainTipEffect ==
  ASSUME TypeOK, LocksHold, NEW r \in Requests, RainTipCommit(r)
  PROVE  /\ MoneyTyped /\ Ended(r)
         /\ \A w \in Wallets : Continues(w) /\ PlainGrowth(w)
<1>1. PICK n, w, amount, before, key :
        /\ n = RoundOf(req[r].now) /\ w = req[r].from /\ amount = req[r].amount
        /\ before = TipperBalance(r) /\ key = <<"raintip", n, w, req[r].now>>
  OBVIOUS
<1>2. PICK after, entry :
        /\ after = before - amount
        /\ entry = Entry("RAIN_TIP", "DEBIT", amount, before, after, key, n)
  OBVIOUS
<1>3. PICK paid, rows : paid = PaidWallet(r) /\ rows = PaidLedger(r)
  OBVIOUS
<1>4. /\ Ready(r) /\ req[r].op = "RAINTIP" /\ Payable(r) /\ Answer(r)
      /\ before >= amount /\ ~KeyUsed(w, key)
      /\ wallet' = [paid EXCEPT ![w].balance = after]
      /\ ledger' = [rows EXCEPT ![w] = Append(@, entry)]
  BY <1>1, <1>2, <1>3 DEF RainTipCommit, RainTipAllowed
<1>5. req[r].op \in RainOps
  BY <1>4 DEF RainOps
<1>6. /\ paid \in [Wallets -> WalletRows] /\ DOMAIN rows = Wallets
      /\ \A x \in Wallets : PaidNone(r, x) \/ \E e : PaidOne(r, x, e)
      /\ \A x \in Wallets : walletLock[x] # r => PaidNone(r, x)
      /\ Open(req[r]) /\ req[r] \in RainCalls
  BY <1>3, <1>4, <1>5, RainPays
<1>7. w \in Wallets /\ amount \in Amounts
  BY <1>1, <1>6 DEF RainCalls
<1>8. walletLock[w] = r /\ req[r].read[w] = wallet[w].balance
  <2>1. w \in Wants(req[r]) /\ req[r].order = <<>>
    BY <1>1, <1>4 DEF Wants, Ready
  <2>2. QED  BY <1>6, <2>1, AllLocked
<1>9. before = paid[w].balance
  <2>1. CASE PaidNone(r, w)
    BY <1>1, <1>3, <1>8, <2>1 DEF PaidNone, TipperBalance
  <2>2. CASE ~PaidNone(r, w)
    <3>1. Places(r, w) # {}
      <4>1. Places(r, w) = {} => PaidNone(r, w)
        BY <1>7 DEF PaidNone, PaidWallet, PaidLedger
      <4>2. QED  BY <2>2, <4>1
    <3>2. QED  BY <1>1, <1>3, <3>1 DEF TipperBalance
  <2>3. QED  BY <2>1, <2>2
<1>10. after \in 0..BigintMax
  <2>1. paid[w].balance \in 0..BigintMax
    BY <1>6, <1>7 DEF WalletRows
  <2>2. amount \in Nat /\ BigintMax \in Nat
    BY <1>7, WalletLocksAssumption, BigintAssumption
  <2>3. QED  BY <1>2, <1>4, <1>9, <2>1, <2>2
<1>11. /\ wallet' \in [Wallets -> WalletRows] /\ wallet'[w].balance = after
       /\ \A x \in Wallets \ {w} : wallet'[x] = paid[x]
       /\ DOMAIN ledger' = Wallets /\ ledger'[w] = Append(rows[w], entry)
       /\ \A x \in Wallets \ {w} : ledger'[x] = rows[x]
  <2>1. PICK row \in WalletRows :
          /\ row = [paid[w] EXCEPT !.balance = after] /\ row.balance = after
    <3>1. PICK old \in WalletRows : old = paid[w]
      BY <1>6, <1>7
    <3>2. /\ [old EXCEPT !.balance = after] \in WalletRows
          /\ [old EXCEPT !.balance = after].balance = after
      BY <1>10 DEF WalletRows
    <3>3. QED  BY <3>1, <3>2
  <2>2. wallet' = [paid EXCEPT ![w] = row]
    BY <1>4, <1>6, <1>7, <2>1
  <2>3. QED  BY <1>4, <1>6, <1>7, <2>1, <2>2
<1>12. /\ entry.before = before /\ entry.after = after /\ entry.key = key /\ Plain(entry)
  BY <1>2, EntryFields DEF Plain
<1>13. ASSUME NEW x \in Wallets \ {w}
       PROVE  /\ PaidNone(r, x) => Kept(x)
              /\ Continues(x) /\ PlainGrowth(x)
  <2>1. wallet'[x] = paid[x] /\ ledger'[x] = rows[x]
    BY <1>11
  <2>2. CASE PaidNone(r, x)
    BY <1>3, <2>1, <2>2 DEF PaidNone, Kept, Continues, PlainGrowth
  <2>3. CASE \E e : PaidOne(r, x, e)
    <3>1. PICK e : PaidOne(r, x, e)
      BY <2>3
    <3>2. PostsOne(x, e) /\ Plain(e)
      BY <1>3, <2>1, <3>1 DEF PaidOne, PostsOne
    <3>3. PaidNone(r, x) => Kept(x)
      BY <1>3, <2>1 DEF PaidNone, Kept
    <3>4. QED  BY <3>2, <3>3 DEF Continues, PlainGrowth, PostsOne
  <2>4. QED  BY <1>6, <2>2, <2>3
<1>14. Continues(w) /\ PlainGrowth(w)
  <2>1. CASE PaidNone(r, w)
    <3>1. PostsOne(w, entry)
      BY <1>3, <1>4, <1>9, <1>11, <1>12, <2>1 DEF PaidNone, PostsOne, NextRow, KeyUsed
    <3>2. QED  BY <1>12, <3>1 DEF Continues, PlainGrowth, PostsOne
  <2>2. CASE \E e : PaidOne(r, w, e)
    <3>1. PICK e : PaidOne(r, w, e)
      BY <2>2
    <3>2. /\ NextRow(ledger[w], wallet[w].balance, e) /\ rows[w] = Append(ledger[w], e)
          /\ paid[w].balance = e.after /\ e.key = PayoutKey(r) /\ Plain(e)
      BY <1>3, <3>1 DEF PaidOne
    <3>3. key # e.key
      BY <1>1, <3>2 DEF PayoutKey
    <3>4. NextRow(Append(ledger[w], e), e.after, entry)
      <4>1. ledger[w] \in Seq(Elements(ledger[w]))
        BY <1>7 DEF TypeOK
      <4>2. \A i \in DOMAIN ledger[w] : ledger[w][i].key # entry.key
        BY <1>4, <1>12 DEF KeyUsed
      <4>3. entry.before = e.after /\ entry.key # e.key
        BY <1>9, <1>12, <3>2, <3>3
      <4>4. QED  BY <4>1, <4>2, <4>3, RowAfterRow
    <3>5. PostsTwo(w, e, entry)
      BY <1>11, <1>12, <3>2, <3>4 DEF PostsTwo
    <3>6. QED  BY <1>12, <3>2, <3>5 DEF Continues, PlainGrowth, PostsTwo
  <2>3. QED  BY <1>6, <1>7, <2>1, <2>2
<1>15. Ended(r)
  BY <1>4, <1>6, <1>8, <1>13 DEF Ended
<1>16. QED  BY <1>11, <1>13, <1>14, <1>15 DEF MoneyTyped

\* A claim pays: one row, for the sum, in the referrer's ledger.
ClaimPosted(r) ==
  /\ req[r] \in ClaimCalls
  /\ \E entry : /\ PostsOne(req[r].from, entry)
                /\ entry.reason = "BONUS" /\ entry.ref = "claim"
                /\ entry.amount = req[r].sum
  /\ \A w \in Wallets \ {req[r].from} : Kept(w)

LEMMA ClaimEffect ==
  ASSUME MoneyInv, NEW r \in Requests, ClaimPay(r)
  PROVE  /\ MoneyTyped /\ Ended(r) /\ \A w \in Wallets : Continues(w)
         /\ ClaimPosted(r) /\ walletLock[req[r].from] = r
<1> USE DEF MoneyInv
<1>1. PICK w, sum, before, after :
        /\ w = req[r].from /\ sum = req[r].sum /\ before = req[r].read[w]
        /\ after = before + sum
  OBVIOUS
<1>2. PICK entry : entry = Entry("BONUS", "CREDIT", sum, before, after, req[r].key, "claim")
  OBVIOUS
<1>3. /\ req[r].pc = "pay" /\ req[r].op = "CLAIM" /\ Fits(after)
      /\ wallet' = [wallet EXCEPT ![w].balance = after] /\ Post(w, entry) /\ Answer(r)
  BY <1>1, <1>2 DEF ClaimPay, At
<1>4. Open(req[r])
  BY <1>3 DEF Open, Idle, LockOps
<1>5. req[r] \in ClaimCalls /\ w \in Wallets
  <2>1. req[r] \in ClaimCalls
    BY <1>3, <1>4, Shapes DEF Open
  <2>2. QED  BY <1>1, <2>1 DEF ClaimCalls
<1>6. req[r].order = <<>> /\ ~KeyUsed(w, req[r].key)
  BY <1>1, <1>3, <1>4 DEF ClaimsFresh, Open
<1>7. walletLock[w] = r /\ before = wallet[w].balance
  <2>1. w \in Wants(req[r])
    BY <1>1, <1>3 DEF Wants
  <2>2. QED  BY <1>1, <1>4, <1>6, <2>1, AllLocked
<1>8. /\ entry.reason = "BONUS" /\ entry.amount = sum /\ entry.before = before
      /\ entry.after = after /\ entry.key = req[r].key /\ entry.ref = "claim"
  BY <1>2, EntryFields
<1>9. NextRow(ledger[w], wallet[w].balance, entry)
  BY <1>6, <1>7, <1>8 DEF NextRow, KeyUsed
<1>10. PICK row \in WalletRows :
         wallet' = [wallet EXCEPT ![w] = row] /\ row.balance = entry.after
  BY <1>3, <1>5, <1>8, BalanceSet DEF Fits
<1>11. /\ MoneyTyped /\ PostsOne(w, entry) /\ \A x \in Wallets \ {w} : Kept(x)
       /\ \A x \in Wallets : Continues(x)
  BY <1>3, <1>5, <1>9, <1>10, OnePosting
<1>12. Ended(r)
  BY <1>3, <1>7, <1>11 DEF Ended
<1>13. ClaimPosted(r)
  BY <1>1, <1>5, <1>8, <1>11 DEF ClaimPosted
<1>14. QED  BY <1>1, <1>7, <1>11, <1>12, <1>13

-----------------------------------------------------------------------------
(***************************************************************************)
(* The other steps.                                                        *)
(***************************************************************************)

\* A step that changes the wallets of nobody and gives up the caller's locks.
LEMMA QuietEnd ==
  ASSUME TypeOK, NEW r \in Requests, Answer(r), UNCHANGED moneyVars
  PROVE  Kind /\ \A w \in Wallets : PlainGrowth(w)
BY KeptMoney DEF Kind, Ended

\* The call after the one request moved.
LEMMA QuietMove ==
  ASSUME TypeOK, NEW r \in Requests, NEW call, req' = [req EXCEPT ![r] = call],
         UNCHANGED <<moneyVars, walletLock>>, ~Open(req[r]),
         \/ call = Idle
         \/ /\ IsCall(call)
            /\ Open(call) => call.pc = "lock" /\ Wants(call) \subseteq Elements(call.order)
  PROVE  Kind /\ \A w \in Wallets : PlainGrowth(w)
<1>1. /\ MoneyTyped /\ OnlyFree
      /\ \A w \in Wallets : Kept(w) /\ Continues(w) /\ PlainGrowth(w)
  BY KeptMoney
<1>2. Moved(r, call)
  BY <1>1 DEF Moved
<1>3. QED  BY <1>1, <1>2 DEF Kind

LEMMA NothingRead == <<>> \in Reads
<1>1. <<>> \in [{} -> 0..BigintMax]
  OBVIOUS
<1>2. QED  BY <1>1 DEF Reads

LEMMA SubmitKind ==
  ASSUME TypeOK, NEW r \in Requests, Submit(r)
  PROVE  Kind /\ \A w \in Wallets : PlainGrowth(w)
<1>1. ASSUME NEW call, Start(r, call), IsCall(call),
             Open(call) => call.pc = "lock" /\ Wants(call) \subseteq Elements(call.order)
      PROVE  Kind /\ \A w \in Wallets : PlainGrowth(w)
  <2>1. /\ req' = [req EXCEPT ![r] = call] /\ UNCHANGED <<moneyVars, walletLock>>
        /\ req[r] = Idle
    BY <1>1 DEF Start
  <2>2. QED  BY <1>1, <2>1, QuietMove DEF Open
<1>2. clock \in Times
  BY DEF TypeOK
<1>3. CASE TipCall(r)
  <2>1. PICK from, to, amount, call :
          /\ from \in Wallets /\ to \in Wallets /\ amount \in Amounts /\ from # to
          /\ Start(r, call)
          /\ call = [op |-> "TIP", pc |-> "lock", from |-> from, to |-> to,
                     amount |-> amount, order |-> <<from, to>>, read |-> <<>>,
                     now |-> clock]
    BY <1>3 DEF TipCall
  <2>2. <<from, to>> \in Seq(Wallets) /\ Elements(<<from, to>>) = {from, to}
    BY <2>1 DEF Elements
  <2>3. call \in TipCalls
    BY <1>2, <2>1, <2>2, NothingRead DEF TipCalls
  <2>4. Wants(call) = {from, to} /\ call.order = <<from, to>> /\ call.pc = "lock"
    BY <2>1 DEF Wants
  <2>5. QED  BY <1>1, <2>1, <2>2, <2>3, <2>4 DEF IsCall
<1>4. CASE RainCall(r)
  <2>1. PICK w, amount, op, call :
          /\ w \in Wallets /\ amount \in Amounts /\ op \in RainOps
          /\ Start(r, call)
          /\ call = [op |-> op, pc |-> "previous", from |-> w, amount |-> amount,
                     order |-> <<>>, read |-> <<>>, settles |-> {}, joined |-> <<>>,
                     pot |-> 0, now |-> clock]
    BY <1>4 DEF RainCall, RainOps
  <2>2. <<>> \in Seq(Wallets)
    OBVIOUS
  <2>3. call \in RainCalls
    BY <1>2, <2>1, <2>2, NothingRead DEF RainCalls
  <2>4. ~Open(call)
    BY <2>1 DEF Open
  <2>5. QED  BY <1>1, <2>1, <2>3, <2>4 DEF IsCall
<1>5. CASE DepositCall(r)
  <2>1. PICK w, amount, key, hours, call :
          /\ w \in VaultUsers /\ amount \in Amounts
          /\ key \in Keys /\ hours \in Durations
          /\ Start(r, call)
          /\ call = [op |-> "DEPOSIT", pc |-> "settle", from |-> w, amount |-> amount,
                     key |-> key, hours |-> hours, now |-> clock]
    BY <1>5 DEF DepositCall
  <2>2. call \in DepositCalls
    BY <1>2, <2>1, VaultAssumption DEF DepositCalls
  <2>3. ~Open(call)
    BY <2>1 DEF Open
  <2>4. QED  BY <1>1, <2>1, <2>2, <2>3 DEF IsCall
<1>6. CASE WithdrawCall(r)
  <2>1. PICK w, amount, key, call :
          /\ w \in VaultUsers /\ amount \in Amounts /\ key \in Keys
          /\ Start(r, call)
          /\ call = [op |-> "WITHDRAW", pc |-> "settle", from |-> w, amount |-> amount,
                     key |-> key, seen |-> 0, now |-> clock]
    BY <1>6 DEF WithdrawCall
  <2>2. call.op = "WITHDRAW" /\ call \in WithdrawCalls(call.seen)
    BY <1>2, <2>1, VaultAssumption DEF WithdrawCalls
  <2>3. ~Open(call)
    BY <2>1 DEF Open
  <2>4. QED  BY <1>1, <2>1, <2>2, <2>3 DEF IsCall
<1>7. CASE ClaimCall(r)
  <2>1. PICK w, key, call :
          /\ w \in {Referrer[f] : f \in Referrals} /\ key \in Keys
          /\ Start(r, call)
          /\ call = [op |-> "CLAIM", pc |-> "lock", from |-> w, key |-> key,
                     order |-> <<w>>, read |-> <<>>, sum |-> 0, now |-> clock]
    BY <1>7 DEF ClaimCall
  <2>2. w \in Wallets
    BY <2>1, AffiliatesAssumption
  <2>3. <<w>> \in Seq(Wallets) /\ Elements(<<w>>) = {w}
    BY <2>2 DEF Elements
  <2>4. call \in ClaimCalls
    BY <1>2, <2>1, <2>2, <2>3, NothingRead DEF ClaimCalls
  <2>5. Wants(call) = {w} /\ call.order = <<w>> /\ call.pc = "lock"
    BY <2>1 DEF Wants
  <2>6. QED  BY <1>1, <2>1, <2>3, <2>4, <2>5 DEF IsCall
<1>8. QED  BY <1>3, <1>4, <1>5, <1>6, <1>7 DEF Submit

LEMMA ConcatElements ==
  ASSUME NEW S, NEW s \in Seq(S), NEW t \in Seq(S)
  PROVE  s \o t \in Seq(S) /\ Elements(s) \subseteq Elements(s \o t)
         /\ Elements(t) \subseteq Elements(s \o t)
<1>1. /\ Len(s) \in Nat /\ Len(t) \in Nat /\ DOMAIN s = 1..Len(s) /\ DOMAIN t = 1..Len(t)
      /\ s \o t \in Seq(S) /\ DOMAIN (s \o t) = 1..(Len(s) + Len(t))
      /\ \A i \in 1..Len(s) : (s \o t)[i] = s[i]
      /\ \A i \in 1..Len(t) : (s \o t)[Len(s) + i] = t[i]
  OBVIOUS
<1>2. \A i \in 1..Len(s) : i \in 1..(Len(s) + Len(t))
  BY <1>1
<1>3. \A i \in 1..Len(t) : Len(s) + i \in 1..(Len(s) + Len(t))
  BY <1>1
<1> PICK more : more = s \o t
  OBVIOUS
<1>4. QED  BY <1>1, <1>2, <1>3 DEF Elements

\* The joins of a round, in some order.
LEMMA OrdersType ==
  ASSUME NEW S, S \subseteq Wallets, NEW s \in Orders(S)
  PROVE  s \in Seq(Wallets)
<1>1. Cardinality(S) \in Nat
  BY WalletLocksAssumption, FS_Subset, FS_CardinalityType
<1>2. s \in [1..Cardinality(S) -> S]
  BY DEF Orders
<1>3. QED  BY <1>1, <1>2

LEMMA ReadKind ==
  ASSUME TypeOK, NEW r \in Requests, ReadPrevious(r)
  PROVE  Kind /\ \A w \in Wallets : PlainGrowth(w)
<1>1. req[r].pc = "previous"
  BY DEF ReadPrevious
<1>2. req[r] \in RainCalls
  <2>1. req[r] # Idle /\ IsCall(req[r])
    BY <1>1 DEF Idle, TypeOK
  <2>2. QED
    BY <1>1, <2>1 DEF IsCall, TipCalls, ClaimCalls, DepositCalls, WithdrawCalls
<1>3. PICK found, tipper, joined, pot, call :
        /\ found = Previous(req[r].now)
        /\ tipper = (IF req[r].op = "RAINTIP" THEN <<req[r].from>> ELSE <<>>)
        /\ joined \in Orders(UNION {rain[n].joins : n \in found})
        /\ pot = (IF found = {} THEN 0 ELSE RainBase + rain[CHOOSE n \in found : TRUE].tipped)
        /\ call = [req[r] EXCEPT !.pc = "lock", !.settles = found, !.joined = joined,
                                 !.pot = pot, !.order = joined \o tipper]
        /\ req' = [req EXCEPT ![r] = call]
        /\ UNCHANGED <<moneyVars, walletLock>>
  <2>1. PICK joined \in Orders(UNION {rain[n].joins : n \in Previous(req[r].now)}) :
          req' = [req EXCEPT ![r] =
            [req[r] EXCEPT !.pc = "lock", !.settles = Previous(req[r].now),
                    !.joined = joined,
                    !.pot = IF Previous(req[r].now) = {} THEN 0
                            ELSE RainBase
                                   + rain[CHOOSE n \in Previous(req[r].now) : TRUE].tipped,
                    !.order = joined \o IF req[r].op = "RAINTIP" THEN <<req[r].from>>
                                        ELSE <<>>]]
    BY DEF ReadPrevious, TypeOK
  <2>2. UNCHANGED <<moneyVars, walletLock>>
    BY DEF ReadPrevious
  <2>3. QED  BY <2>1, <2>2
<1>4. found \subseteq Rounds /\ \A n \in Rounds : rain[n] \in RainRows
  BY <1>3 DEF Previous, TypeOK
<1>5. pot \in Nat
  <2>1. CASE found = {}
    BY <1>3, <2>1
  <2>2. CASE found # {}
    <3>1. PICK n \in found : n = CHOOSE m \in found : TRUE
      BY <2>2
    <3>2. rain[n].tipped \in Nat
      BY <1>4, <3>1 DEF RainRows
    <3>3. QED  BY <1>3, <2>2, <3>1, <3>2, RainAssumption
  <2>3. QED  BY <2>1, <2>2
<1>6. joined \in Seq(Wallets)
  <2>1. UNION {rain[n].joins : n \in found} \subseteq Wallets
    BY <1>4 DEF RainRows
  <2>2. QED  BY <1>3, <2>1, OrdersType
<1>7. tipper \in Seq(Wallets) /\ (req[r].op = "RAINTIP" => req[r].from \in Elements(tipper))
  <2>1. req[r].from \in Wallets
    BY <1>2 DEF RainCalls
  <2>2. QED  BY <1>3, <2>1 DEF Elements
<1>8. PICK order \in Seq(Wallets) :
        /\ order = joined \o tipper
        /\ Elements(joined) \subseteq Elements(order)
        /\ Elements(tipper) \subseteq Elements(order)
  BY <1>6, <1>7, ConcatElements
<1>9. /\ call \in RainCalls /\ call.pc = "lock" /\ call.order = order
      /\ call.op = req[r].op /\ call.joined = joined /\ call.from = req[r].from
  BY <1>2, <1>3, <1>4, <1>5, <1>6, <1>8 DEF RainCalls
<1>10. Wants(call) \subseteq Elements(call.order)
  <2>1. CASE call.op = "RAINTIP"
    BY <1>7, <1>8, <1>9, <2>1 DEF Wants
  <2>2. CASE call.op \in {"LOOK", "JOIN"}
    BY <1>8, <1>9, <2>2 DEF Wants
  <2>3. QED  BY <1>9, <2>1, <2>2 DEF RainCalls, RainOps
<1>11. ~Open(req[r])
  BY <1>1 DEF Open
<1>12. QED  BY <1>3, <1>9, <1>10, <1>11, QuietMove DEF IsCall

\* A call of the vault goes on, or ends.
VaultMove(r, call) ==
  /\ req' = [req EXCEPT ![r] = call] /\ UNCHANGED walletLock /\ ~Open(req[r])
  /\ \/ call = Idle
     \/ IsCall(call) /\ ~Open(call)

LEMMA VaultMoves ==
  ASSUME TypeOK, NEW r \in Requests, VaultStep(r)
  PROVE  \E call : VaultMove(r, call)
<1>1. clock \in Times /\ DOMAIN req = Requests
  BY DEF TypeOK
<1>2. req[r] # Idle
  BY DEF VaultStep, SettleMatured, VaultDebit, VaultCredit, ReadBalance, ReadLocks,
         TakeFromVault, VaultPay, At, Idle
<1>3. CASE req' = [req EXCEPT ![r] = Idle] /\ req[r].op \in {"DEPOSIT", "WITHDRAW"}
  <2>1. UNCHANGED walletLock
    BY DEF VaultStep, SettleMatured, VaultDebit, VaultCredit, ReadBalance, ReadLocks,
           TakeFromVault, VaultPay
  <2>2. ~Open(req[r])
    BY <1>3 DEF Open, LockOps, RainOps
  <2>3. VaultMove(r, Idle)
    BY <1>3, <2>1, <2>2 DEF VaultMove
  <2>4. QED  BY <2>3
<1>4. ASSUME NEW pc, Goto(r, pc), UNCHANGED walletLock,
             \/ req[r].op = "DEPOSIT" /\ pc \in {"settle", "debit", "credit"}
             \/ req[r].op = "WITHDRAW" /\ pc \in {"settle", "balance", "locks", "take", "pay"}
      PROVE  \E call : VaultMove(r, call)
  <2>1. PICK call : call = [req[r] EXCEPT !.pc = pc]
    OBVIOUS
  <2>2. req' = [req EXCEPT ![r] = call]
    BY <1>1, <1>4, <2>1 DEF Goto
  <2>3. IsCall(call) /\ ~Open(call) /\ ~Open(req[r])
    <3>1. CASE req[r].op = "DEPOSIT"
      <4>1. req[r] \in DepositCalls
        BY <1>2, <3>1, Shapes
      <4>2. call \in DepositCalls
        BY <1>4, <2>1, <3>1, <4>1 DEF DepositCalls
      <4>3. QED  BY <4>1, <4>2 DEF IsCall, Open, LockOps, RainOps, DepositCalls
    <3>2. CASE req[r].op = "WITHDRAW"
      <4>1. req[r] \in WithdrawCalls(req[r].seen)
        BY <1>2, <3>2, Shapes
      <4>2. call.op = "WITHDRAW" /\ call \in WithdrawCalls(call.seen)
        BY <1>4, <2>1, <3>2, <4>1 DEF WithdrawCalls
      <4>3. QED  BY <3>2, <4>2 DEF IsCall, Open, LockOps, RainOps
    <3>3. QED  BY <1>4, <3>1, <3>2
  <2>4. QED  BY <1>4, <2>2, <2>3 DEF VaultMove
<1>5. CASE SettleMatured(r)
  <2>1. PICK pc : /\ pc = IF req[r].op = "DEPOSIT" THEN "debit" ELSE "balance"
                  /\ Goto(r, pc) /\ UNCHANGED walletLock /\ req[r].pc = "settle"
    BY <1>5 DEF SettleMatured
  <2>2. req[r].op \in {"DEPOSIT", "WITHDRAW"}
    BY <1>2, <2>1 DEF TypeOK, IsCall, TipCalls, RainCalls, ClaimCalls, DepositCalls
  <2>3. QED  BY <1>4, <2>1, <2>2
<1>6. CASE VaultDebit(r)
  <2>1. req[r].op = "DEPOSIT" /\ UNCHANGED walletLock
    BY <1>6 DEF VaultDebit, At
  <2>2. CASE req' = [req EXCEPT ![r].pc = "credit", ![r].now = clock]
    <3>1. PICK call : call = [req[r] EXCEPT !.pc = "credit", !.now = clock]
      OBVIOUS
    <3>2. req' = [req EXCEPT ![r] = call]
      BY <1>1, <2>2, <3>1
    <3>3. req[r] \in DepositCalls
      BY <1>2, <2>1, Shapes
    <3>4. call \in DepositCalls
      BY <1>1, <3>1, <3>3 DEF DepositCalls
    <3>5. QED
      BY <2>1, <3>2, <3>3, <3>4 DEF VaultMove, IsCall, Open, LockOps, RainOps, DepositCalls
  <2>3. QED  BY <1>3, <1>6, <2>1, <2>2 DEF VaultDebit
<1>7. CASE VaultCredit(r)
  BY <1>3, <1>7 DEF VaultCredit, At
<1>8. CASE ReadBalance(r)
  <2>1. req[r].op = "WITHDRAW" /\ UNCHANGED walletLock
    BY <1>8 DEF ReadBalance, At
  <2>2. PICK call, seen : /\ seen = vault[req[r].from].balance
                          /\ call = [req[r] EXCEPT !.pc = "locks", !.seen = seen,
                                                   !.now = clock]
    OBVIOUS
  <2>3. req' = [req EXCEPT ![r] = call]
    BY <1>1, <1>8, <2>2 DEF ReadBalance
  <2>4. req[r] \in WithdrawCalls(req[r].seen)
    BY <1>2, <2>1, Shapes
  <2>5. call.op = "WITHDRAW" /\ call \in WithdrawCalls(call.seen)
    BY <1>1, <2>2, <2>4 DEF WithdrawCalls
  <2>6. QED  BY <2>1, <2>3, <2>5 DEF VaultMove, IsCall, Open, LockOps, RainOps
<1>9. CASE ReadLocks(r)
  BY <1>3, <1>4, <1>9 DEF ReadLocks, At
<1>10. CASE TakeFromVault(r)
  BY <1>4, <1>10 DEF TakeFromVault, At
<1>11. CASE VaultPay(r)
  BY <1>3, <1>11 DEF VaultPay, At
<1>12. QED
  BY <1>5, <1>6, <1>7, <1>8, <1>9, <1>10, <1>11 DEF VaultStep

LEMMA VaultKind ==
  ASSUME TypeOK, NEW r \in Requests, VaultStep(r)
  PROVE  Kind /\ \A w \in Wallets : PlainGrowth(w)
<1>1. PICK call : VaultMove(r, call)
  BY VaultMoves
<1>2. /\ MoneyTyped /\ OnlyFree
      /\ \A w \in Wallets : Continues(w) /\ PlainGrowth(w)
  <2>1. CASE UNCHANGED moneyVars
    BY <2>1, KeptMoney
  <2>2. CASE ~UNCHANGED moneyVars
    <3>1. \/ /\ Adjusted(req[r].from, -req[r].amount, <<"vault", req[r].key>>)
             /\ req[r].op = "DEPOSIT"
          \/ /\ Adjusted(req[r].from, req[r].amount, <<"vault", req[r].key>>)
             /\ req[r].op = "WITHDRAW"
      BY <2>2 DEF VaultStep, SettleMatured, VaultDebit, VaultCredit, ReadBalance,
                  ReadLocks, TakeFromVault, VaultPay, At
    <3>2. req[r] # Idle
      BY DEF VaultStep, SettleMatured, VaultDebit, VaultCredit, ReadBalance, ReadLocks,
             TakeFromVault, VaultPay, At, Idle
    <3>3. req[r].from \in Wallets
      BY <3>1, <3>2, Shapes DEF DepositCalls, WithdrawCalls
    <3>4. PICK w, delta, key : w \in Wallets /\ Adjusted(w, delta, key)
      BY <3>1, <3>3
    <3>5. QED  BY <3>4, AdjustEffect
  <2>3. QED  BY <2>1, <2>2
<1>3. Moved(r, call)
  BY <1>1, <1>2 DEF VaultMove, Moved
<1>4. QED  BY <1>2, <1>3 DEF Kind

LEMMA ClaimSumKind ==
  ASSUME TypeOK, NEW r \in Requests, ClaimSum(r)
  PROVE  Kind /\ \A w \in Wallets : PlainGrowth(w)
<1>1. UNCHANGED moneyVars
  BY DEF ClaimSum
<1>2. CASE Answer(r)
  BY <1>1, <1>2, QuietEnd
<1>3. CASE ~Answer(r)
  BY <1>1, <1>3, KeptMoney DEF Kind
<1>4. QED  BY <1>2, <1>3

LEMMA RainKind ==
  ASSUME TypeOK, LocksHold, NEW r \in Requests, RainStep(r)
  PROVE  Kind /\ \A w \in Wallets : PlainGrowth(w)
<1>1. CASE ReadPrevious(r)
  BY <1>1, ReadKind
<1>2. CASE LookCommit(r) \/ JoinCommit(r)
  BY <1>2, RainEffect DEF Kind
<1>3. CASE RainTipCommit(r)
  BY <1>3, RainTipEffect DEF Kind
<1>4. CASE RainRefused(r)
  <2>1. Answer(r) /\ UNCHANGED moneyVars
    BY <1>4 DEF RainRefused
  <2>2. QED  BY <2>1, QuietEnd
<1>5. QED  BY <1>1, <1>2, <1>3, <1>4 DEF RainStep

\* What a step may do to the ledgers beyond plain rows: a tip, a claim or a code.
CodePosted(p, w) ==
  /\ p \in Promos /\ w \in Wallets /\ Redeem(p, w)
  /\ \E entry : /\ PostsOne(w, entry)
                /\ entry.reason = "BONUS" /\ entry.key = <<"promo", p>>
                /\ entry.ref = p /\ entry.amount = Reward[p]
  /\ \A x \in Wallets \ {w} : Kept(x)

Growth ==
  \/ \A w \in Wallets : PlainGrowth(w)
  \/ \E r \in Requests : TipPosted(r)
  \/ \E r \in Requests : ClaimPay(r) /\ ClaimPosted(r)
  \/ \E p, w : CodePosted(p, w)

LEMMA RedeemKind ==
  ASSUME TypeOK, NEW p \in Promos, NEW w \in Wallets, Redeem(p, w)
  PROVE  Kind /\ CodePosted(p, w)
<1>1. /\ Free(w) /\ CreditBonus(w, Reward[p], <<"promo", p>>, p)
      /\ UNCHANGED <<req, walletLock>>
  BY DEF Redeem, RedeemPromoCode
<1>2. Reward[p] \in Nat
  BY PromoAssumption
<1>3. PICK amount, key : amount \in Nat /\ amount = Reward[p] /\ key = <<"promo", p>>
  BY <1>2
<1>4. /\ MoneyTyped
      /\ \E entry : /\ PostsOne(w, entry)
                    /\ entry.reason = "BONUS" /\ entry.key = key /\ entry.ref = p
                    /\ entry.amount = amount
      /\ \A x \in Wallets \ {w} : Kept(x)
      /\ \A x \in Wallets : Continues(x)
  BY <1>1, <1>3, BonusEffect
<1>5. Untouched
  BY <1>1, <1>4 DEF Untouched, OnlyFree
<1>6. QED  BY <1>3, <1>4, <1>5 DEF Kind, CodePosted

\* Every step is of one of the kinds.
LEMMA StepKind ==
  ASSUME MoneyInv, [Next]_vars
  PROVE  Kind /\ Growth
<1> USE DEF MoneyInv
<1>1. ASSUME NEW r \in Requests, Submit(r)
      PROVE  Kind /\ Growth
  BY <1>1, SubmitKind DEF Growth
<1>2. ASSUME NEW r \in Requests, LockWallet(r)
      PROVE  Kind /\ Growth
  <2>1. UNCHANGED moneyVars
    BY <1>2 DEF LockWallet
  <2>2. QED  BY <1>2, <2>1, KeptMoney DEF Kind, Growth
<1>3. ASSUME NEW r \in Requests, TipCommit(r)
      PROVE  Kind /\ Growth
  <2>1. /\ MoneyTyped /\ Ended(r) /\ \A w \in Wallets : Continues(w)
        /\ UNCHANGED moneyVars \/ TipPosted(r)
    BY <1>3, TipEffect
  <2>2. QED  BY <2>1, KeptMoney DEF Kind, Growth
<1>4. ASSUME NEW r \in Requests, RainStep(r)
      PROVE  Kind /\ Growth
  BY <1>4, RainKind DEF Growth
<1>5. ASSUME NEW r \in Requests, VaultStep(r)
      PROVE  Kind /\ Growth
  BY <1>5, VaultKind DEF Growth
<1>6. ASSUME NEW r \in Requests, ClaimSum(r)
      PROVE  Kind /\ Growth
  BY <1>6, ClaimSumKind DEF Growth
<1>7. ASSUME NEW r \in Requests, ClaimPay(r)
      PROVE  Kind /\ Growth
  BY <1>7, ClaimEffect DEF Kind, Growth
<1>8. ASSUME NEW r \in Requests, RolledBack(r)
      PROVE  Kind /\ Growth
  <2>1. Answer(r) /\ UNCHANGED moneyVars
    BY <1>8 DEF RolledBack, Fail, DeadlockVictim
  <2>2. QED  BY <2>1, QuietEnd DEF Growth
<1>9. ASSUME UNCHANGED <<moneyVars, req, walletLock>>
      PROVE  Kind /\ Growth
  BY <1>9, KeptMoney DEF Kind, Untouched, Growth
<1>10. ASSUME NEW p \in Promos, NEW w \in Wallets, Redeem(p, w)
       PROVE  Kind /\ Growth
  BY <1>10, RedeemKind DEF Growth
<1>11. CASE UNCHANGED vars
  BY <1>9, <1>11 DEF vars, callVars
<1>12. CASE Next
  <2>1. CASE \E r \in Requests : Submit(r) \/ Serve(r) \/ RolledBack(r)
    BY <2>1, <1>1, <1>2, <1>3, <1>4, <1>5, <1>6, <1>7, <1>8 DEF Serve, AffiliateStep
  <2>2. CASE Tick \/ \E f \in Referrals, stake \in Stakes : AddCommission(f, stake)
    BY <2>2, <1>9 DEF Tick, AddCommission, callVars
  <2>3. QED  BY <1>10, <1>12, <2>1, <2>2 DEF Next
<1>13. QED  BY <1>11, <1>12

-----------------------------------------------------------------------------
(***************************************************************************)
(* What a step does to the calls and locks.                                *)
(***************************************************************************)

\* The call r after it has locked the wallet w.
Locking(r, w, call) ==
  /\ Open(req[r]) /\ Lockable(r, w) /\ Open(call) /\ IsCall(call)
  /\ walletLock' = [walletLock EXCEPT ![w] = r]
  /\ req' = [req EXCEPT ![r] = call]
  /\ Wants(call) = Wants(req[r])
  /\ Elements(req[r].order) \subseteq Elements(call.order) \cup {w}
  /\ DOMAIN call.read = DOMAIN req[r].read \cup {w}
  /\ call.read[w] = wallet[w].balance
  /\ \A x \in DOMAIN req[r].read \ {w} : call.read[x] = req[r].read[x]
  /\ call.pc = "lock" /\ UNCHANGED moneyVars
  /\ call.op = req[r].op
  /\ call.op \in RainOps => /\ call.joined = req[r].joined /\ call.pot = req[r].pot
                           /\ call.settles = req[r].settles

LEMMA ReadMore ==
  ASSUME TypeOK, NEW read \in Reads, NEW w \in Wallets
  PROVE  LET more == ReadAlso(read, w)
         IN /\ more \in Reads /\ DOMAIN more = DOMAIN read \cup {w}
            /\ more[w] = wallet[w].balance
            /\ \A x \in DOMAIN read \ {w} : more[x] = read[x]
<1> PICK more : more = ReadAlso(read, w)
  OBVIOUS
<1>1. PICK D \in SUBSET Wallets : read \in [D -> 0..BigintMax]
  BY DEF Reads
<1>2. more = [x \in D \cup {w} |-> IF x = w THEN wallet[w].balance ELSE read[x]]
  BY <1>1 DEF ReadAlso
<1>3. more \in [D \cup {w} -> 0..BigintMax]
  BY <1>1, <1>2, BalanceType
<1>4. more \in Reads
  BY <1>3 DEF Reads
<1>5. QED  BY <1>1, <1>2, <1>4

LEMMA LockEffect ==
  ASSUME TypeOK, NEW r \in Requests, LockWallet(r)
  PROVE  \E w \in Wallets, call \in TipCalls \cup RainCalls \cup ClaimCalls :
           Locking(r, w, call)
<1>1. /\ req[r].pc = "lock" /\ req[r].order # <<>> /\ UNCHANGED moneyVars
      /\ DOMAIN req = Requests
  BY DEF LockWallet, TypeOK
<1>2. Open(req[r])
  <2>1. req[r] # Idle
    BY <1>1 DEF Idle
  <2>2. req[r].op \in LockOps
    BY <1>1, <2>1, Shapes DEF TypeOK, IsCall, TipCalls, RainCalls, ClaimCalls,
                              DepositCalls, WithdrawCalls, LockOps
  <2>3. QED  BY <1>1, <2>1, <2>2 DEF Open
<1>3. /\ req[r].order \in Seq(Wallets) /\ req[r].read \in Reads
      /\ req[r] \in TipCalls \cup RainCalls \cup ClaimCalls
  BY <1>2, OpenFields
<1>4. PICK old, order, read :
        old = req[r] /\ order = req[r].order /\ read = req[r].read
  OBVIOUS
<1>5. PICK w, rest :
        /\ w = Head(order) /\ rest = Tail(order)
        /\ w \in Wallets /\ rest \in Seq(Wallets)
        /\ Elements(order) \subseteq Elements(rest) \cup {w}
  <2>1. /\ Len(order) \in Nat /\ Len(order) > 0 /\ DOMAIN order = 1..Len(order)
        /\ Head(order) = order[1] /\ Head(order) \in Wallets
        /\ Tail(order) \in Seq(Wallets) /\ DOMAIN Tail(order) = 1..(Len(order) - 1)
        /\ \A i \in 1..(Len(order) - 1) : Tail(order)[i] = order[i + 1]
    BY <1>1, <1>3, <1>4
  <2>2. ASSUME NEW i \in 1..Len(order), i # 1
        PROVE  order[i] \in Elements(Tail(order))
    <3>1. i - 1 \in 1..(Len(order) - 1) /\ (i - 1) + 1 = i
      BY <2>1, <2>2
    <3>2. Tail(order)[i - 1] = order[i]
      BY <2>1, <3>1
    <3>3. QED  BY <2>1, <3>1, <3>2 DEF Elements
  <2>3. PICK w, rest : w = Head(order) /\ rest = Tail(order)
    OBVIOUS
  <2>4. Elements(order) \subseteq Elements(rest) \cup {w}
    BY <2>1, <2>2, <2>3 DEF Elements
  <2>5. QED  BY <2>1, <2>3, <2>4
<1>6. PICK more :
        /\ more = ReadAlso(read, w) /\ more \in Reads /\ DOMAIN more = DOMAIN read \cup {w}
        /\ more[w] = wallet[w].balance /\ \A x \in DOMAIN read \ {w} : more[x] = read[x]
  <2>1. read \in Reads /\ w \in Wallets
    BY <1>3, <1>4, <1>5
  <2>2. QED  BY <2>1, ReadMore
<1>7. PICK call : call = [old EXCEPT !.order = rest, !.read = more]
  OBVIOUS
<1>8. /\ Lockable(r, w) /\ walletLock' = [walletLock EXCEPT ![w] = r]
      /\ req' = [req EXCEPT ![r].order = rest, ![r].read = ReadAlso(@, w)]
  BY <1>4, <1>5 DEF LockWallet
<1>9. req' = [req EXCEPT ![r] = call]
  <2>1. PICK half : half = [req EXCEPT ![r] = [old EXCEPT !.order = rest]]
    OBVIOUS
  <2>2. req' = [half EXCEPT ![r] = [half[r] EXCEPT !.read = ReadAlso(half[r].read, w)]]
    BY <1>1, <1>4, <1>8, <2>1
  <2>3. /\ half[r] = [old EXCEPT !.order = rest] /\ half[r].read = read
        /\ DOMAIN half = Requests
    BY <1>1, <1>3, <1>4, <2>1 DEF TipCalls, RainCalls, ClaimCalls
  <2>4. req' = [half EXCEPT ![r] = call]
    BY <1>6, <1>7, <2>2, <2>3
  <2> HIDE <1>7
  <2>5. QED  BY <1>1, <2>1, <2>4
<1>10. /\ call \in TipCalls \cup RainCalls \cup ClaimCalls
       /\ call.order = rest /\ call.read = more /\ call.op = old.op /\ call.pc = old.pc
       /\ call.from = old.from /\ call # Idle
       /\ old.op = "TIP" => call.to = old.to
       /\ old.op \in RainOps => /\ call.joined = old.joined /\ call.pot = old.pot
                               /\ call.settles = old.settles
  <2>1. CASE old \in TipCalls
    BY <1>5, <1>6, <1>7, <2>1 DEF TipCalls, Idle, RainOps
  <2>2. CASE old \in RainCalls
    BY <1>5, <1>6, <1>7, <2>2 DEF RainCalls, Idle, RainOps
  <2>3. CASE old \in ClaimCalls
    BY <1>5, <1>6, <1>7, <2>3 DEF ClaimCalls, Idle, RainOps
  <2>4. QED  BY <1>3, <1>4, <2>1, <2>2, <2>3
<1>11. Wants(call) = Wants(old)
  BY <1>2, <1>4, <1>10 DEF Wants, RainOps, Open, LockOps
<1>12. Open(call)
  BY <1>2, <1>4, <1>10 DEF Open
<1>13. Locking(r, w, call)
  BY <1>1, <1>2, <1>4, <1>5, <1>6, <1>8, <1>9, <1>10, <1>11, <1>12 DEF Locking, IsCall
<1>14. QED  BY <1>5, <1>10, <1>13

\* A claim that finds something to claim.
Summed(r, call) ==
  /\ Open(req[r]) /\ req[r].op = "CLAIM" /\ req[r].order = <<>>
  /\ req' = [req EXCEPT ![r] = call] /\ UNCHANGED <<moneyVars, walletLock>>
  /\ call \in ClaimCalls /\ call.pc = "pay" /\ call.order = <<>>
  /\ call.read = req[r].read /\ call.from = req[r].from /\ call.key = req[r].key
  /\ ~KeyUsed(call.from, call.key)
  /\ call.sum = Total([f \in Referrals |-> referral[f].claimable], Claimable(call.from))
  /\ rowsLocked' = [rowsLocked EXCEPT ![r] = Claimable(call.from)]
  /\ \A f \in Claimable(call.from) : RowFree(f)

LEMMA ReferralType ==
  ASSUME TypeOK, NEW f \in Referrals
  PROVE  /\ referral[f] \in ReferralRows
         /\ referral[f].claimable \in Nat /\ referral[f].claimed \in Nat
         /\ referral[f].total \in Nat
BY DEF TypeOK, ReferralRows

LEMMA ClaimSumEffect ==
  ASSUME TypeOK, NEW r \in Requests, ClaimSum(r), ~Answer(r)
  PROVE  \E call : Summed(r, call)
<1>1. PICK w, rows, sum :
        /\ w = req[r].from /\ rows = Claimable(w)
        /\ sum = Total([f \in Referrals |-> referral[f].claimable], rows)
  OBVIOUS
<1>2. /\ req[r].pc = "lock" /\ req[r].op = "CLAIM" /\ req[r].order = <<>>
      /\ \A f \in rows : RowFree(f)
      /\ ~KeyUsed(w, req[r].key)
      /\ req' = [req EXCEPT ![r].pc = "pay", ![r].sum = sum]
      /\ rowsLocked' = [rowsLocked EXCEPT ![r] = rows]
      /\ UNCHANGED <<moneyVars, walletLock>>
  BY <1>1 DEF ClaimSum, At
<1>3. Open(req[r])
  BY <1>2 DEF Open, Idle, LockOps
<1>4. req[r] \in ClaimCalls
  BY <1>2, <1>3, Shapes DEF Open
<1>5. sum \in Nat
  <2>1. rows \subseteq Referrals /\ IsFiniteSet(rows)
    <3>1. rows \subseteq Referrals
      BY <1>1 DEF Claimable, Of
    <3>2. QED  BY <3>1, AffiliatesAssumption, FS_Subset
  <2>2. PICK amount : amount = [f \in Referrals |-> referral[f].claimable]
    OBVIOUS
  <2>3. \A f \in rows : amount[f] \in Nat
    BY <2>1, <2>2, ReferralType
  <2>4. Total(amount, rows) \in Nat
    BY <2>1, <2>3, TotalType
  <2>5. QED  BY <1>1, <2>2, <2>4
<1>6. PICK old, call : old = req[r] /\ call = [old EXCEPT !.pc = "pay", !.sum = sum]
  OBVIOUS
<1>7. req' = [req EXCEPT ![r] = call]
  BY <1>2, <1>6 DEF TypeOK
<1>8. /\ call \in ClaimCalls /\ call.pc = "pay" /\ call.order = old.order
      /\ call.read = old.read /\ call.from = old.from /\ call.key = old.key
      /\ call.sum = sum
  BY <1>4, <1>5, <1>6 DEF ClaimCalls
<1>9. Summed(r, call)
  BY <1>1, <1>2, <1>3, <1>6, <1>7, <1>8 DEF Summed
<1>10. QED  BY <1>9

\* The type of locks and calls after a step of one of the kinds.
CallsTyped ==
  /\ walletLock' \in [Wallets -> Requests \cup {NoRequest}]
  /\ DOMAIN req' = Requests
  /\ \A r \in Requests : req'[r] = Idle \/ IsCall(req'[r])

LEMMA KindTyped ==
  ASSUME TypeOK, Kind
  PROVE  CallsTyped
<1>1. /\ walletLock \in [Wallets -> Requests \cup {NoRequest}] /\ DOMAIN req = Requests
      /\ \A r \in Requests : req[r] = Idle \/ IsCall(req[r])
  BY DEF TypeOK
<1>2. ASSUME NEW r \in Requests, NEW call, req' = [req EXCEPT ![r] = call],
             call = Idle \/ IsCall(call)
      PROVE  DOMAIN req' = Requests /\ \A q \in Requests : req'[q] = Idle \/ IsCall(req'[q])
  BY <1>1, <1>2
<1>3. CASE Untouched
  BY <1>1, <1>3 DEF Untouched, CallsTyped
<1>4. ASSUME NEW r \in Requests, NEW call, Moved(r, call)
      PROVE  CallsTyped
  BY <1>1, <1>2, <1>4 DEF Moved, CallsTyped
<1>5. ASSUME NEW r \in Requests, LockWallet(r)
      PROVE  CallsTyped
  <2>1. PICK w \in Wallets, call \in TipCalls \cup RainCalls \cup ClaimCalls :
          Locking(r, w, call)
    BY <1>5, LockEffect
  <2>2. walletLock' = [walletLock EXCEPT ![w] = r]
    BY <2>1 DEF Locking
  <2>3. req' = [req EXCEPT ![r] = call] /\ IsCall(call)
    BY <2>1 DEF Locking
  <2>4. QED  BY <1>1, <1>2, <2>2, <2>3 DEF CallsTyped
<1>6. ASSUME NEW r \in Requests, Ended(r)
      PROVE  CallsTyped
  BY <1>1, <1>6, AnswerEffect DEF Ended, CallsTyped
<1>7. ASSUME NEW r \in Requests, ClaimSum(r), ~Answer(r)
      PROVE  CallsTyped
  <2>1. PICK call : Summed(r, call)
    BY <1>7, ClaimSumEffect
  <2>2. req' = [req EXCEPT ![r] = call] /\ UNCHANGED walletLock /\ call \in ClaimCalls
    BY <2>1 DEF Summed
  <2>3. QED  BY <1>1, <1>2, <2>2 DEF CallsTyped, IsCall
<1>8. QED  BY <1>3, <1>4, <1>5, <1>6, <1>7 DEF Kind

\* A locked wallet is not written by the step of another request.
LEMMA LockedKept ==
  ASSUME MoneyInv, Kind, NEW w \in Wallets, walletLock[w] # NoRequest
  PROVE  Kept(w) \/ Ended(walletLock[w])
<1>1. ~Free(w)
  BY DEF Free
<1>2. CASE Untouched
  BY <1>1, <1>2 DEF Untouched, OnlyFree
<1>3. CASE \E r \in Requests : \E call : Moved(r, call)
  BY <1>1, <1>3 DEF Moved, OnlyFree
<1>4. CASE \E r \in Requests : LockWallet(r) \/ ClaimSum(r)
  <2>1. UNCHANGED moneyVars
    BY <1>4 DEF LockWallet, ClaimSum
  <2>2. QED  BY <2>1 DEF Kept, moneyVars
<1>5. CASE \E r \in Requests : Ended(r)
  <2>1. PICK r \in Requests : Ended(r)
    BY <1>5
  <2>2. QED  BY <2>1 DEF Ended
<1>6. QED  BY <1>2, <1>3, <1>4, <1>5 DEF Kind

\* The locks of the next state, once it is clear what happened to the calls that
\* hold them and to the calls that want them.
LEMMA LocksStep ==
  ASSUME MoneyInv, Kind
  PROVE  LocksHold'
<1> USE DEF MoneyInv
<1>1. /\ walletLock \in [Wallets -> Requests \cup {NoRequest}] /\ DOMAIN req = Requests
      /\ NoRequest \notin Requests
  BY WalletLocksAssumption DEF TypeOK
<1>2. ASSUME NEW w \in Wallets, NEW q, walletLock[w] = q, q # NoRequest
      PROVE  /\ Open(req[q]) /\ q \in Requests
             /\ w \in DOMAIN req[q].read /\ req[q].read[w] = wallet[w].balance
  <2>1. q \in Requests
    BY <1>1, <1>2
  <2>2. QED  BY <1>2, <2>1 DEF LocksHold
<1>3. ASSUME NEW q \in Requests, Open(req[q]), NEW w \in Wants(req[q])
      PROVE  w \in Wallets /\ (walletLock[w] = q \/ w \in Elements(req[q].order))
  BY <1>3, OpenFields DEF LocksHold
<1>4. ASSUME /\ \A w \in Wallets : walletLock'[w] # NoRequest =>
                  /\ Open(req'[walletLock'[w]])
                  /\ w \in DOMAIN req'[walletLock'[w]].read
                  /\ req'[walletLock'[w]].read[w] = wallet'[w].balance
             /\ \A q \in Requests : Open(req'[q]) =>
                  \A w \in Wants(req'[q]) : walletLock'[w] = q \/ w \in Elements(req'[q].order)
      PROVE  LocksHold'
  BY <1>4 DEF LocksHold
<1>5. CASE Untouched
  <2>1. UNCHANGED <<req, walletLock>> /\ \A w \in Wallets : ~Free(w) => Kept(w)
    BY <1>5 DEF Untouched, OnlyFree
  <2>2. \A w \in Wallets : walletLock[w] # NoRequest => wallet'[w] = wallet[w]
    BY <2>1 DEF Free, Kept
  <2>3. QED  BY <1>2, <1>3, <1>4, <2>1, <2>2
<1>6. ASSUME NEW r \in Requests, NEW call, Moved(r, call)
      PROVE  LocksHold'
  <2>1. /\ req' = [req EXCEPT ![r] = call] /\ UNCHANGED walletLock /\ ~Open(req[r])
        /\ Open(call) => Wants(call) \subseteq Elements(call.order)
        /\ \A w \in Wallets : ~Free(w) => Kept(w)
    <3>1. ~Open(Idle)
      BY DEF Open
    <3>2. QED  BY <1>6, <3>1 DEF Moved, OnlyFree
  <2>2. \A w \in Wallets : walletLock[w] # NoRequest => wallet'[w] = wallet[w]
    BY <2>1 DEF Free, Kept
  <2>3. req'[r] = call /\ \A q \in Requests \ {r} : req'[q] = req[q]
    BY <1>1, <2>1
  <2>4. ASSUME NEW w \in Wallets, walletLock'[w] # NoRequest
        PROVE  /\ Open(req'[walletLock'[w]])
               /\ w \in DOMAIN req'[walletLock'[w]].read
               /\ req'[walletLock'[w]].read[w] = wallet'[w].balance
    <3>1. PICK q : q = walletLock[w]
      OBVIOUS
    <3>2. /\ Open(req[q]) /\ q \in Requests /\ q # r
          /\ w \in DOMAIN req[q].read /\ req[q].read[w] = wallet[w].balance
      BY <1>2, <2>1, <2>4, <3>1
    <3>3. QED  BY <2>1, <2>2, <2>3, <2>4, <3>1, <3>2
  <2>5. ASSUME NEW q \in Requests, Open(req'[q]), NEW w \in Wants(req'[q])
        PROVE  walletLock'[w] = q \/ w \in Elements(req'[q].order)
    <3>1. CASE q = r
      BY <2>1, <2>3, <2>5, <3>1
    <3>2. CASE q # r
      BY <1>3, <2>1, <2>3, <2>5, <3>2
    <3>3. QED  BY <3>1, <3>2
  <2>6. QED  BY <1>4, <2>4, <2>5
<1>7. ASSUME NEW r \in Requests, LockWallet(r)
      PROVE  LocksHold'
  <2>1. PICK v, call : v \in Wallets /\ Locking(r, v, call)
    BY <1>7, LockEffect
  <2>2. /\ walletLock[v] \in {NoRequest, r} /\ walletLock' = [walletLock EXCEPT ![v] = r]
        /\ req' = [req EXCEPT ![r] = call] /\ Open(call) /\ Open(req[r])
        /\ UNCHANGED <<wallet, ledger>>
    BY <2>1 DEF Locking, Lockable, moneyVars
  <2>3. /\ Wants(call) = Wants(req[r])
        /\ Elements(req[r].order) \subseteq Elements(call.order) \cup {v}
        /\ DOMAIN call.read = DOMAIN req[r].read \cup {v}
        /\ call.read[v] = wallet[v].balance
        /\ \A x \in DOMAIN req[r].read \ {v} : call.read[x] = req[r].read[x]
    BY <2>1 DEF Locking
  <2>4. /\ req'[r] = call /\ \A q \in Requests \ {r} : req'[q] = req[q]
        /\ walletLock'[v] = r /\ \A w \in Wallets \ {v} : walletLock'[w] = walletLock[w]
    BY <1>1, <2>1, <2>2
  <2>5. ASSUME NEW w \in Wallets, walletLock'[w] # NoRequest
        PROVE  /\ Open(req'[walletLock'[w]])
               /\ w \in DOMAIN req'[walletLock'[w]].read
               /\ req'[walletLock'[w]].read[w] = wallet'[w].balance
    <3>1. CASE w = v
      BY <2>2, <2>3, <2>4, <3>1
    <3>2. CASE w # v
      <4>1. PICK q : q = walletLock[w]
        OBVIOUS
      <4>2. /\ Open(req[q]) /\ q \in Requests
            /\ w \in DOMAIN req[q].read /\ req[q].read[w] = wallet[w].balance
        BY <1>2, <2>4, <2>5, <3>2, <4>1
      <4>3. walletLock'[w] = q
        BY <2>4, <3>2, <4>1
      <4>4. CASE q = r
        BY <2>2, <2>3, <2>4, <3>2, <4>2, <4>3, <4>4
      <4>5. CASE q # r
        BY <2>2, <2>4, <4>2, <4>3, <4>5
      <4>6. QED  BY <4>4, <4>5
    <3>3. QED  BY <3>1, <3>2
  <2>6. ASSUME NEW q \in Requests, Open(req'[q]), NEW w \in Wants(req'[q])
        PROVE  walletLock'[w] = q \/ w \in Elements(req'[q].order)
    <3>1. CASE q = r
      <4>1. w \in Wants(req[r])
        BY <2>3, <2>4, <2>6, <3>1
      <4>2. w \in Wallets /\ (walletLock[w] = r \/ w \in Elements(req[r].order))
        BY <1>3, <2>2, <4>1
      <4>3. QED  BY <2>3, <2>4, <3>1, <4>2
    <3>2. CASE q # r
      <4>1. w \in Wallets /\ (walletLock[w] = q \/ w \in Elements(req[q].order))
        BY <1>3, <2>4, <2>6, <3>2
      <4>2. walletLock[w] = q => w # v
        BY <1>1, <2>2, <3>2
      <4>3. QED  BY <2>4, <3>2, <4>1, <4>2
    <3>3. QED  BY <3>1, <3>2
  <2>7. QED  BY <1>4, <2>5, <2>6
<1>8. ASSUME NEW r \in Requests, Ended(r)
      PROVE  LocksHold'
  <2>1. /\ \A w \in Wallets : walletLock'[w] = IF walletLock[w] = r THEN NoRequest
                                               ELSE walletLock[w]
        /\ req'[r] = Idle /\ \A q \in Requests \ {r} : req'[q] = req[q]
    BY <1>8, AnswerEffect DEF Ended
  <2>2. \A w \in Wallets : walletLock[w] # r => wallet'[w] = wallet[w]
    BY <1>8 DEF Ended, Kept
  <2>3. ASSUME NEW w \in Wallets, walletLock'[w] # NoRequest
        PROVE  /\ Open(req'[walletLock'[w]])
               /\ w \in DOMAIN req'[walletLock'[w]].read
               /\ req'[walletLock'[w]].read[w] = wallet'[w].balance
    <3>1. PICK q : q = walletLock[w]
      OBVIOUS
    <3>2. q # r /\ q # NoRequest /\ walletLock'[w] = q
      BY <2>1, <2>3, <3>1
    <3>3. /\ Open(req[q]) /\ q \in Requests
          /\ w \in DOMAIN req[q].read /\ req[q].read[w] = wallet[w].balance
      BY <1>2, <3>1, <3>2
    <3>4. QED  BY <2>1, <2>2, <3>1, <3>2, <3>3
  <2>4. ASSUME NEW q \in Requests, Open(req'[q]), NEW w \in Wants(req'[q])
        PROVE  walletLock'[w] = q \/ w \in Elements(req'[q].order)
    <3>1. q # r /\ req'[q] = req[q]
      BY <2>1, <2>4 DEF Open
    <3>2. w \in Wallets /\ (walletLock[w] = q \/ w \in Elements(req[q].order))
      BY <1>3, <2>4, <3>1
    <3>3. QED  BY <2>1, <3>1, <3>2
  <2>5. QED  BY <1>4, <2>3, <2>4
<1>9. ASSUME NEW r \in Requests, ClaimSum(r), ~Answer(r)
      PROVE  LocksHold'
  <2>1. PICK call : Summed(r, call)
    BY <1>9, ClaimSumEffect
  <2>2. /\ req' = [req EXCEPT ![r] = call] /\ UNCHANGED <<wallet, ledger, walletLock>>
        /\ Open(req[r]) /\ req[r].op = "CLAIM" /\ call \in ClaimCalls
        /\ call.pc = "pay" /\ call.order = req[r].order
        /\ call.read = req[r].read /\ call.from = req[r].from
    BY <2>1 DEF Summed, moneyVars
  <2>3. Open(call) /\ Wants(call) = Wants(req[r])
    BY <2>2 DEF Open, Wants, ClaimCalls, Idle, LockOps
  <2>4. req'[r] = call /\ \A q \in Requests \ {r} : req'[q] = req[q]
    BY <1>1, <2>2
  <2>5. \A q \in Requests : /\ Open(req'[q]) <=> Open(req[q])
                            /\ Open(req[q]) => /\ Wants(req'[q]) = Wants(req[q])
                                               /\ req'[q].order = req[q].order
                                               /\ req'[q].read = req[q].read
    BY <2>2, <2>3, <2>4
  <2>6. ASSUME NEW w \in Wallets, walletLock'[w] # NoRequest
        PROVE  /\ Open(req'[walletLock'[w]])
               /\ w \in DOMAIN req'[walletLock'[w]].read
               /\ req'[walletLock'[w]].read[w] = wallet'[w].balance
    <3>1. PICK q : q = walletLock[w]
      OBVIOUS
    <3>2. /\ Open(req[q]) /\ q \in Requests
          /\ w \in DOMAIN req[q].read /\ req[q].read[w] = wallet[w].balance
      BY <1>2, <2>2, <2>6, <3>1
    <3>3. QED  BY <2>2, <2>5, <3>1, <3>2
  <2>7. ASSUME NEW q \in Requests, Open(req'[q]), NEW w \in Wants(req'[q])
        PROVE  walletLock'[w] = q \/ w \in Elements(req'[q].order)
    BY <1>3, <2>2, <2>5, <2>7
  <2>8. QED  BY <1>4, <2>6, <2>7
<1>10. QED  BY <1>5, <1>6, <1>7, <1>8, <1>9 DEF Kind

LEMMA ClaimsStep ==
  ASSUME MoneyInv, Kind
  PROVE  ClaimsFresh'
<1> USE DEF MoneyInv
<1>1. DOMAIN req = Requests
  BY DEF TypeOK
<1> SUFFICES ASSUME NEW q \in Requests, req'[q] # Idle,
                    req'[q].op = "CLAIM", req'[q].pc = "pay"
             PROVE  /\ req'[q].order = <<>>
                    /\ \A i \in DOMAIN ledger'[req'[q].from] :
                         ledger'[req'[q].from][i].key # req'[q].key
  BY DEF ClaimsFresh, KeyUsed
<1>2. CASE req'[q] = req[q]
  <2>1. req[q].order = <<>> /\ ~KeyUsed(req[q].from, req[q].key)
    BY <1>2 DEF ClaimsFresh
  <2>2. Open(req[q])
    BY <1>2 DEF Open, LockOps
  <2>3. PICK w : w = req[q].from /\ w \in Wants(req[q])
    BY <1>2 DEF Wants
  <2>4. w \in Wallets /\ walletLock[w] = q /\ q # NoRequest
    BY <2>1, <2>2, <2>3, AllLocked, WalletLocksAssumption
  <2>5. Kept(w) \/ Ended(q)
    BY <2>4, LockedKept
  <2>6. ~Ended(q)
    BY AnswerEffect DEF Ended
  <2>7. QED  BY <1>2, <2>1, <2>3, <2>5, <2>6 DEF KeyUsed, Kept
<1>3. CASE req'[q] # req[q]
  <2>1. ~Untouched
    BY <1>3 DEF Untouched
  <2>2. ASSUME NEW r \in Requests, NEW call, Moved(r, call)
        PROVE  FALSE
    <3>1. /\ req' = [req EXCEPT ![r] = call]
          /\ call = Idle \/ (IsCall(call) /\ (Open(call) => call.pc = "lock"))
      BY <2>2 DEF Moved
    <3>2. q = r /\ req'[q] = call
      BY <1>1, <1>3, <3>1
    <3>3. Open(call)
      BY <3>2 DEF Open, LockOps
    <3>4. QED  BY <3>1, <3>2, <3>3
  <2>3. ASSUME NEW r \in Requests, LockWallet(r)
        PROVE  FALSE
    <3>1. PICK w, call : w \in Wallets /\ Locking(r, w, call)
      BY <2>3, LockEffect
    <3>2. req' = [req EXCEPT ![r] = call] /\ call.pc = "lock"
      BY <3>1 DEF Locking
    <3>3. QED  BY <1>1, <1>3, <3>2
  <2>4. ASSUME NEW r \in Requests, Ended(r)
        PROVE  FALSE
    BY <1>3, <2>4, AnswerEffect DEF Ended
  <2>5. ASSUME NEW r \in Requests, ClaimSum(r), ~Answer(r)
        PROVE  /\ req'[q].order = <<>>
               /\ \A i \in DOMAIN ledger'[req'[q].from] :
                    ledger'[req'[q].from][i].key # req'[q].key
    <3>1. PICK call : Summed(r, call)
      BY <2>5, ClaimSumEffect
    <3>2. /\ req' = [req EXCEPT ![r] = call] /\ UNCHANGED ledger /\ call.order = <<>>
          /\ ~KeyUsed(call.from, call.key)
      BY <3>1 DEF Summed, moneyVars
    <3>3. req'[q] = call
      BY <1>1, <1>3, <3>2
    <3>4. QED  BY <3>2, <3>3 DEF KeyUsed
  <2>6. QED  BY <2>1, <2>2, <2>3, <2>4, <2>5 DEF Kind
<1>4. QED  BY <1>2, <1>3

-----------------------------------------------------------------------------
(***************************************************************************)
(* The types of the other tables.                                          *)
(***************************************************************************)

LEMMA RainAfterType ==
  ASSUME TypeOK, NEW r \in Requests
  PROVE  RainAfter(r) \in [Rounds -> RainRows]
<1> SUFFICES ASSUME NEW n \in Rounds
             PROVE  [rain[n] EXCEPT !.settled = @ \/ n \in req[r].settles,
                                    !.exists = @ \/ n = RoundOf(req[r].now)] \in RainRows
  BY DEF RainAfter
<1>1. PICK row \in RainRows : row = rain[n]
  BY DEF TypeOK
<1>2. PICK s \in BOOLEAN, e \in BOOLEAN :
        /\ s = (row.settled \/ n \in req[r].settles)
        /\ e = (row.exists \/ n = RoundOf(req[r].now))
  OBVIOUS
<1>3. [row EXCEPT !.settled = s, !.exists = e] \in RainRows
  BY DEF RainRows
<1>4. QED  BY <1>1, <1>2, <1>3

\* A commit of the rain.
RainCommit(r) == LookCommit(r) \/ JoinCommit(r) \/ RainTipCommit(r)

LEMMA RainCommitType ==
  ASSUME TypeOK, NEW r \in Requests, RainCommit(r)
  PROVE  rain' \in [Rounds -> RainRows] /\ req[r] \in RainCalls
<1>1. /\ req[r].pc = "lock" /\ req[r].op \in RainOps
  BY DEF RainCommit, LookCommit, JoinCommit, RainTipCommit, Ready, RainOps
<1>2. req[r] \in RainCalls
  <2>1. req[r] # Idle
    BY <1>1 DEF Idle
  <2>2. QED  BY <1>1, <2>1, Shapes
<1>3. PICK after, n, from, amount :
        /\ after = RainAfter(r) /\ n = RoundOf(req[r].now)
        /\ from = req[r].from /\ amount = req[r].amount
  OBVIOUS
<1>4. after \in [Rounds -> RainRows]
  BY <1>3, RainAfterType
<1>5. from \in Wallets /\ amount \in Nat
  BY <1>2, <1>3, WalletLocksAssumption DEF RainCalls
<1>6. CASE LookCommit(r)
  BY <1>2, <1>3, <1>4, <1>6 DEF LookCommit
<1>7. CASE n \notin Rounds
  BY <1>2, <1>3, <1>4, <1>7 DEF RainCommit, LookCommit, JoinCommit, RainTipCommit
<1>8. CASE JoinCommit(r) /\ n \in Rounds
  <2>1. rain' = [after EXCEPT ![n] = [after[n] EXCEPT !.joins = after[n].joins \cup {from}]]
    BY <1>3, <1>4, <1>8 DEF JoinCommit
  <2>2. after[n] \in RainRows
    BY <1>4, <1>8
  <2>3. [after[n] EXCEPT !.joins = after[n].joins \cup {from}] \in RainRows
    BY <1>5, <2>2 DEF RainRows
  <2>4. QED  BY <1>2, <1>4, <2>1, <2>3
<1>9. CASE RainTipCommit(r) /\ n \in Rounds
  <2>1. rain' = [after EXCEPT ![n] = [after[n] EXCEPT !.tipped = after[n].tipped + amount]]
    BY <1>3, <1>4, <1>9 DEF RainTipCommit
  <2>2. after[n] \in RainRows
    BY <1>4, <1>9
  <2>3. [after[n] EXCEPT !.tipped = after[n].tipped + amount] \in RainRows
    BY <1>5, <2>2 DEF RainRows
  <2>4. QED  BY <1>2, <1>4, <2>1, <2>3
<1>10. QED  BY <1>6, <1>7, <1>8, <1>9 DEF RainCommit

\* The rain changes by commits of the rain only.
LEMMA RainStepType ==
  ASSUME TypeOK, [Next]_vars
  PROVE  /\ UNCHANGED rain \/ \E r \in Requests : RainCommit(r)
         /\ rain' \in [Rounds -> RainRows]
<1>1. UNCHANGED rain \/ \E r \in Requests : RainCommit(r)
  <2>1. CASE UNCHANGED vars
    BY <2>1 DEF vars
  <2>2. CASE Next
    BY <2>2 DEF Next, Submit, Serve, RolledBack, Redeem, RainStep, RainRefused,
                ReadPrevious, RainCall, RainCommit
  <2>3. QED  BY <2>1, <2>2
<1>2. QED  BY <1>1, RainCommitType DEF TypeOK

\* What a commission does.
LEMMA CommissionType == Commission \in Nat
<1>1. Wager \in Nat
  BY AffiliatesAssumption
<1>2. Wager * 100 \in Nat
  BY <1>1
<1>3. (Wager * 100) \div 10000 \in Nat
  BY <1>2
<1>4. QED  BY <1>3 DEF Commission

CommissionAdded(f, stake) ==
  /\ <<f, stake>> \notin events /\ RowFree(f)
  /\ events' = events \cup {<<f, stake>>} /\ UNCHANGED <<rowsLocked, unpaid, ledger>>
  /\ referral' = [g \in Referrals |-> referral'[g]]
  /\ \A g \in Referrals \ {f} : referral'[g] = referral[g]
  /\ referral'[f] \in ReferralRows
  /\ referral'[f].claimable = referral[f].claimable + Commission
  /\ referral'[f].total = referral[f].total + Commission
  /\ referral'[f].claimed = referral[f].claimed

LEMMA CommissionEffect ==
  ASSUME TypeOK, NEW f \in Referrals, NEW stake, AddCommission(f, stake)
  PROVE  CommissionAdded(f, stake)
<1>1. PICK a \in Nat, b \in Nat, c \in Nat :
        referral[f] = [claimable |-> a, claimed |-> b, total |-> c]
  BY ReferralType DEF ReferralRows
<1>2. PICK d \in Nat : d = Commission
  BY CommissionType
<1>3. referral' = [referral EXCEPT ![f].claimable = a + d, ![f].total = c + d]
  BY <1>1, <1>2 DEF AddCommission, TypeOK
<1>4. PICK half : half = [referral EXCEPT ![f] = [referral[f] EXCEPT !.claimable = a + d]]
  OBVIOUS
<1>5. referral' = [half EXCEPT ![f] = [half[f] EXCEPT !.total = c + d]]
  BY <1>1, <1>3, <1>4 DEF TypeOK
<1>6. half[f] = [claimable |-> a + d, claimed |-> b, total |-> c]
  BY <1>1, <1>4 DEF TypeOK
<1>7. /\ DOMAIN referral' = Referrals
      /\ \A g \in Referrals \ {f} : referral'[g] = referral[g]
      /\ referral'[f] = [claimable |-> a + d, claimed |-> b, total |-> c + d]
  BY <1>4, <1>5, <1>6 DEF TypeOK
<1>8. referral'[f] \in ReferralRows
  BY <1>7 DEF ReferralRows
<1>9. referral' = [g \in Referrals |-> referral'[g]]
  BY <1>4, <1>5 DEF TypeOK
<1>10. QED  BY <1>1, <1>2, <1>7, <1>8, <1>9 DEF CommissionAdded, AddCommission, moneyVars

\* What a claim that pays does to the referrals.
ClaimedAll(r) ==
  /\ DOMAIN referral' = Referrals /\ UNCHANGED events
  /\ rowsLocked' = [rowsLocked EXCEPT ![r] = {}]
  /\ \A f \in Referrals \ Claimable(req[r].from) : referral'[f] = referral[f]
  /\ \A f \in Claimable(req[r].from) :
       /\ referral'[f] \in ReferralRows /\ referral'[f].claimable = 0
       /\ referral'[f].claimed = referral[f].claimed + referral[f].claimable
       /\ referral'[f].total = referral[f].total
  /\ unpaid' = [f \in Referrals |->
       IF f \in Claimable(req[r].from) \ rowsLocked[r] THEN unpaid[f] + referral[f].claimable
                                                      ELSE unpaid[f]]

LEMMA ClaimedEffect ==
  ASSUME TypeOK, NEW r \in Requests, ClaimPay(r)
  PROVE  ClaimedAll(r)
<1>1. ASSUME NEW f \in Referrals
      PROVE  /\ Claimed(referral[f]) \in ReferralRows
             /\ Claimed(referral[f]).claimable = 0
             /\ Claimed(referral[f]).claimed = referral[f].claimed + referral[f].claimable
             /\ Claimed(referral[f]).total = referral[f].total
  <2>1. PICK row \in ReferralRows : row = referral[f]
    BY ReferralType
  <2>2. /\ Claimed(row) \in ReferralRows /\ Claimed(row).claimable = 0
        /\ Claimed(row).claimed = row.claimed + row.claimable
        /\ Claimed(row).total = row.total
    <3>1. PICK a \in Nat, b \in Nat, c \in Nat :
            row = [claimable |-> a, claimed |-> b, total |-> c]
      BY DEF ReferralRows
    <3>2. PICK half : half = [row EXCEPT !.claimed = row.claimed + row.claimable]
      OBVIOUS
    <3>3. half = [claimable |-> a, claimed |-> b + a, total |-> c]
      BY <3>1, <3>2
    <3>4. Claimed(row) = [half EXCEPT !.claimable = 0]
      BY <3>1, <3>2 DEF Claimed
    <3>5. Claimed(row) = [claimable |-> 0, claimed |-> b + a, total |-> c]
      BY <3>3, <3>4
    <3>6. QED  BY <3>1, <3>5 DEF ReferralRows
  <2>3. QED  BY <2>1, <2>2
<1>2. referral' = [f \in Referrals |->
        IF f \in Claimable(req[r].from) THEN Claimed(referral[f]) ELSE referral[f]]
  BY DEF ClaimPay
<1>3. Claimable(req[r].from) \subseteq Referrals
  BY DEF Claimable, Of
<1>4. QED  BY <1>1, <1>2, <1>3 DEF ClaimedAll, ClaimPay

\* What the steps do to the referrals.
ReferralsKept ==
  /\ UNCHANGED <<referral, events, unpaid>>
  /\ \/ UNCHANGED rowsLocked
     \/ \E r \in Requests : rowsLocked' = [rowsLocked EXCEPT ![r] = {}] /\ Answer(r)
     \/ \E r \in Requests : ClaimSum(r) /\ ~Answer(r)

LEMMA ReferralSteps ==
  ASSUME TypeOK, [Next]_vars
  PROVE  \/ ReferralsKept
         \/ \E f \in Referrals, stake \in Stakes : CommissionAdded(f, stake)
         \/ \E r \in Requests : ClaimPay(r) /\ ClaimedAll(r)
<1>1. CASE UNCHANGED vars
  BY <1>1 DEF vars, affiliateVars, ReferralsKept
<1>2. CASE Next
  <2>1. ASSUME NEW r \in Requests, Submit(r)
        PROVE  ReferralsKept
    BY <2>1 DEF Submit, ClaimCall, affiliateVars, ReferralsKept
  <2>2. ASSUME NEW r \in Requests, ClaimSum(r)
        PROVE  ReferralsKept
    <3>1. CASE KeyUsed(req[r].from, req[r].key) \/ Claimable(req[r].from) = {}
      BY <2>2, <3>1 DEF ClaimSum, ReferralsKept
    <3>2. CASE ~(KeyUsed(req[r].from, req[r].key) \/ Claimable(req[r].from) = {})
      <4>1. PICK sum : req' = [req EXCEPT ![r].pc = "pay", ![r].sum = sum]
        BY <2>2, <3>2 DEF ClaimSum
      <4>2. req[r] \in ClaimCalls
        <5>1. req[r] # Idle /\ req[r].op = "CLAIM"
          BY <2>2 DEF ClaimSum, At, Idle
        <5>2. QED  BY <5>1, Shapes
      <4>3. req'[r].pc = "pay"
        <5>1. PICK old \in ClaimCalls : old = req[r]
          BY <4>2
        <5>2. req'[r] = [old EXCEPT !.pc = "pay", !.sum = sum]
          BY <4>1, <5>1 DEF TypeOK
        <5>3. QED  BY <5>2 DEF ClaimCalls
      <4>4. ~Answer(r)
        BY <4>3, AnswerEffect DEF Idle
      <4>5. QED  BY <2>2, <4>4 DEF ClaimSum, ReferralsKept
    <3>3. QED  BY <3>1, <3>2
  <2>3. ASSUME NEW r \in Requests, Serve(r)
        PROVE  ReferralsKept \/ ClaimPay(r)
    BY <2>2, <2>3 DEF Serve, AffiliateStep, affiliateVars, ReferralsKept
  <2>4. ASSUME NEW r \in Requests, RolledBack(r)
        PROVE  ReferralsKept
    BY <2>4 DEF RolledBack, Fail, DeadlockVictim, ReferralsKept
  <2>5. CASE Tick /\ UNCHANGED affiliateVars
    BY <2>5 DEF affiliateVars, ReferralsKept
  <2>6. ASSUME NEW f \in Referrals, NEW stake \in Stakes, AddCommission(f, stake)
        PROVE  CommissionAdded(f, stake)
    BY <2>6, CommissionEffect
  <2>7. ASSUME NEW p \in Promos, NEW w \in Wallets, Redeem(p, w)
        PROVE  ReferralsKept
    BY <2>7 DEF Redeem, affiliateVars, ReferralsKept
  <2>8. QED
    BY <1>2, <2>1, <2>3, <2>4, <2>5, <2>6, <2>7, ClaimedEffect DEF Next
<1>3. QED  BY <1>1, <1>2

LEMMA ReferralStepType ==
  ASSUME TypeOK, [Next]_vars
  PROVE  /\ referral' \in [Referrals -> ReferralRows]
         /\ rowsLocked' \in [Requests -> SUBSET Referrals]
<1>1. /\ referral \in [Referrals -> ReferralRows]
      /\ rowsLocked \in [Requests -> SUBSET Referrals]
  BY DEF TypeOK
<1>2. CASE ReferralsKept
  <2>1. ASSUME NEW r \in Requests, ClaimSum(r), ~Answer(r)
        PROVE  rowsLocked' \in [Requests -> SUBSET Referrals]
    <3>1. PICK call : Summed(r, call)
      BY <2>1, ClaimSumEffect
    <3>2. rowsLocked' = [rowsLocked EXCEPT ![r] = Claimable(call.from)]
      BY <3>1 DEF Summed
    <3>3. Claimable(call.from) \subseteq Referrals
      BY DEF Claimable, Of
    <3>4. QED  BY <1>1, <3>2, <3>3
  <2>2. ASSUME NEW r \in Requests, rowsLocked' = [rowsLocked EXCEPT ![r] = {}]
        PROVE  rowsLocked' \in [Requests -> SUBSET Referrals]
    BY <1>1, <2>2
  <2>3. QED  BY <1>1, <1>2, <2>1, <2>2 DEF ReferralsKept
<1>3. ASSUME NEW f \in Referrals, NEW stake \in Stakes, CommissionAdded(f, stake)
      PROVE  /\ referral' \in [Referrals -> ReferralRows]
             /\ rowsLocked' \in [Requests -> SUBSET Referrals]
  <2>1. /\ \A g \in Referrals \ {f} : referral'[g] = referral[g]
        /\ referral'[f] \in ReferralRows /\ UNCHANGED rowsLocked
    BY <1>3 DEF CommissionAdded
  <2>2. referral' = [g \in Referrals |-> referral'[g]]
    BY <1>3 DEF CommissionAdded
  <2>3. QED  BY <1>1, <2>1, <2>2
<1>4. ASSUME NEW r \in Requests, ClaimPay(r), ClaimedAll(r)
      PROVE  /\ referral' \in [Referrals -> ReferralRows]
             /\ rowsLocked' \in [Requests -> SUBSET Referrals]
  <2>1. rowsLocked' = [rowsLocked EXCEPT ![r] = {}]
    BY <1>4 DEF ClaimedAll
  <2>2. \A f \in Referrals : referral'[f] \in ReferralRows
    BY <1>1, <1>4 DEF ClaimedAll
  <2>3. referral' = [f \in Referrals |-> referral'[f]]
    BY <1>4 DEF ClaimPay
  <2>4. QED  BY <1>1, <2>1, <2>2, <2>3
<1>5. QED  BY <1>2, <1>3, <1>4, ReferralSteps

LEMMA ClockStep ==
  ASSUME TypeOK, [Next]_vars
  PROVE  clock' \in Times /\ clock' >= clock
<1>1. clock \in Times /\ MaxClock \in Nat
  BY WalletLocksAssumption DEF TypeOK
<1>2. UNCHANGED clock \/ Tick
  <2>1. ASSUME NEW r \in Requests, Submit(r)
        PROVE  UNCHANGED clock
    BY <2>1 DEF Submit, TipCall, RainCall, DepositCall, WithdrawCall, ClaimCall, Start
  <2>2. ASSUME NEW r \in Requests, Serve(r)
        PROVE  UNCHANGED clock
    BY <2>2 DEF Serve, LockWallet, TipCommit, RainStep, ReadPrevious, LookCommit, JoinCommit,
                RainTipCommit, RainRefused, VaultStep, SettleMatured, VaultDebit, VaultCredit,
                ReadBalance, ReadLocks, TakeFromVault, VaultPay, AffiliateStep, ClaimSum,
                ClaimPay
  <2>3. ASSUME NEW r \in Requests, RolledBack(r)
        PROVE  UNCHANGED clock
    BY <2>3 DEF RolledBack, Fail, DeadlockVictim
  <2>4. ASSUME \/ UNCHANGED vars
               \/ \E f \in Referrals, stake \in Stakes : AddCommission(f, stake)
               \/ \E p \in Promos, w \in Wallets : Redeem(p, w)
        PROVE  UNCHANGED clock
    BY <2>4 DEF vars, callVars, AddCommission, Redeem
  <2>5. QED  BY <2>1, <2>2, <2>3, <2>4 DEF Next
<1>3. CASE Tick
  BY <1>1, <1>3 DEF Tick, Times
<1>4. QED  BY <1>1, <1>2, <1>3 DEF Times

-----------------------------------------------------------------------------
(***************************************************************************)
(* The ledgers.                                                            *)
(***************************************************************************)

Unbroken(rows, balance) ==
  rows \in Seq(Elements(rows)) /\ ChainFrom(rows, balance) /\ KeysDistinct(rows)

LEMMA RowFollows ==
  ASSUME NEW rows, NEW balance, NEW entry, Unbroken(rows, balance),
         NextRow(rows, balance, entry)
  PROVE  Unbroken(Append(rows, entry), entry.after)
BY LedgerGrows DEF Unbroken, NextRow

LEMMA LedgerStep ==
  ASSUME MoneyInv, NEW w \in Wallets, Continues(w)
  PROVE  Unbroken(ledger'[w], wallet'[w].balance)
<1>1. Unbroken(ledger[w], wallet[w].balance)
  BY DEF MoneyInv, TypeOK, LedgerContinuity, Unbroken
<1>2. CASE Kept(w)
  BY <1>1, <1>2 DEF Kept
<1>3. ASSUME NEW entry, PostsOne(w, entry)
      PROVE  Unbroken(ledger'[w], wallet'[w].balance)
  <2>1. Unbroken(Append(ledger[w], entry), entry.after)
    BY <1>1, <1>3, RowFollows DEF PostsOne
  <2>2. QED  BY <1>3, <2>1 DEF PostsOne
<1>4. ASSUME NEW first, NEW second, PostsTwo(w, first, second)
      PROVE  Unbroken(ledger'[w], wallet'[w].balance)
  <2>1. Unbroken(Append(ledger[w], first), first.after)
    BY <1>1, <1>4, RowFollows DEF PostsTwo
  <2>2. Unbroken(Append(Append(ledger[w], first), second), second.after)
    BY <1>4, <2>1, RowFollows DEF PostsTwo
  <2>3. QED  BY <1>4, <2>2 DEF PostsTwo
<1>5. QED  BY <1>2, <1>3, <1>4 DEF Continues

LEMMA MoneyStep ==
  ASSUME MoneyInv, [Next]_vars
  PROVE  MoneyInv'
<1>1. TypeOK
  BY DEF MoneyInv
<1>2. Kind
  BY StepKind
<1>3. \A w \in Wallets : Unbroken(ledger'[w], wallet'[w].balance)
  BY <1>2, LedgerStep DEF Kind
<1>4. TypeOK'
  <2>1. wallet' \in [Wallets -> WalletRows] /\ DOMAIN ledger' = Wallets
    BY <1>2 DEF Kind, MoneyTyped
  <2>2. CallsTyped
    BY <1>1, <1>2, KindTyped
  <2>3. clock' \in Times
    BY <1>1, ClockStep
  <2>4. rain' \in [Rounds -> RainRows]
    BY <1>1, RainStepType
  <2>5. /\ referral' \in [Referrals -> ReferralRows]
        /\ rowsLocked' \in [Requests -> SUBSET Referrals]
    BY <1>1, ReferralStepType
  <2>6. QED
    BY <1>3, <2>1, <2>2, <2>3, <2>4, <2>5 DEF TypeOK, CallsTyped, Unbroken
<1>5. LocksHold' /\ ClaimsFresh'
  BY <1>2, LocksStep, ClaimsStep
<1>6. LedgerContinuity'
  BY <1>3 DEF LedgerContinuity, Unbroken
<1>7. QED  BY <1>4, <1>5, <1>6 DEF MoneyInv

LEMMA InitMoney ==
  ASSUME Init
  PROVE  MoneyInv
<1>1. /\ wallet = [w \in Wallets |-> [balance |-> Funds, locked |-> 0, wager |-> 0]]
      /\ ledger = [w \in Wallets |->
           << Entry("ADJUST", "CREDIT", Funds, 0, Funds, <<"funds">>, NoRef) >>]
      /\ walletLock = [w \in Wallets |-> NoRequest]
      /\ req = [r \in Requests |-> Idle] /\ clock = 0
      /\ \A n \in Rounds : rain[n] \in RainRows
      /\ rain = [n \in Rounds |-> rain[n]]
      /\ referral = [f \in Referrals |-> [claimable |-> 0, claimed |-> 0, total |-> 0]]
      /\ rowsLocked = [r \in Requests |-> {}]
  BY RainAssumption DEF Init, CallsInit, RainInit, AffiliatesInit, NoRain, RainRows
<1>2. Funds \in 0..BigintMax
  BY WalletLocksAssumption, BigintAssumption
<1>3. \A w \in Wallets : Unbroken(ledger[w], wallet[w].balance)
  <2> TAKE w \in Wallets
  <2>1. PICK e : e = Entry("ADJUST", "CREDIT", Funds, 0, Funds, <<"funds">>, NoRef)
    OBVIOUS
  <2>2. e.before = 0 /\ e.after = Funds
    BY <2>1, EntryFields
  <2>3. ledger[w] = <<e>> /\ wallet[w].balance = Funds
    BY <1>1, <2>1
  <2>4. /\ <<e>> \in Seq({e}) /\ Len(<<e>>) = 1 /\ <<e>>[1] = e /\ <<e>> # <<>>
        /\ DOMAIN <<e>> = {1}
    OBVIOUS
  <2>5. <<e>> \in Seq(Elements(<<e>>))
    BY <2>4, ElementsOfSeq
  <2>6. Unbroken(<<e>>, Funds)
    BY <2>2, <2>4, <2>5 DEF Unbroken, ChainFrom, KeysDistinct
  <2>7. QED  BY <2>3, <2>6
<1>4. TypeOK
  <2>1. \A w \in Wallets : ledger[w] \in Seq(Elements(ledger[w]))
    BY <1>3 DEF Unbroken
  <2>2. wallet \in [Wallets -> WalletRows] /\ DOMAIN ledger = Wallets
    BY <1>1, <1>2, BigintAssumption DEF WalletRows
  <2>3. clock \in Times
    BY <1>1, WalletLocksAssumption DEF Times
  <2>4. rain \in [Rounds -> RainRows]
    BY <1>1
  <2>5. referral \in [Referrals -> ReferralRows]
    BY <1>1 DEF ReferralRows
  <2>6. QED  BY <1>1, <2>1, <2>2, <2>3, <2>4, <2>5 DEF TypeOK
<1>5. \A r \in Requests : req[r] = Idle /\ ~Open(req[r])
  BY <1>1 DEF Open
<1>6. LocksHold
  BY <1>1, <1>5 DEF LocksHold
<1>7. ClaimsFresh
  BY <1>5 DEF ClaimsFresh
<1>8. LedgerContinuity
  BY <1>3 DEF LedgerContinuity, Unbroken
<1>9. QED  BY <1>4, <1>6, <1>7, <1>8 DEF MoneyInv

-----------------------------------------------------------------------------

\* Every reachable state satisfies the inductive invariant of the locks.
THEOREM Disciplined == Spec => []MoneyInv
<1>1. Init => MoneyInv
  BY InitMoney
<1>2. MoneyInv /\ [Next]_vars => MoneyInv'
  BY MoneyStep
<1>3. QED  BY <1>1, <1>2, PTL DEF Spec

\* Whatever mix of tips, rains, vault movements, claims and codes writes a wallet,
\* its rows form one chain of balances with distinct keys: no transaction writes
\* a balance computed from one that was not the last.
THEOREM ContinuousLedgers == Spec => []LedgerContinuity
<1>1. MoneyInv => LedgerContinuity
  BY DEF MoneyInv
<1>2. QED  BY <1>1, Disciplined, PTL

-----------------------------------------------------------------------------
(***************************************************************************)
(* The rows a step adds.                                                   *)
(***************************************************************************)

LEMMA OneRowMore ==
  ASSUME NEW rows, rows \in Seq(Elements(rows)), NEW entry
  PROVE  /\ DOMAIN Append(rows, entry) = DOMAIN rows \cup {Len(rows) + 1}
         /\ Len(rows) + 1 \notin DOMAIN rows
         /\ Append(rows, entry)[Len(rows) + 1] = entry
         /\ \A i \in DOMAIN rows : Append(rows, entry)[i] = rows[i]
<1> PICK more : more = Append(rows, entry)
  OBVIOUS
<1>1. /\ Len(rows) \in Nat /\ DOMAIN rows = 1..Len(rows)
      /\ DOMAIN more = 1..(Len(rows) + 1)
      /\ \A i \in 1..Len(rows) : more[i] = rows[i]
      /\ more[Len(rows) + 1] = entry
  BY LedgerGrows
<1>2. 1..(Len(rows) + 1) = 1..Len(rows) \cup {Len(rows) + 1}
  BY <1>1
<1>3. QED  BY <1>1, <1>2

NewRows(w) == DOMAIN ledger'[w] \ DOMAIN ledger[w]

RowsStay(w) ==
  DOMAIN ledger[w] \subseteq DOMAIN ledger'[w]
    /\ \A i \in DOMAIN ledger[w] : ledger'[w][i] = ledger[w][i]

LEMMA OneNewRow ==
  ASSUME TypeOK, NEW w \in Wallets, NEW entry, ledger'[w] = Append(ledger[w], entry)
  PROVE  /\ RowsStay(w)
         /\ \E k : NewRows(w) = {k} /\ k \notin DOMAIN ledger[w] /\ ledger'[w][k] = entry
                   /\ DOMAIN ledger'[w] = DOMAIN ledger[w] \cup {k}
<1>1. PICK rows : rows = ledger[w] /\ rows \in Seq(Elements(rows))
  BY DEF TypeOK
<1>2. /\ DOMAIN Append(rows, entry) = DOMAIN rows \cup {Len(rows) + 1}
      /\ Len(rows) + 1 \notin DOMAIN rows
      /\ Append(rows, entry)[Len(rows) + 1] = entry
      /\ \A i \in DOMAIN rows : Append(rows, entry)[i] = rows[i]
  BY <1>1, OneRowMore
<1>3. QED  BY <1>1, <1>2 DEF NewRows, RowsStay

LEMMA TwoNewRows ==
  ASSUME TypeOK, NEW w \in Wallets, NEW first, NEW second,
         ledger'[w] = Append(Append(ledger[w], first), second)
  PROVE  RowsStay(w) /\ \A i \in NewRows(w) : ledger'[w][i] \in {first, second}
<1>1. PICK rows, more : /\ rows = ledger[w] /\ rows \in Seq(Elements(rows))
                        /\ more = Append(rows, first)
  BY DEF TypeOK
<1>2. /\ DOMAIN more = DOMAIN rows \cup {Len(rows) + 1}
      /\ more[Len(rows) + 1] = first
      /\ \A i \in DOMAIN rows : more[i] = rows[i]
  BY <1>1, OneRowMore
<1>3. more \in Seq(Elements(more))
  BY <1>1, LedgerGrows
<1>4. /\ DOMAIN Append(more, second) = DOMAIN more \cup {Len(more) + 1}
      /\ Append(more, second)[Len(more) + 1] = second
      /\ \A i \in DOMAIN more : Append(more, second)[i] = more[i]
  BY <1>3, OneRowMore
<1>5. QED  BY <1>1, <1>2, <1>4 DEF NewRows, RowsStay

LEMMA RowsKept ==
  ASSUME TypeOK, NEW w \in Wallets, Continues(w)
  PROVE  RowsStay(w)
<1>1. CASE Kept(w)
  BY <1>1 DEF Kept, RowsStay
<1>2. ASSUME NEW entry, ledger'[w] = Append(ledger[w], entry)
      PROVE  RowsStay(w)
  BY <1>2, OneNewRow, Zenon
<1>3. ASSUME NEW first, NEW second, ledger'[w] = Append(Append(ledger[w], first), second)
      PROVE  RowsStay(w)
  BY <1>3, TwoNewRows, Zenon
<1>4. QED  BY <1>1, <1>2, <1>3 DEF Continues, PostsOne, PostsTwo

LEMMA PlainRows ==
  ASSUME TypeOK, NEW w \in Wallets, PlainGrowth(w), NEW i \in NewRows(w)
  PROVE  Plain(ledger'[w][i])
<1>1. ledger'[w] # ledger[w]
  BY DEF NewRows
<1>2. ASSUME NEW entry, Plain(entry), ledger'[w] = Append(ledger[w], entry)
      PROVE  Plain(ledger'[w][i])
  <2>1. PICK k : NewRows(w) = {k} /\ ledger'[w][k] = entry
    BY <1>2, OneNewRow, Zenon
  <2>2. QED  BY <1>2, <2>1
<1>3. ASSUME NEW first, NEW second, Plain(first), Plain(second),
             ledger'[w] = Append(Append(ledger[w], first), second)
      PROVE  Plain(ledger'[w][i])
  <2>1. \A k \in NewRows(w) : ledger'[w][k] \in {first, second}
    BY <1>3, TwoNewRows, Zenon
  <2>2. QED  BY <1>3, <2>1
<1>4. QED  BY <1>1, <1>2, <1>3 DEF PlainGrowth

LEMMA PostedRow ==
  ASSUME TypeOK, NEW w \in Wallets, NEW entry, PostsOne(w, entry)
  PROVE  /\ RowsStay(w)
         /\ \E k : NewRows(w) = {k} /\ k \notin DOMAIN ledger[w] /\ ledger'[w][k] = entry
                   /\ DOMAIN ledger'[w] = DOMAIN ledger[w] \cup {k}
BY OneNewRow DEF PostsOne

LEMMA NoNewRow ==
  ASSUME NEW w, Kept(w)
  PROVE  NewRows(w) = {}
BY DEF Kept, NewRows

\* A new row is a plain one, or the one row of a tip, a claim or a code.
LEMMA RowKinds ==
  ASSUME TypeOK, Growth, NEW w \in Wallets, NEW i \in NewRows(w)
  PROVE  \/ Plain(ledger'[w][i])
         \/ \E r \in Requests :
              /\ TipPosted(r)
              /\ \/ w = req[r].from /\ TipRow(ledger'[w][i], r, "DEBIT")
                 \/ w = req[r].to /\ TipRow(ledger'[w][i], r, "CREDIT")
         \/ \E r \in Requests :
              /\ ClaimPay(r) /\ ClaimPosted(r) /\ w = req[r].from
              /\ ledger'[w][i].reason = "BONUS" /\ ledger'[w][i].ref = "claim"
         \/ \E p :
              /\ CodePosted(p, w)
              /\ ledger'[w][i].reason = "BONUS" /\ ledger'[w][i].ref = p
<1>1. CASE \A x \in Wallets : PlainGrowth(x)
  BY <1>1, PlainRows
<1>2. ASSUME NEW r \in Requests, TipPosted(r)
      PROVE  \/ w = req[r].from /\ TipRow(ledger'[w][i], r, "DEBIT")
             \/ w = req[r].to /\ TipRow(ledger'[w][i], r, "CREDIT")
  <2>1. PICK debit, credit :
          /\ PostsOne(req[r].from, debit) /\ TipRow(debit, r, "DEBIT")
          /\ PostsOne(req[r].to, credit) /\ TipRow(credit, r, "CREDIT")
    BY <1>2 DEF TipPosted
  <2>2. w = req[r].from \/ w = req[r].to
    BY <1>2, NoNewRow DEF TipPosted
  <2>3. CASE w = req[r].from
    BY <2>1, <2>3, PostedRow
  <2>4. CASE w = req[r].to
    BY <2>1, <2>4, PostedRow
  <2>5. QED  BY <2>2, <2>3, <2>4
<1>3. ASSUME NEW r \in Requests, ClaimPay(r), ClaimPosted(r)
      PROVE  /\ w = req[r].from
             /\ ledger'[w][i].reason = "BONUS" /\ ledger'[w][i].ref = "claim"
  <2>1. PICK entry : /\ PostsOne(req[r].from, entry)
                     /\ entry.reason = "BONUS" /\ entry.ref = "claim"
    BY <1>3 DEF ClaimPosted
  <2>2. w = req[r].from
    BY <1>3, NoNewRow DEF ClaimPosted
  <2>3. QED  BY <2>1, <2>2, PostedRow
<1>4. ASSUME NEW p, NEW x, CodePosted(p, x)
      PROVE  /\ CodePosted(p, w)
             /\ ledger'[w][i].reason = "BONUS" /\ ledger'[w][i].ref = p
  <2>1. PICK entry : /\ PostsOne(x, entry) /\ entry.reason = "BONUS" /\ entry.ref = p
    BY <1>4 DEF CodePosted
  <2>2. w = x
    BY <1>4, NoNewRow DEF CodePosted
  <2>3. QED  BY <1>4, <2>1, <2>2, PostedRow
<1>5. QED  BY <1>1, <1>2, <1>3, <1>4 DEF Growth

-----------------------------------------------------------------------------
(***************************************************************************)
(* Tips.                                                                   *)
(***************************************************************************)

\* The recipient of a tip has the row the sender's row stands for.
TipArrived(w, i) ==
  LET row == ledger[w][i]
      to == row.ref[2]
  IN /\ to \in Wallets
     /\ \E j \in TipRows(to, "CREDIT") : /\ ledger[to][j].key = row.key
                                         /\ ledger[to][j].amount = row.amount

TipsInv == \A w \in Wallets : \A i \in TipRows(w, "DEBIT") : TipArrived(w, i)

LEMMA TipsStep ==
  ASSUME TypeOK, TipsInv, Growth, \A w \in Wallets : Continues(w)
  PROVE  TipsInv'
<1>1. \A w \in Wallets : RowsStay(w)
  BY RowsKept
<1> SUFFICES ASSUME NEW w \in Wallets, NEW i \in DOMAIN ledger'[w],
                    ledger'[w][i].reason = "USER_TIP", ledger'[w][i].direction = "DEBIT"
             PROVE  /\ ledger'[w][i].ref[2] \in Wallets
                    /\ \E j \in DOMAIN ledger'[ledger'[w][i].ref[2]] :
                         LET row == ledger'[ledger'[w][i].ref[2]][j]
                         IN /\ row.reason = "USER_TIP" /\ row.direction = "CREDIT"
                            /\ row.key = ledger'[w][i].key
                            /\ row.amount = ledger'[w][i].amount
  BY DEF TipsInv, TipRows, TipArrived
<1>2. CASE i \in DOMAIN ledger[w]
  <2>1. ledger'[w][i] = ledger[w][i]
    BY <1>1, <1>2 DEF RowsStay
  <2>2. PICK to, j :
          /\ to = ledger[w][i].ref[2] /\ to \in Wallets /\ j \in DOMAIN ledger[to]
          /\ ledger[to][j].reason = "USER_TIP" /\ ledger[to][j].direction = "CREDIT"
          /\ ledger[to][j].key = ledger[w][i].key
          /\ ledger[to][j].amount = ledger[w][i].amount
    BY <1>2, <2>1 DEF TipsInv, TipRows, TipArrived
  <2>3. j \in DOMAIN ledger'[to] /\ ledger'[to][j] = ledger[to][j]
    BY <1>1, <2>2 DEF RowsStay
  <2>4. QED  BY <2>1, <2>2, <2>3
<1>3. CASE i \notin DOMAIN ledger[w]
  <2>1. PICK row : row = ledger'[w][i]
    OBVIOUS
  <2>2. i \in NewRows(w) /\ row.reason = "USER_TIP" /\ row.direction = "DEBIT"
    BY <1>3, <2>1 DEF NewRows
  <2>3. PICK r \in Requests : TipPosted(r) /\ TipRow(row, r, "DEBIT")
    <3>1. ~Plain(row)
      BY <2>2 DEF Plain
    <3>2. \A r \in Requests : ~TipRow(row, r, "CREDIT")
      BY <2>2 DEF TipRow
    <3>3. QED  BY <2>1, <2>2, <3>1, <3>2, RowKinds
  <2>4. PICK to, credit :
          /\ to = req[r].to /\ to \in Wallets
          /\ PostsOne(to, credit) /\ TipRow(credit, r, "CREDIT")
    BY <2>3 DEF TipPosted
  <2>5. PICK k \in DOMAIN ledger'[to] : ledger'[to][k] = credit
    BY <2>4, PostedRow DEF NewRows
  <2>6. row.ref[2] = to
    BY <2>3, <2>4 DEF TipRow
  <2>7. QED  BY <2>1, <2>3, <2>4, <2>5, <2>6 DEF TipRow
<1>4. QED  BY <1>2, <1>3

LEMMA TipsInit ==
  ASSUME Init
  PROVE  TipsInv
<1> SUFFICES ASSUME NEW w \in Wallets, NEW i \in DOMAIN ledger[w]
             PROVE  ledger[w][i].reason # "USER_TIP"
  BY DEF TipsInv, TipRows
<1>1. PICK e : e = Entry("ADJUST", "CREDIT", Funds, 0, Funds, <<"funds">>, NoRef)
  OBVIOUS
<1>2. ledger[w] = <<e>> /\ e.reason = "ADJUST"
  BY <1>1, EntryFields DEF Init, CallsInit
<1>3. QED  BY <1>2

\* One row at most has a key, so a tip that arrived arrived once.
LEMMA TipsOnce ==
  ASSUME MoneyInv, TipsInv
  PROVE  TipsArrive
<1> SUFFICES ASSUME NEW w \in Wallets, NEW i \in TipRows(w, "DEBIT")
             PROVE  LET row == ledger[w][i]
                        to == row.ref[2]
                    IN Cardinality({j \in TipRows(to, "CREDIT") :
                                      /\ ledger[to][j].key = row.key
                                      /\ ledger[to][j].amount = row.amount}) = 1
  BY DEF TipsArrive
<1>1. PICK row, to : row = ledger[w][i] /\ to = row.ref[2]
  OBVIOUS
<1>2. PICK j : /\ j \in TipRows(to, "CREDIT") /\ to \in Wallets
               /\ ledger[to][j].key = row.key /\ ledger[to][j].amount = row.amount
  BY <1>1 DEF TipsInv, TipArrived
<1>3. KeysDistinct(ledger[to]) /\ j \in DOMAIN ledger[to]
  BY <1>2 DEF MoneyInv, LedgerContinuity, TipRows
<1>4. {k \in TipRows(to, "CREDIT") : /\ ledger[to][k].key = row.key
                                     /\ ledger[to][k].amount = row.amount} = {j}
  BY <1>2, <1>3 DEF TipRows, KeysDistinct
<1>5. Cardinality({j}) = 1
  BY FS_Singleton
<1>6. QED  BY <1>1, <1>4, <1>5

-----------------------------------------------------------------------------
(***************************************************************************)
(* Promo codes.                                                            *)
(***************************************************************************)

Pairs(rows) == UNION {{w} \X DOMAIN rows[w] : w \in Wallets}

LEMMA PairsOf ==
  ASSUME NEW rows, NEW x
  PROVE  x \in Pairs(rows) <=>
           \E w \in Wallets : \E i \in DOMAIN rows[w] : x = <<w, i>>
BY DEF Pairs

IsReward(row, p) == row.reason = "BONUS" /\ row.ref = p

LEMMA RewardPairs ==
  ASSUME NEW p
  PROVE  /\ RewardRows(p) = {x \in Pairs(ledger) : IsReward(ledger[x[1]][x[2]], p)}
         /\ RewardRows(p)' = {x \in Pairs(ledger') : IsReward(ledger'[x[1]][x[2]], p)}
BY DEF RewardRows, Pairs, IsReward

PromoInv ==
  /\ usageCount \in [Promos -> Nat] /\ redeemed \in [Promos -> SUBSET Wallets]
  /\ \A p \in Promos : IsFiniteSet(RewardRows(p))
  /\ RewardsCounted

\* What is counted for one code.
CodeCounted(p, rows, paid, count, users) ==
  /\ count <= UsageLimit[p] /\ count = Cardinality(users)
  /\ IsFiniteSet(rows) /\ Cardinality(rows) = count
  /\ \A x \in rows : x[1] \in users /\ paid[x[1]][x[2]].amount = Reward[p]

LEMMA CodesCounted ==
  /\ PromoInv <=> /\ usageCount \in [Promos -> Nat]
                  /\ redeemed \in [Promos -> SUBSET Wallets]
                  /\ \A p \in Promos : CodeCounted(p, RewardRows(p), ledger, usageCount[p],
                                                   redeemed[p])
  /\ PromoInv' <=> /\ usageCount' \in [Promos -> Nat]
                   /\ redeemed' \in [Promos -> SUBSET Wallets]
                   /\ \A p \in Promos : CodeCounted(p, RewardRows(p)', ledger', usageCount'[p],
                                                    redeemed'[p])
<1>1. PromoInv <=> /\ usageCount \in [Promos -> Nat]
                   /\ redeemed \in [Promos -> SUBSET Wallets]
                   /\ \A p \in Promos : CodeCounted(p, RewardRows(p), ledger, usageCount[p],
                                                    redeemed[p])
  BY DEF PromoInv, RewardsCounted, CodeCounted
<1>2. PromoInv' <=> /\ usageCount' \in [Promos -> Nat]
                    /\ redeemed' \in [Promos -> SUBSET Wallets]
                    /\ \A p \in Promos : CodeCounted(p, RewardRows(p)', ledger', usageCount'[p],
                                                     redeemed'[p])
  BY DEF PromoInv, RewardsCounted, CodeCounted
<1>3. QED  BY <1>1, <1>2

\* The rewards of a code whose ledgers get no row of it.
LEMMA RewardsSame ==
  ASSUME TypeOK, NEW p, \A w \in Wallets : RowsStay(w),
         \A w \in Wallets : \A i \in NewRows(w) : ~IsReward(ledger'[w][i], p)
  PROVE  /\ RewardRows(p)' = RewardRows(p)
         /\ \A x \in RewardRows(p) : ledger'[x[1]][x[2]] = ledger[x[1]][x[2]]
<1>1. ASSUME NEW x \in RewardRows(p)
      PROVE  x \in RewardRows(p)' /\ ledger'[x[1]][x[2]] = ledger[x[1]][x[2]]
  <2>1. PICK w, i : /\ w \in Wallets /\ i \in DOMAIN ledger[w] /\ x = <<w, i>>
                    /\ IsReward(ledger[w][i], p)
    BY RewardPairs, PairsOf
  <2>2. i \in DOMAIN ledger'[w] /\ ledger'[w][i] = ledger[w][i]
    BY <2>1 DEF RowsStay
  <2>3. x \in Pairs(ledger')
    BY <2>1, <2>2, PairsOf
  <2>4. QED  BY <2>1, <2>2, <2>3, RewardPairs
<1>2. ASSUME NEW x \in RewardRows(p)'
      PROVE  x \in RewardRows(p)
  <2>1. PICK w, i : /\ w \in Wallets /\ i \in DOMAIN ledger'[w] /\ x = <<w, i>>
                    /\ IsReward(ledger'[w][i], p)
    BY RewardPairs, PairsOf
  <2>2. i \in DOMAIN ledger[w] /\ ledger'[w][i] = ledger[w][i]
    BY <2>1 DEF RowsStay, NewRows
  <2>3. x \in Pairs(ledger)
    BY <2>1, <2>2, PairsOf
  <2>4. QED  BY <2>1, <2>2, <2>3, RewardPairs
<1>3. QED  BY <1>1, <1>2

\* A code that is redeemed gets one reward more.
LEMMA RewardAdded ==
  ASSUME TypeOK, NEW p, NEW w, CodePosted(p, w)
  PROVE  \E k : /\ <<w, k>> \notin RewardRows(p)
                /\ RewardRows(p)' = RewardRows(p) \cup {<<w, k>>}
                /\ ledger'[w][k].amount = Reward[p]
                /\ \A x \in RewardRows(p) : ledger'[x[1]][x[2]] = ledger[x[1]][x[2]]
<1>1. PICK entry : /\ w \in Wallets /\ PostsOne(w, entry)
                   /\ entry.reason = "BONUS" /\ entry.ref = p /\ entry.amount = Reward[p]
                   /\ \A x \in Wallets \ {w} : Kept(x)
  BY DEF CodePosted
<1>2. PICK k : /\ k \notin DOMAIN ledger[w] /\ ledger'[w][k] = entry
               /\ DOMAIN ledger'[w] = DOMAIN ledger[w] \cup {k}
  BY <1>1, PostedRow
<1>3. RowsStay(w)
  BY <1>1, PostedRow
<1>4. <<w, k>> \notin RewardRows(p)
  BY <1>2, RewardPairs, PairsOf
<1>5. <<w, k>> \in RewardRows(p)'
  <2>1. <<w, k>> \in Pairs(ledger')
    BY <1>1, <1>2, PairsOf
  <2>2. IsReward(ledger'[w][k], p)
    BY <1>1, <1>2 DEF IsReward
  <2>3. QED  BY <2>1, <2>2, RewardPairs
<1>6. ASSUME NEW x \in RewardRows(p)
      PROVE  x \in RewardRows(p)' /\ ledger'[x[1]][x[2]] = ledger[x[1]][x[2]]
  <2>1. PICK v, i : /\ v \in Wallets /\ i \in DOMAIN ledger[v] /\ x = <<v, i>>
                    /\ IsReward(ledger[v][i], p)
    BY RewardPairs, PairsOf
  <2>2. i \in DOMAIN ledger'[v] /\ ledger'[v][i] = ledger[v][i]
    BY <1>1, <1>3, <2>1 DEF RowsStay, Kept
  <2>3. x \in Pairs(ledger')
    BY <2>1, <2>2, PairsOf
  <2>4. QED  BY <2>1, <2>2, <2>3, RewardPairs
<1>7. ASSUME NEW x \in RewardRows(p)', x # <<w, k>>
      PROVE  x \in RewardRows(p)
  <2>1. PICK v, i : /\ v \in Wallets /\ i \in DOMAIN ledger'[v] /\ x = <<v, i>>
                    /\ IsReward(ledger'[v][i], p)
    BY RewardPairs, PairsOf
  <2>2. i \in DOMAIN ledger[v] /\ ledger'[v][i] = ledger[v][i]
    BY <1>1, <1>2, <1>3, <1>7, <2>1 DEF RowsStay, Kept
  <2>3. x \in Pairs(ledger)
    BY <2>1, <2>2, PairsOf
  <2>4. QED  BY <2>1, <2>2, <2>3, RewardPairs
<1>8. QED  BY <1>1, <1>2, <1>4, <1>5, <1>6, <1>7

LEMMA PromoStep ==
  ASSUME MoneyInv, PromoInv, [Next]_vars
  PROVE  PromoInv'
<1>1. TypeOK /\ Growth /\ \A w \in Wallets : Continues(w) /\ RowsStay(w)
  BY StepKind, RowsKept DEF MoneyInv, Kind
<1>2. /\ usageCount \in [Promos -> Nat] /\ redeemed \in [Promos -> SUBSET Wallets]
      /\ \A p \in Promos : CodeCounted(p, RewardRows(p), ledger, usageCount[p], redeemed[p])
  BY CodesCounted
<1>3. ASSUME NEW q \in Promos, UNCHANGED <<usageCount[q], redeemed[q]>>,
             \A w \in Wallets : ~CodePosted(q, w)
      PROVE  CodeCounted(q, RewardRows(q)', ledger', usageCount'[q], redeemed'[q])
  <2>1. ASSUME NEW w \in Wallets, NEW i \in NewRows(w)
        PROVE  ~IsReward(ledger'[w][i], q)
    BY <1>1, <1>3, RowKinds, TransfersAssumption DEF IsReward, Plain, TipRow
  <2>2. /\ RewardRows(q)' = RewardRows(q)
        /\ \A x \in RewardRows(q) : ledger'[x[1]][x[2]] = ledger[x[1]][x[2]]
    BY <1>1, <2>1, RewardsSame
  <2>3. QED  BY <1>2, <1>3, <2>2 DEF CodeCounted
<1>4. CASE \E p \in Promos, w \in Wallets : Redeem(p, w)
  <2>1. PICK p \in Promos, w \in Wallets : Redeem(p, w)
    BY <1>4
  <2>2. /\ usageCount[p] < UsageLimit[p] /\ w \notin redeemed[p]
        /\ usageCount' = [usageCount EXCEPT ![p] = usageCount[p] + 1]
        /\ redeemed' = [redeemed EXCEPT ![p] = redeemed[p] \cup {w}]
    BY <1>2, <2>1 DEF Redeem, RedeemPromoCode, Redeemable
  <2>3. CodePosted(p, w)
    BY <1>1, <2>1, RedeemKind
  <2>4. PICK k : /\ <<w, k>> \notin RewardRows(p)
                 /\ RewardRows(p)' = RewardRows(p) \cup {<<w, k>>}
                 /\ ledger'[w][k].amount = Reward[p]
                 /\ \A x \in RewardRows(p) : ledger'[x[1]][x[2]] = ledger[x[1]][x[2]]
    BY <1>1, <2>3, RewardAdded
  <2>5. CodeCounted(p, RewardRows(p)', ledger', usageCount'[p], redeemed'[p])
    <3>1. PICK n, users, rows, more :
            /\ n \in Nat /\ users \subseteq Wallets
            /\ n = usageCount[p] /\ users = redeemed[p]
            /\ rows = RewardRows(p) /\ more = rows \cup {<<w, k>>}
      BY <1>2
    <3>2. CodeCounted(p, rows, ledger, n, users)
      BY <1>2, <3>1
    <3>3. IsFiniteSet(users) /\ UsageLimit[p] \in Nat
      BY <3>1, WalletLocksAssumption, FS_Subset, PromoAssumption
    <3>4. Cardinality(users \cup {w}) = n + 1
      <4>1. n = Cardinality(users) /\ w \notin users
        BY <2>2, <3>1, <3>2 DEF CodeCounted
      <4>2. QED  BY <3>3, <4>1, FS_AddElement
    <3>5. IsFiniteSet(more) /\ Cardinality(more) = n + 1
      BY <2>4, <3>1, <3>2, FS_AddElement DEF CodeCounted
    <3>6. \A x \in more : x[1] \in users \cup {w} /\ ledger'[x[1]][x[2]].amount = Reward[p]
      <4> TAKE x \in more
      <4>1. CASE x \in rows
        BY <2>4, <3>1, <3>2, <4>1 DEF CodeCounted
      <4>2. CASE x = <<w, k>>
        BY <2>4, <4>2
      <4>3. QED  BY <3>1, <4>1, <4>2
    <3>7. /\ usageCount'[p] = n + 1 /\ redeemed'[p] = users \cup {w}
          /\ RewardRows(p)' = more
      BY <1>2, <2>2, <2>4, <3>1
    <3>8. n + 1 <= UsageLimit[p]
      BY <2>2, <3>1, <3>3
    <3>9. QED  BY <3>4, <3>5, <3>6, <3>7, <3>8 DEF CodeCounted
  <2>6. ASSUME NEW q \in Promos, q # p
        PROVE  CodeCounted(q, RewardRows(q)', ledger', usageCount'[q], redeemed'[q])
    <3>1. UNCHANGED <<usageCount[q], redeemed[q]>>
      BY <1>2, <2>2, <2>6
    <3>2. \A x \in Wallets : ~CodePosted(q, x)
      <4> SUFFICES ASSUME NEW x \in Wallets, CodePosted(q, x)
                   PROVE  FALSE
        OBVIOUS
      <4>1. usageCount' = [usageCount EXCEPT ![q] = usageCount[q] + 1]
        BY <1>2 DEF CodePosted, Redeem, RedeemPromoCode
      <4>2. usageCount[q] \in Nat /\ usageCount'[q] = usageCount[q] + 1
        BY <1>2, <4>1
      <4>3. QED  BY <3>1, <4>2
    <3>3. QED  BY <1>3, <3>1, <3>2
  <2>7. usageCount' \in [Promos -> Nat] /\ redeemed' \in [Promos -> SUBSET Wallets]
    BY <1>2, <2>2
  <2>8. QED  BY <2>5, <2>6, <2>7, CodesCounted
<1>5. CASE ~\E p \in Promos, w \in Wallets : Redeem(p, w)
  <2>1. UNCHANGED <<usageCount, redeemed>>
    BY <1>5 DEF Next, promoVars, vars
  <2>2. \A p \in Promos, w \in Wallets : ~CodePosted(p, w)
    BY <1>5 DEF CodePosted
  <2>3. \A q \in Promos :
          CodeCounted(q, RewardRows(q)', ledger', usageCount'[q], redeemed'[q])
    BY <1>3, <2>1, <2>2
  <2>4. QED  BY <1>2, <2>1, <2>3, CodesCounted
<1>6. QED  BY <1>4, <1>5

LEMMA PromoInitial ==
  ASSUME Init
  PROVE  PromoInv
<1>1. PICK e : e = Entry("ADJUST", "CREDIT", Funds, 0, Funds, <<"funds">>, NoRef)
  OBVIOUS
<1>2. \A w \in Wallets : ledger[w] = <<e>> /\ e.reason = "ADJUST"
  BY <1>1, EntryFields DEF Init, CallsInit
<1>3. ASSUME NEW p \in Promos PROVE RewardRows(p) = {}
  <2> SUFFICES ASSUME NEW x \in RewardRows(p) PROVE FALSE
    OBVIOUS
  <2>1. PICK w, i : /\ w \in Wallets /\ i \in DOMAIN ledger[w]
                    /\ IsReward(ledger[w][i], p)
    BY RewardPairs, PairsOf
  <2>2. QED  BY <1>2, <2>1 DEF IsReward
<1>4. usageCount = [p \in Promos |-> 0] /\ redeemed = [p \in Promos |-> {}]
  BY DEF Init, PromoInit
<1>5. \A p \in Promos : CodeCounted(p, RewardRows(p), ledger, usageCount[p], redeemed[p])
  <2>1. \A p \in Promos : 0 <= UsageLimit[p]
    BY PromoAssumption
  <2>2. QED  BY <1>3, <1>4, <2>1, FS_EmptySet DEF CodeCounted
<1>6. QED  BY <1>4, <1>5, CodesCounted

-----------------------------------------------------------------------------
(***************************************************************************)
(* Commissions.                                                            *)
(***************************************************************************)

ClaimRows(w) ==
  {i \in DOMAIN ledger[w] : ledger[w][i].reason = "BONUS" /\ ledger[w][i].ref = "claim"}

ClaimsPaid(w) == Total([i \in DOMAIN ledger[w] |-> ledger[w][i].amount], ClaimRows(w))

ClaimedOf(w) == Total([f \in Referrals |-> referral[f].claimed], Of(w))

UnpaidOf(w) == Total(unpaid, Of(w))

Paying(call) == call # Idle /\ call.op = "CLAIM" /\ call.pc = "pay"

\* What an open claim will pay is what the referrals it has locked hold.
SumsHeld ==
  \A r \in Requests : Paying(req[r]) =>
    /\ rowsLocked[r] \subseteq Of(req[r].from)
    /\ req[r].sum = Total([f \in Referrals |-> referral[f].claimable], rowsLocked[r])

CommissionInv ==
  /\ IsFiniteSet(events)
  /\ unpaid \in [Referrals -> Nat]
  /\ \A w \in Wallets : IsFiniteSet(ClaimRows(w))
                        /\ \A i \in ClaimRows(w) : ledger[w][i].amount \in Nat
  /\ SumsHeld
  /\ CommissionsAccounted

LEMMA OfType ==
  ASSUME NEW w
  PROVE  Of(w) \subseteq Referrals /\ IsFiniteSet(Of(w)) /\ IsFiniteSet(Referrals)
         /\ Claimable(w) \subseteq Of(w)
<1>1. Of(w) \subseteq Referrals /\ Claimable(w) \subseteq Of(w)
  BY DEF Of, Claimable
<1>2. QED  BY <1>1, AffiliatesAssumption, FS_Subset

\* The amounts of the referrals' columns, now and then.
LEMMA ColumnTypes ==
  ASSUME TypeOK
  PROVE  \A f \in Referrals :
           /\ [g \in Referrals |-> referral[g].claimable][f] \in Nat
           /\ [g \in Referrals |-> referral[g].claimed][f] \in Nat
BY ReferralType

LEMMA ClaimsSame ==
  ASSUME TypeOK, NEW w \in Wallets, RowsStay(w),
         \A i \in NewRows(w) : ~(ledger'[w][i].reason = "BONUS" /\ ledger'[w][i].ref = "claim")
  PROVE  /\ ClaimRows(w)' = ClaimRows(w) /\ ClaimsPaid(w)' = ClaimsPaid(w)
         /\ \A i \in ClaimRows(w) : ledger'[w][i] = ledger[w][i]
<1>1. ClaimRows(w)' = {i \in DOMAIN ledger'[w] : /\ ledger'[w][i].reason = "BONUS"
                                                 /\ ledger'[w][i].ref = "claim"}
  BY DEF ClaimRows
<1>2. ClaimRows(w)' = ClaimRows(w)
  BY <1>1 DEF RowsStay, NewRows, ClaimRows
<1>3. \A i \in ClaimRows(w) : i \in DOMAIN ledger'[w] /\ ledger'[w][i] = ledger[w][i]
                              /\ i \in DOMAIN ledger[w]
  BY DEF RowsStay, ClaimRows
<1>4. PICK f, g, S : /\ f = [i \in DOMAIN ledger[w] |-> ledger[w][i].amount]
                     /\ g = [i \in DOMAIN ledger'[w] |-> ledger'[w][i].amount]
                     /\ S = ClaimRows(w)
  OBVIOUS
<1>5. Total(f, S) = Total(g, S)
  <2>1. \A i \in S : f[i] = g[i]
    BY <1>3, <1>4
  <2>2. QED  BY <2>1, TotalSame
<1>6. ClaimsPaid(w) = Total(f, S) /\ ClaimsPaid(w)' = Total(g, S)
  BY <1>2, <1>4 DEF ClaimsPaid
<1>7. QED  BY <1>2, <1>3, <1>5, <1>6

LEMMA ClaimAdded ==
  ASSUME TypeOK, NEW w \in Wallets, NEW entry, PostsOne(w, entry),
         entry.reason = "BONUS", entry.ref = "claim", entry.amount \in Nat,
         IsFiniteSet(ClaimRows(w)), \A i \in ClaimRows(w) : ledger[w][i].amount \in Nat
  PROVE  /\ IsFiniteSet(ClaimRows(w)') /\ \A i \in ClaimRows(w)' : ledger'[w][i].amount \in Nat
         /\ ClaimsPaid(w) \in Nat /\ ClaimsPaid(w)' = ClaimsPaid(w) + entry.amount
<1>1. PICK k : /\ k \notin DOMAIN ledger[w] /\ ledger'[w][k] = entry
               /\ DOMAIN ledger'[w] = DOMAIN ledger[w] \cup {k}
  BY PostedRow
<1>2. RowsStay(w)
  BY PostedRow
<1>3. ClaimRows(w)' = {i \in DOMAIN ledger'[w] : /\ ledger'[w][i].reason = "BONUS"
                                                 /\ ledger'[w][i].ref = "claim"}
  BY DEF ClaimRows
<1>4. ClaimRows(w)' = ClaimRows(w) \cup {k} /\ k \notin ClaimRows(w)
  BY <1>1, <1>2, <1>3 DEF ClaimRows, RowsStay
<1>5. PICK f, g, S : /\ f = [i \in DOMAIN ledger[w] |-> ledger[w][i].amount]
                     /\ g = [i \in DOMAIN ledger'[w] |-> ledger'[w][i].amount]
                     /\ S = ClaimRows(w)
  OBVIOUS
<1>6. \A i \in S : f[i] = g[i] /\ f[i] \in Nat
  BY <1>2, <1>5 DEF ClaimRows, RowsStay
<1>7. g[k] = entry.amount
  BY <1>1, <1>5
<1>8. Total(g, S) \in Nat /\ Total(g, S \cup {k}) = Total(g, S) + g[k]
  <2>1. k \notin S /\ IsFiniteSet(S) /\ \A i \in S \cup {k} : g[i] \in Nat
    BY <1>4, <1>5, <1>6, <1>7
  <2>2. QED  BY <2>1, TotalAdd, Zenon
<1>9. Total(f, S) = Total(g, S)
  BY <1>6, TotalSame
<1>10. ClaimsPaid(w) = Total(f, S) /\ ClaimsPaid(w)' = Total(g, S \cup {k})
  BY <1>4, <1>5 DEF ClaimsPaid
<1>11. IsFiniteSet(ClaimRows(w)')
  BY <1>4, FS_AddElement
<1>12. \A i \in ClaimRows(w)' : ledger'[w][i].amount \in Nat
  BY <1>1, <1>2, <1>4 DEF RowsStay, ClaimRows
<1>13. QED  BY <1>7, <1>8, <1>9, <1>10, <1>11, <1>12

\* A claim that pays raises what its referrer has claimed by what the rows it has
\* locked held, which it pays, and by what others came to hold, which it does not.
LEMMA ClaimedMore ==
  ASSUME TypeOK, unpaid \in [Referrals -> Nat], NEW r \in Requests, ClaimedAll(r), NEW w,
         w = req[r].from => rowsLocked[r] \subseteq Of(w)
  PROVE  /\ ClaimedOf(w) \in Nat /\ UnpaidOf(w) \in Nat
         /\ w # req[r].from => ClaimedOf(w)' = ClaimedOf(w) /\ UnpaidOf(w)' = UnpaidOf(w)
         /\ w = req[r].from =>
              \E sum, missed \in Nat :
                /\ sum = Total([f \in Referrals |-> referral[f].claimable], rowsLocked[r])
                /\ ClaimedOf(w)' = ClaimedOf(w) + (sum + missed)
                /\ UnpaidOf(w)' = UnpaidOf(w) + missed
<1>1. PICK rows, before, after, held, old, new :
        /\ rows = rowsLocked[r] /\ before = unpaid /\ after = unpaid'
        /\ held = [f \in Referrals |-> referral[f].claimable]
        /\ old = [f \in Referrals |-> referral[f].claimed]
        /\ new = [f \in Referrals |-> referral'[f].claimed]
  OBVIOUS
<1>2. /\ Of(w) \subseteq Referrals /\ IsFiniteSet(Of(w)) /\ Claimable(w) \subseteq Of(w)
  BY OfType
<1>3. PICK S : S = Of(w)
  OBVIOUS
<1>4. /\ ClaimedOf(w) = Total(old, S) /\ ClaimedOf(w)' = Total(new, S)
      /\ UnpaidOf(w) = Total(before, S) /\ UnpaidOf(w)' = Total(after, S)
  BY <1>1, <1>3 DEF ClaimedOf, UnpaidOf, Of
<1>5. \A f \in S : old[f] \in Nat /\ held[f] \in Nat /\ before[f] \in Nat
  BY <1>1, <1>2, <1>3, ReferralType
<1>6. Total(old, S) \in Nat /\ Total(before, S) \in Nat
  BY <1>2, <1>3, <1>5, TotalType
<1>7. CASE w # req[r].from
  <2>1. Of(w) \cap Claimable(req[r].from) = {}
    BY <1>7 DEF Of, Claimable
  <2>2. \A f \in S : new[f] = old[f] /\ after[f] = before[f]
    BY <1>1, <1>2, <1>3, <2>1 DEF ClaimedAll
  <2>3. Total(new, S) = Total(old, S) /\ Total(after, S) = Total(before, S)
    BY <2>2, TotalSame
  <2>4. QED  BY <1>4, <1>6, <1>7, <2>3
<1>8. CASE w = req[r].from
  <2>1. \A f \in S : new[f] = old[f] + held[f]
    <3> TAKE f \in S
    <3>1. f \in Referrals /\ referral[f].claimable \in Nat /\ referral[f].claimed \in Nat
      BY <1>2, <1>3, ReferralType
    <3>2. CASE f \in Claimable(w)
      BY <1>1, <1>8, <3>1, <3>2 DEF ClaimedAll
    <3>3. CASE f \notin Claimable(w)
      <4>1. referral[f].claimable = 0
        BY <1>3, <3>1, <3>3 DEF Claimable
      <4>2. referral'[f] = referral[f]
        BY <1>8, <3>1, <3>3 DEF ClaimedAll
      <4>3. QED  BY <1>1, <3>1, <4>1, <4>2
    <3>4. QED  BY <3>2, <3>3
  <2>2. Total(new, S) = Total(old, S) + Total(held, S)
    <3>1. IsFiniteSet(S) /\ \A f \in S : /\ old[f] \in Nat /\ held[f] \in Nat
                                         /\ new[f] = old[f] + held[f]
      BY <1>2, <1>3, <1>5, <2>1
    <3>2. QED  BY <3>1, TotalSum
  <2>3. PICK paid, late : /\ paid = [f \in S |-> IF f \in rows THEN held[f] ELSE 0]
                          /\ late = [f \in S |-> IF f \in rows THEN 0 ELSE held[f]]
    OBVIOUS
  <2>4. \A f \in S : paid[f] \in Nat /\ late[f] \in Nat /\ held[f] = paid[f] + late[f]
    BY <1>5, <2>3
  <2>5. rows \subseteq S /\ IsFiniteSet(S)
    BY <1>1, <1>2, <1>3, <1>8
  <2>6. Total(held, S) = Total(paid, S) + Total(late, S)
    BY <2>4, <2>5, TotalSum
  <2>7. Total(paid, S) = Total(held, rows)
    BY <2>3, <2>5, TotalWhere
  <2>8. Total(paid, S) \in Nat /\ Total(late, S) \in Nat
    BY <2>4, <2>5, TotalType
  <2>9. \A f \in S : after[f] = before[f] + late[f]
    <3> TAKE f \in S
    <3>1. f \in Referrals /\ f \in Of(w) /\ referral[f].claimable \in Nat
      BY <1>2, <1>3, ReferralType
    <3>2. CASE f \in Claimable(w)
      BY <1>1, <1>5, <1>8, <2>3, <3>1, <3>2 DEF ClaimedAll
    <3>3. CASE f \notin Claimable(w)
      <4>1. held[f] = 0
        <5>1. referral[f].claimable = 0
          BY <3>1, <3>3 DEF Claimable
        <5>2. QED  BY <1>1, <3>1, <5>1
      <4>2. after[f] = before[f]
        BY <1>1, <1>8, <3>1, <3>3 DEF ClaimedAll
      <4>3. QED  BY <1>5, <2>3, <4>1, <4>2
    <3>4. QED  BY <3>2, <3>3
  <2>10. Total(after, S) = Total(before, S) + Total(late, S)
    <3>1. \A f \in S : before[f] \in Nat /\ late[f] \in Nat /\ after[f] = before[f] + late[f]
      BY <1>5, <2>4, <2>9
    <3>2. QED  BY <2>5, <3>1, TotalSum
  <2>11. PICK sum \in Nat, missed \in Nat : sum = Total(paid, S) /\ missed = Total(late, S)
    BY <2>8
  <2>12. /\ sum = Total([f \in Referrals |-> referral[f].claimable], rowsLocked[r])
         /\ ClaimedOf(w)' = ClaimedOf(w) + (sum + missed)
         /\ UnpaidOf(w)' = UnpaidOf(w) + missed
    BY <1>1, <1>4, <2>2, <2>6, <2>7, <2>10, <2>11
  <2>13. QED  BY <1>4, <1>6, <1>8, <2>12
<1>9. QED  BY <1>7, <1>8

\* No other step makes a call pay a claim, or changes one that will.
LEMMA PayersStep ==
  ASSUME TypeOK, Kind, NEW r \in Requests, Paying(req'[r])
  PROVE  \/ Paying(req[r]) /\ req'[r] = req[r]
         \/ ClaimSum(r) /\ ~Answer(r)
<1>1. CASE Untouched
  BY <1>1 DEF Untouched
<1>2. ASSUME NEW x \in Requests, NEW call, Moved(x, call)
      PROVE  Paying(req[r]) /\ req'[r] = req[r]
  <2>1. req' = [req EXCEPT ![x] = call] /\ DOMAIN req = Requests
    BY <1>2 DEF Moved, TypeOK
  <2>2. ~Paying(call)
    BY <1>2 DEF Moved, Paying, Open, LockOps
  <2>3. QED  BY <2>1, <2>2
<1>3. ASSUME NEW x \in Requests, LockWallet(x)
      PROVE  Paying(req[r]) /\ req'[r] = req[r]
  <2>1. PICK w \in Wallets, call \in TipCalls \cup RainCalls \cup ClaimCalls : Locking(x, w, call)
    BY <1>3, LockEffect
  <2>2. req' = [req EXCEPT ![x] = call] /\ DOMAIN req = Requests /\ ~Paying(call)
    BY <2>1 DEF Locking, TypeOK, Paying
  <2>3. QED  BY <2>2
<1>4. ASSUME NEW x \in Requests, Ended(x)
      PROVE  Paying(req[r]) /\ req'[r] = req[r]
  <2>1. req' = [req EXCEPT ![x] = Idle] /\ DOMAIN req = Requests
    BY <1>4 DEF Ended, Answer, TypeOK
  <2>2. ~Paying(Idle)
    BY DEF Paying
  <2>3. QED  BY <2>1, <2>2
<1>5. ASSUME NEW x \in Requests, ClaimSum(x), ~Answer(x)
      PROVE  \/ Paying(req[r]) /\ req'[r] = req[r]
             \/ ClaimSum(r) /\ ~Answer(r)
  <2>1. PICK call : Summed(x, call)
    BY <1>5, ClaimSumEffect
  <2>2. req' = [req EXCEPT ![x] = call] /\ DOMAIN req = Requests
    BY <2>1 DEF Summed, TypeOK
  <2>3. CASE x = r
    BY <1>5, <2>3
  <2>4. CASE x # r
    BY <2>2, <2>4
  <2>5. QED  BY <2>3, <2>4
<1>6. QED  BY <1>1, <1>2, <1>3, <1>4, <1>5 DEF Kind

\* A call that will pay has locked its wallet.
LEMMA PayerLocks ==
  ASSUME MoneyInv, NEW r \in Requests, Paying(req[r])
  PROVE  req[r].from \in Wallets /\ walletLock[req[r].from] = r
<1>1. req[r].order = <<>> /\ TypeOK /\ LocksHold
  BY DEF MoneyInv, ClaimsFresh, Paying
<1>2. Open(req[r]) /\ Wants(req[r]) = {req[r].from}
  BY DEF Paying, Open, LockOps, RainOps, Wants
<1>3. QED  BY <1>1, <1>2, AllLocked

\* What a payer's referrals hold stays until it has paid.
LEMMA SumKept ==
  ASSUME TypeOK, SumsHeld, NEW r \in Requests, Paying(req[r]), req'[r] = req[r],
         rowsLocked'[r] = rowsLocked[r],
         \A f \in rowsLocked[r] : referral'[f].claimable = referral[f].claimable
  PROVE  /\ rowsLocked'[r] \subseteq Of(req'[r].from)
         /\ req'[r].sum = Total([f \in Referrals |-> referral'[f].claimable], rowsLocked'[r])
<1>1. PICK call, rows, old, new :
        /\ call = req[r] /\ rows = rowsLocked[r]
        /\ old = [f \in Referrals |-> referral[f].claimable]
        /\ new = [f \in Referrals |-> referral'[f].claimable]
  OBVIOUS
<1>2. rows \subseteq Of(call.from) /\ call.sum = Total(old, rows)
  BY <1>1 DEF SumsHeld
<1>3. \A f \in rows : old[f] = new[f]
  <2>1. rows \subseteq Referrals
    BY <1>2, OfType
  <2>2. QED  BY <1>1, <2>1
<1>4. Total(old, rows) = Total(new, rows)
  BY <1>3, TotalSame
<1>5. QED  BY <1>1, <1>2, <1>4

LEMMA SumsStep ==
  ASSUME MoneyInv, SumsHeld, [Next]_vars
  PROVE  SumsHeld'
<1>1. TypeOK /\ Kind
  BY StepKind DEF MoneyInv
<1> SUFFICES ASSUME NEW r \in Requests, Paying(req'[r])
             PROVE  /\ rowsLocked'[r] \subseteq Of(req'[r].from)
                    /\ req'[r].sum
                         = Total([f \in Referrals |-> referral'[f].claimable], rowsLocked'[r])
  <2>1. SumsHeld' <=> \A r \in Requests : Paying(req'[r]) =>
                        /\ rowsLocked'[r] \subseteq Of(req'[r].from)
                        /\ req'[r].sum = Total([f \in Referrals |-> referral'[f].claimable],
                                               rowsLocked'[r])
    BY DEF SumsHeld, Paying, Of
  <2>2. QED  BY <2>1
<1>2. CASE ClaimSum(r) /\ ~Answer(r)
  <2>1. PICK call : Summed(r, call)
    BY <1>1, <1>2, ClaimSumEffect
  <2>2. req'[r] = call /\ rowsLocked'[r] = Claimable(call.from)
    BY <1>1, <2>1 DEF Summed, TypeOK
  <2>3. referral' = referral
    BY <1>2 DEF ClaimSum
  <2>4. call.sum = Total([f \in Referrals |-> referral[f].claimable], Claimable(call.from))
    BY <2>1 DEF Summed
  <2>5. Claimable(call.from) \subseteq Of(call.from)
    BY OfType
  <2>6. QED  BY <2>2, <2>3, <2>4, <2>5
<1>3. CASE Paying(req[r]) /\ req'[r] = req[r] /\ ~(ClaimSum(r) /\ ~Answer(r))
  <2>1. rowsLocked[r] \subseteq Of(req[r].from) /\ rowsLocked \in [Requests -> SUBSET Referrals]
    BY <1>1, <1>3 DEF SumsHeld, TypeOK
  <2>2. req'[r] # Idle
    BY DEF Paying
  <2>3. CASE ReferralsKept
    <3>1. rowsLocked'[r] = rowsLocked[r]
      <4>1. CASE UNCHANGED rowsLocked
        BY <4>1
      <4>2. ASSUME NEW x \in Requests, rowsLocked' = [rowsLocked EXCEPT ![x] = {}], Answer(x)
            PROVE  rowsLocked'[r] = rowsLocked[r]
        <5>1. x # r
          BY <1>1, <2>2, <4>2 DEF Answer, TypeOK
        <5>2. QED  BY <2>1, <4>2, <5>1
      <4>3. ASSUME NEW x \in Requests, ClaimSum(x), ~Answer(x)
            PROVE  rowsLocked'[r] = rowsLocked[r]
        <5>1. PICK call : Summed(x, call)
          BY <1>1, <4>3, ClaimSumEffect
        <5>2. x # r
          BY <1>3, <4>3
        <5>3. rowsLocked' = [rowsLocked EXCEPT ![x] = Claimable(call.from)]
          BY <5>1 DEF Summed
        <5>4. QED  BY <2>1, <5>2, <5>3
      <4>4. QED  BY <2>3, <4>1, <4>2, <4>3 DEF ReferralsKept
    <3>2. QED  BY <1>1, <1>3, <2>3, <3>1, SumKept DEF ReferralsKept
  <2>4. ASSUME NEW f \in Referrals, NEW stake \in Stakes, CommissionAdded(f, stake)
        PROVE  /\ rowsLocked'[r] = rowsLocked[r]
               /\ \A g \in rowsLocked[r] : referral'[g].claimable = referral[g].claimable
    BY <2>1, <2>4 DEF CommissionAdded, RowFree
  <2>5. ASSUME NEW x \in Requests, ClaimPay(x), ClaimedAll(x)
        PROVE  /\ rowsLocked'[r] = rowsLocked[r]
               /\ \A g \in rowsLocked[r] : referral'[g].claimable = referral[g].claimable
    <3>1. x # r
      BY <1>1, <2>2, <2>5 DEF ClaimPay, Answer, TypeOK
    <3>2. rowsLocked'[r] = rowsLocked[r]
      BY <2>1, <2>5, <3>1 DEF ClaimedAll
    <3>3. req[x].from # req[r].from
      <4>1. walletLock[req[r].from] = r /\ walletLock[req[x].from] = x
        BY <1>3, <2>5, PayerLocks, ClaimEffect
      <4>2. QED  BY <3>1, <4>1
    <3>4. \A g \in rowsLocked[r] : g \in Referrals \ Claimable(req[x].from)
      BY <2>1, <3>3 DEF Claimable, Of
    <3>5. QED  BY <2>5, <3>2, <3>4 DEF ClaimedAll
  <2>6. QED  BY <1>1, <1>3, <2>3, <2>4, <2>5, SumKept, ReferralSteps
<1>4. QED  BY <1>1, <1>2, <1>3, PayersStep

\* The events of a referral, and what its row says of them.
EventsOf(f) == {e \in events : e[1] = f}

RowAccounted(row, n) ==
  row.claimable + row.claimed = row.total /\ row.total = Commission * n

LEMMA RowsStep ==
  ASSUME MoneyInv, CommissionInv, [Next]_vars
  PROVE  /\ IsFiniteSet(events')
         /\ \A f \in Referrals : RowAccounted(referral'[f], Cardinality(EventsOf(f)'))
<1>1. /\ TypeOK /\ IsFiniteSet(events)
      /\ \A f \in Referrals : RowAccounted(referral[f], Cardinality(EventsOf(f)))
  BY DEF MoneyInv, CommissionInv, CommissionsAccounted, RowAccounted, EventsOf
<1>2. \A f \in Referrals : EventsOf(f)' = {e \in events' : e[1] = f}
  BY DEF EventsOf
<1>3. CASE ReferralsKept
  <2>1. referral' = referral /\ events' = events
    BY <1>3 DEF ReferralsKept
  <2>2. \A f \in Referrals : EventsOf(f)' = EventsOf(f)
    BY <1>2, <2>1 DEF EventsOf
  <2>3. QED  BY <1>1, <2>1, <2>2
<1>4. ASSUME NEW f \in Referrals, NEW stake \in Stakes, CommissionAdded(f, stake)
      PROVE  /\ IsFiniteSet(events')
             /\ \A g \in Referrals : RowAccounted(referral'[g], Cardinality(EventsOf(g)'))
  <2>1. <<f, stake>> \notin events /\ events' = events \cup {<<f, stake>>}
    BY <1>4 DEF CommissionAdded
  <2>2. IsFiniteSet(events')
    BY <1>1, <2>1, FS_AddElement
  <2>3. ASSUME NEW g \in Referrals \ {f}
        PROVE  RowAccounted(referral'[g], Cardinality(EventsOf(g)'))
    <3>1. referral'[g] = referral[g]
      BY <1>4 DEF CommissionAdded
    <3>2. EventsOf(g)' = EventsOf(g)
      BY <1>2, <2>1 DEF EventsOf
    <3>3. QED  BY <1>1, <3>1, <3>2
  <2>4. RowAccounted(referral'[f], Cardinality(EventsOf(f)'))
    <3>1. /\ EventsOf(f)' = EventsOf(f) \cup {<<f, stake>>}
          /\ <<f, stake>> \notin EventsOf(f) /\ EventsOf(f) \subseteq events
      BY <1>2, <2>1 DEF EventsOf
    <3>2. PICK old, n, m : old = EventsOf(f) /\ n = Cardinality(old) /\ m = Cardinality(EventsOf(f)')
      OBVIOUS
    <3>3. n \in Nat /\ m = n + 1
      <4>1. IsFiniteSet(old) /\ <<f, stake>> \notin old
        BY <1>1, <3>1, <3>2, FS_Subset
      <4>2. n \in Nat /\ Cardinality(old \cup {<<f, stake>>}) = n + 1
        BY <3>2, <4>1, FS_AddElement, FS_CardinalityType
      <4>3. QED  BY <3>1, <3>2, <4>2
    <3>4. PICK c : c = Commission /\ c \in Nat
      BY CommissionType
    <3>5. PICK row, next : row = referral[f] /\ next = referral'[f]
      OBVIOUS
    <3>6. row.claimable \in Nat /\ row.claimed \in Nat /\ row.total \in Nat
      BY <1>1, <3>5, ReferralType
    <3>7. row.claimable + row.claimed = row.total /\ row.total = c * n
      BY <1>1, <3>2, <3>4, <3>5 DEF RowAccounted
    <3>8. /\ next.claimable = row.claimable + c /\ next.total = row.total + c
          /\ next.claimed = row.claimed
      BY <1>4, <3>4, <3>5 DEF CommissionAdded
    <3>9. c * (n + 1) = c * n + c
      BY <3>3, <3>4
    <3>10. next.claimable + next.claimed = next.total /\ next.total = c * m
      BY <3>3, <3>4, <3>6, <3>7, <3>8, <3>9
    <3>11. QED  BY <3>2, <3>4, <3>5, <3>10 DEF RowAccounted
  <2>5. QED  BY <2>2, <2>3, <2>4
<1>5. ASSUME NEW r \in Requests, ClaimedAll(r)
      PROVE  /\ IsFiniteSet(events')
             /\ \A f \in Referrals : RowAccounted(referral'[f], Cardinality(EventsOf(f)'))
  <2>1. events' = events
    BY <1>5 DEF ClaimedAll
  <2>2. ASSUME NEW f \in Referrals
        PROVE  RowAccounted(referral'[f], Cardinality(EventsOf(f)'))
    <3>1. EventsOf(f)' = EventsOf(f) /\ RowAccounted(referral[f], Cardinality(EventsOf(f)))
      BY <1>1, <1>2, <2>1 DEF EventsOf
    <3>2. CASE f \in Claimable(req[r].from)
      BY <1>1, <1>5, <3>1, <3>2, ReferralType DEF ClaimedAll, RowAccounted
    <3>3. CASE f \notin Claimable(req[r].from)
      BY <1>5, <3>1, <3>3 DEF ClaimedAll
    <3>4. QED  BY <3>2, <3>3
  <2>3. QED  BY <1>1, <2>1, <2>2
<1>6. QED  BY <1>1, <1>3, <1>4, <1>5, ReferralSteps

\* What the claims of a wallet have paid.
ClaimsCovered(w) ==
  /\ IsFiniteSet(ClaimRows(w)) /\ \A i \in ClaimRows(w) : ledger[w][i].amount \in Nat
  /\ ClaimsPaid(w) + UnpaidOf(w) = ClaimedOf(w)

LEMMA ClaimedSame ==
  ASSUME NEW w, \A f \in Referrals : referral'[f].claimed = referral[f].claimed
  PROVE  ClaimedOf(w)' = ClaimedOf(w)
<1>1. PICK old, new, S : /\ old = [f \in Referrals |-> referral[f].claimed]
                         /\ new = [f \in Referrals |-> referral'[f].claimed]
                         /\ S = Of(w)
  OBVIOUS
<1>2. ClaimedOf(w) = Total(old, S) /\ ClaimedOf(w)' = Total(new, S)
  BY <1>1 DEF ClaimedOf, Of
<1>3. \A f \in S : old[f] = new[f]
  BY <1>1, OfType
<1>4. QED  BY <1>2, <1>3, TotalSame

LEMMA CoveredStep ==
  ASSUME MoneyInv, SumsHeld, unpaid \in [Referrals -> Nat], NEW w \in Wallets, ClaimsCovered(w), [Next]_vars
  PROVE  ClaimsCovered(w)'
<1>1. TypeOK /\ Growth /\ RowsStay(w)
  BY StepKind, RowsKept DEF MoneyInv, Kind
<1>2. ASSUME \A r \in Requests : ~(ClaimPay(r) /\ ClaimPosted(r) /\ w = req[r].from)
      PROVE  /\ ClaimRows(w)' = ClaimRows(w) /\ ClaimsPaid(w)' = ClaimsPaid(w)
             /\ \A i \in ClaimRows(w) : ledger'[w][i] = ledger[w][i]
  <2>1. \A i \in NewRows(w) : ~(ledger'[w][i].reason = "BONUS" /\ ledger'[w][i].ref = "claim")
    <3> TAKE i \in NewRows(w)
    <3>1. CASE \E p : CodePosted(p, w) /\ ledger'[w][i].ref = p
      BY <3>1, TransfersAssumption DEF CodePosted
    <3>2. CASE Plain(ledger'[w][i])
      BY <3>2 DEF Plain
    <3>3. CASE \E r \in Requests : TipRow(ledger'[w][i], r, "DEBIT") \/ TipRow(ledger'[w][i], r, "CREDIT")
      BY <3>3 DEF TipRow
    <3>4. QED  BY <1>1, <1>2, <3>1, <3>2, <3>3, RowKinds
  <2>2. QED  BY <1>1, <2>1, ClaimsSame
<1>3. ASSUME \A r \in Requests : ~(ClaimPay(r) /\ ClaimPosted(r) /\ w = req[r].from),
             ClaimedOf(w)' = ClaimedOf(w), UnpaidOf(w)' = UnpaidOf(w)
      PROVE  ClaimsCovered(w)'
  BY <1>2, <1>3 DEF ClaimsCovered
<1>4. ASSUME NEW r \in Requests, ClaimPay(r)
      PROVE  ClaimsCovered(w)'
  <2>1. ClaimPosted(r) /\ ClaimedAll(r) /\ req[r] \in ClaimCalls
    BY <1>1, <1>4, ClaimEffect, ClaimedEffect DEF ClaimPosted
  <2>2. CASE w = req[r].from
    <3>1. PICK entry : /\ PostsOne(w, entry) /\ entry.reason = "BONUS" /\ entry.ref = "claim"
                       /\ entry.amount = req[r].sum
      BY <2>1, <2>2 DEF ClaimPosted
    <3>2. entry.amount \in Nat
      BY <2>1, <3>1 DEF ClaimCalls
    <3>3. /\ IsFiniteSet(ClaimRows(w)') /\ \A i \in ClaimRows(w)' : ledger'[w][i].amount \in Nat
          /\ ClaimsPaid(w) \in Nat /\ ClaimsPaid(w)' = ClaimsPaid(w) + entry.amount
      BY <1>1, <3>1, <3>2, ClaimAdded DEF ClaimsCovered
    <3>4. Paying(req[r])
      BY <1>4 DEF ClaimPay, At, Paying, Idle
    <3>5. /\ rowsLocked[r] \subseteq Of(w)
          /\ req[r].sum = Total([f \in Referrals |-> referral[f].claimable], rowsLocked[r])
      BY <2>2, <3>4 DEF SumsHeld
    <3>6. /\ ClaimedOf(w) \in Nat /\ UnpaidOf(w) \in Nat
          /\ \E sum, missed \in Nat :
               /\ sum = Total([f \in Referrals |-> referral[f].claimable], rowsLocked[r])
               /\ ClaimedOf(w)' = ClaimedOf(w) + (sum + missed)
               /\ UnpaidOf(w)' = UnpaidOf(w) + missed
      BY <1>1, <2>1, <2>2, <3>5, ClaimedMore
    <3>7. PICK sum \in Nat, missed \in Nat :
            /\ sum = entry.amount
            /\ ClaimedOf(w)' = ClaimedOf(w) + (sum + missed)
            /\ UnpaidOf(w)' = UnpaidOf(w) + missed
      BY <3>1, <3>5, <3>6
    <3>8. PICK paid, late, claimed, new :
            /\ paid = ClaimsPaid(w) /\ late = UnpaidOf(w) /\ claimed = ClaimedOf(w)
            /\ new = ClaimsPaid(w)'
      OBVIOUS
    <3>9. new = paid + sum /\ paid + late = claimed /\ paid \in Nat /\ late \in Nat
      BY <3>3, <3>6, <3>7, <3>8, <1>1 DEF ClaimsCovered
    <3>10. new + (late + missed) = claimed + (sum + missed)
      BY <3>7, <3>9
    <3>11. ClaimsPaid(w)' + UnpaidOf(w)' = ClaimedOf(w)'
      BY <3>7, <3>8, <3>10
    <3>12. QED  BY <3>3, <3>11 DEF ClaimsCovered
  <2>3. CASE w # req[r].from
    <3>1. ClaimedOf(w)' = ClaimedOf(w) /\ UnpaidOf(w)' = UnpaidOf(w)
      BY <1>1, <2>1, <2>3, ClaimedMore
    <3>2. Kept(w)
      BY <2>1, <2>3 DEF ClaimPosted
    <3>3. NewRows(w) = {}
      BY <3>2, NoNewRow
    <3>4. /\ ClaimRows(w)' = ClaimRows(w) /\ ClaimsPaid(w)' = ClaimsPaid(w)
          /\ \A i \in ClaimRows(w) : ledger'[w][i] = ledger[w][i]
      BY <1>1, <3>3, ClaimsSame
    <3>5. QED  BY <3>1, <3>4 DEF ClaimsCovered
  <2>4. QED  BY <2>2, <2>3
<1>5. ASSUME \A r \in Requests : ~ClaimPay(r)
      PROVE  ClaimsCovered(w)'
  <2>1. unpaid' = unpaid /\ \A g \in Referrals : referral'[g].claimed = referral[g].claimed
    <3>1. CASE ReferralsKept
      BY <3>1 DEF ReferralsKept
    <3>2. ASSUME NEW f \in Referrals, NEW stake \in Stakes, CommissionAdded(f, stake)
          PROVE  unpaid' = unpaid /\ \A g \in Referrals : referral'[g].claimed = referral[g].claimed
      BY <3>2 DEF CommissionAdded
    <3>3. QED  BY <1>1, <1>5, <3>1, <3>2, ReferralSteps
  <2>2. ClaimedOf(w)' = ClaimedOf(w) /\ UnpaidOf(w)' = UnpaidOf(w)
    BY <2>1, ClaimedSame DEF UnpaidOf, Of
  <2>3. QED  BY <1>3, <1>5, <2>2
<1>6. QED  BY <1>4, <1>5

LEMMA CommissionParts ==
  /\ CommissionInv <=>
       /\ IsFiniteSet(events) /\ unpaid \in [Referrals -> Nat] /\ SumsHeld
       /\ \A w \in Wallets : ClaimsCovered(w)
       /\ \A f \in Referrals : RowAccounted(referral[f], Cardinality(EventsOf(f)))
  /\ CommissionInv' <=>
       /\ IsFiniteSet(events') /\ unpaid' \in [Referrals -> Nat] /\ SumsHeld'
       /\ \A w \in Wallets : ClaimsCovered(w)'
       /\ \A f \in Referrals : RowAccounted(referral'[f], Cardinality(EventsOf(f)'))
<1>1. CommissionInv <=>
       /\ IsFiniteSet(events) /\ unpaid \in [Referrals -> Nat] /\ SumsHeld
       /\ \A w \in Wallets : ClaimsCovered(w)
       /\ \A f \in Referrals : RowAccounted(referral[f], Cardinality(EventsOf(f)))
  BY DEF CommissionInv, CommissionsAccounted, ClaimsCovered, RowAccounted, EventsOf, ClaimsPaid,
         ClaimRows, ClaimedOf, UnpaidOf
<1>2. CommissionInv' <=>
       /\ IsFiniteSet(events') /\ unpaid' \in [Referrals -> Nat] /\ SumsHeld'
       /\ \A w \in Wallets : ClaimsCovered(w)'
       /\ \A f \in Referrals : RowAccounted(referral'[f], Cardinality(EventsOf(f)'))
  BY DEF CommissionInv, CommissionsAccounted, ClaimsCovered, RowAccounted, EventsOf, ClaimsPaid,
         ClaimRows, ClaimedOf, UnpaidOf
<1>3. QED  BY <1>1, <1>2

\* What claims missed is known of every referral.
LEMMA UnpaidType ==
  ASSUME TypeOK, unpaid \in [Referrals -> Nat], [Next]_vars
  PROVE  unpaid' \in [Referrals -> Nat]
<1>1. ASSUME NEW r \in Requests, ClaimedAll(r)
      PROVE  unpaid' \in [Referrals -> Nat]
  <2>1. \A f \in Referrals : unpaid'[f] \in Nat
    BY <1>1, ReferralType DEF ClaimedAll
  <2>2. unpaid' = [f \in Referrals |-> unpaid'[f]]
    BY <1>1 DEF ClaimedAll
  <2>3. QED  BY <2>1, <2>2
<1>2. QED  BY <1>1, ReferralSteps DEF ReferralsKept, CommissionAdded

LEMMA CommissionStep ==
  ASSUME MoneyInv, CommissionInv, [Next]_vars
  PROVE  CommissionInv'
<1>1. unpaid \in [Referrals -> Nat] /\ SumsHeld /\ \A w \in Wallets : ClaimsCovered(w)
  BY CommissionParts
<1>2. SumsHeld'
  BY <1>1, SumsStep
<1>3. \A w \in Wallets : ClaimsCovered(w)'
  BY <1>1, CoveredStep
<1>4. /\ IsFiniteSet(events')
      /\ \A f \in Referrals : RowAccounted(referral'[f], Cardinality(EventsOf(f)'))
  BY RowsStep
<1>5. unpaid' \in [Referrals -> Nat]
  BY <1>1, UnpaidType DEF MoneyInv
<1>6. QED  BY <1>2, <1>3, <1>4, <1>5, CommissionParts

LEMMA CommissionInitial ==
  ASSUME Init
  PROVE  CommissionInv
<1>1. TypeOK
  BY InitMoney DEF MoneyInv
<1>2. /\ events = {} /\ unpaid = [f \in Referrals |-> 0]
      /\ referral = [f \in Referrals |-> [claimable |-> 0, claimed |-> 0, total |-> 0]]
  BY DEF Init, AffiliatesInit
<1>3. SumsHeld
  BY DEF Init, CallsInit, SumsHeld, Paying
<1>4. \A f \in Referrals : RowAccounted(referral[f], Cardinality(EventsOf(f)))
  <2>1. \A f \in Referrals : EventsOf(f) = {}
    BY <1>2 DEF EventsOf
  <2>2. QED  BY <1>2, <2>1, FS_EmptySet, CommissionType DEF RowAccounted
<1>5. ASSUME NEW w \in Wallets
      PROVE  ClaimsCovered(w)
  <2>1. PICK e : e = Entry("ADJUST", "CREDIT", Funds, 0, Funds, <<"funds">>, NoRef)
    OBVIOUS
  <2>2. ledger[w] = <<e>> /\ e.reason = "ADJUST"
    BY <2>1, EntryFields DEF Init, CallsInit
  <2>3. ClaimRows(w) = {}
    BY <2>2 DEF ClaimRows
  <2>4. ClaimsPaid(w) = 0
    <3>1. PICK amount : amount = [i \in DOMAIN ledger[w] |-> ledger[w][i].amount]
      OBVIOUS
    <3>2. Total(amount, {}) = 0
      BY TotalOfNothing
    <3>3. QED  BY <2>3, <3>1, <3>2 DEF ClaimsPaid
  <2>5. ClaimedOf(w) = 0 /\ UnpaidOf(w) = 0
    <3>1. PICK column, S : column = [f \in Referrals |-> referral[f].claimed] /\ S = Of(w)
      OBVIOUS
    <3>2. \A f \in S : column[f] = 0 /\ unpaid[f] = 0
      BY <1>2, <3>1, OfType
    <3>3. QED  BY <3>1, <3>2, TotalOfNothing DEF ClaimedOf, UnpaidOf
  <2>6. IsFiniteSet(ClaimRows(w)) /\ \A i \in ClaimRows(w) : ledger[w][i].amount \in Nat
    BY <2>3, FS_EmptySet
  <2>7. QED  BY <2>4, <2>5, <2>6 DEF ClaimsCovered
<1>6. QED  BY <1>2, <1>3, <1>4, <1>5, FS_EmptySet, CommissionParts

\* Commissions and rewards: for any referrals, stakes, codes and limits, and
\* however claims, stakes and redemptions overlap, what a referral holds and what
\* was claimed of it add up to the commissions of its events, a referrer is paid
\* exactly what was claimed of its referrals, less what claims reset without having
\* summed it, and a code pays each user once and no more users than its limit.
THEOREM RewardsPaidOnce == Spec => []RewardsAddUp
<1>1. Init => PromoInv /\ CommissionInv
  BY PromoInitial, CommissionInitial
<1>2. MoneyInv /\ PromoInv /\ CommissionInv /\ [Next]_vars => PromoInv' /\ CommissionInv'
  BY PromoStep, CommissionStep
<1>3. PromoInv /\ CommissionInv => RewardsAddUp
  BY DEF PromoInv, CommissionInv, RewardsAddUp
<1>4. Spec => Init /\ [][Next]_vars
  BY DEF Spec
<1>5. QED  BY <1>1, <1>2, <1>3, <1>4, Disciplined, PTL

-----------------------------------------------------------------------------
(***************************************************************************)
(* The rain.                                                               *)
(***************************************************************************)

\* A call that has read what it settles, and whom it pays.
Settling(call) == call # Idle /\ call.op \in RainOps /\ call.pc = "lock"

Snapshot(call) == Elements(call.joined)

SameSnapshot(old, new) ==
  /\ Settling(old)
  /\ new.joined = old.joined /\ new.pot = old.pot /\ new.settles = old.settles

\* A call gets what it will pay by reading, and keeps it.
LEMMA SettlersStep ==
  ASSUME TypeOK, [Next]_vars, NEW r \in Requests, Settling(req'[r])
  PROVE  SameSnapshot(req[r], req'[r]) \/ ReadPrevious(r)
<1>1. req'[r] # Idle
  BY DEF Settling
<1>2. ASSUME req'[r] = req[r]
      PROVE  SameSnapshot(req[r], req'[r])
  BY <1>2 DEF SameSnapshot
<1>3. ASSUME NEW q \in Requests, Answer(q)
      PROVE  req'[r] = req[r]
  BY <1>1, <1>3, AnswerEffect
<1>4. ASSUME NEW q \in Requests, NEW call, req' = [req EXCEPT ![q] = call], ~Settling(call)
      PROVE  req'[r] = req[r]
  BY <1>4, CallSet
<1>5. ASSUME NEW q \in Requests, Submit(q)
      PROVE  req'[r] = req[r]
  <2>1. PICK call : Start(q, call) /\ ~Settling(call)
    <3>1. CASE TipCall(q)
      BY <3>1 DEF TipCall, Settling, RainOps
    <3>2. CASE RainCall(q)
      BY <3>2 DEF RainCall, Settling
    <3>3. CASE DepositCall(q)
      BY <3>3 DEF DepositCall, Settling
    <3>4. CASE WithdrawCall(q)
      BY <3>4 DEF WithdrawCall, Settling
    <3>5. CASE ClaimCall(q)
      BY <3>5 DEF ClaimCall, Settling, RainOps
    <3>6. QED  BY <1>5, <3>1, <3>2, <3>3, <3>4, <3>5 DEF Submit
  <2>2. req' = [req EXCEPT ![q] = call]
    BY <2>1 DEF Start
  <2>3. QED  BY <1>4, <2>1, <2>2
<1>6. ASSUME NEW q \in Requests, LockWallet(q)
      PROVE  SameSnapshot(req[r], req'[r])
  <2>1. PICK w \in Wallets, call \in TipCalls \cup RainCalls \cup ClaimCalls : Locking(q, w, call)
    BY <1>6, LockEffect
  <2>2. /\ req'[q] = call
        /\ \A x \in Requests \ {q} : req'[x] = req[x]
    BY <2>1, CallSet DEF Locking
  <2>3. CASE r = q
    <3>1. /\ call.op \in RainOps /\ call.op = req[q].op
          /\ call.joined = req[q].joined /\ call.pot = req[q].pot
          /\ call.settles = req[q].settles
      BY <2>1, <2>2, <2>3 DEF Settling, Locking
    <3>2. req[q].pc = "lock" /\ req[q] # Idle
      BY <1>6, <2>1 DEF LockWallet, Locking, Open
    <3>3. QED  BY <2>2, <2>3, <3>1, <3>2 DEF SameSnapshot, Settling
  <2>4. QED  BY <1>2, <2>2, <2>3
<1>7. ASSUME NEW q \in Requests, VaultStep(q)
      PROVE  req'[r] = req[r]
  <2>1. PICK call : VaultMove(q, call)
    BY <1>7, VaultMoves
  <2>2. ~Settling(call)
    BY <2>1 DEF VaultMove, Settling, Open, LockOps
  <2>3. QED  BY <1>4, <2>1, <2>2 DEF VaultMove
<1>8. ASSUME NEW q \in Requests, ClaimSum(q)
      PROVE  req'[r] = req[r]
  <2>1. CASE Answer(q)
    BY <1>3, <2>1
  <2>2. CASE ~Answer(q)
    <3>1. PICK call : Summed(q, call)
      BY <1>8, <2>2, ClaimSumEffect
    <3>2. ~Settling(call) /\ req' = [req EXCEPT ![q] = call]
      BY <3>1 DEF Summed, Settling
    <3>3. QED  BY <1>4, <3>2
  <2>3. QED  BY <2>1, <2>2
<1>9. ASSUME NEW q \in Requests, ReadPrevious(q)
      PROVE  SameSnapshot(req[r], req'[r]) \/ ReadPrevious(r)
  <2>1. \E call : req' = [req EXCEPT ![q] = call]
    BY <1>9 DEF ReadPrevious
  <2>2. q # r => req'[r] = req[r]
    BY <2>1, CallSet
  <2>3. QED  BY <1>2, <1>9, <2>2
<1>10. ASSUME NEW q \in Requests, Serve(q)
       PROVE  SameSnapshot(req[r], req'[r]) \/ ReadPrevious(r)
  <2>1. \/ LockWallet(q) \/ VaultStep(q) \/ ClaimSum(q) \/ ReadPrevious(q)
        \/ Answer(q)
    BY <1>10 DEF Serve, TipCommit, RainStep, LookCommit, JoinCommit, RainTipCommit, RainRefused,
                 AffiliateStep, ClaimPay
  <2>2. QED  BY <1>2, <1>3, <1>6, <1>7, <1>8, <1>9, <2>1
<1>11. CASE UNCHANGED req
  BY <1>2, <1>11
<1>12. CASE Next
  <2>1. \A q \in Requests : RolledBack(q) => Answer(q)
    BY DEF RolledBack, Fail, DeadlockVictim
  <2>2. QED  BY <1>2, <1>3, <1>5, <1>10, <1>11, <1>12, <2>1 DEF Next, Tick, AddCommission, Redeem, callVars
<1>13. QED  BY <1>11, <1>12 DEF vars, callVars

\* Joins and tips of a round only grow.
LEMMA RainGrows ==
  ASSUME TypeOK, [Next]_vars, NEW n \in Rounds
  PROVE  /\ rain[n] \in RainRows /\ rain'[n] \in RainRows
         /\ rain[n].joins \subseteq rain'[n].joins /\ rain[n].tipped <= rain'[n].tipped
<1>1. rain[n] \in RainRows /\ rain'[n] \in RainRows
  BY RainStepType DEF TypeOK
<1>2. CASE UNCHANGED rain
  BY <1>1, <1>2 DEF RainRows
<1>3. ASSUME NEW r \in Requests, RainCommit(r)
      PROVE  rain[n].joins \subseteq rain'[n].joins /\ rain[n].tipped <= rain'[n].tipped
  <2>1. PICK after, m, from, amount :
          /\ after = RainAfter(r) /\ m = RoundOf(req[r].now)
          /\ from = req[r].from /\ amount = req[r].amount
    OBVIOUS
  <2>2. /\ after \in [Rounds -> RainRows]
        /\ after[n].joins = rain[n].joins /\ after[n].tipped = rain[n].tipped
    <3>1. after \in [Rounds -> RainRows]
      BY <2>1, RainAfterType
    <3>2. after[n] = [rain[n] EXCEPT !.settled = @ \/ n \in req[r].settles,
                                     !.exists = @ \/ n = RoundOf(req[r].now)]
      BY <2>1 DEF RainAfter
    <3>3. PICK row, s, e : /\ row = rain[n]
                           /\ s = (row.settled \/ n \in req[r].settles)
                           /\ e = (row.exists \/ n = RoundOf(req[r].now))
      OBVIOUS
    <3>4. after[n] = [row EXCEPT !.settled = s, !.exists = e]
      BY <3>2, <3>3
    <3>5. QED  BY <1>1, <3>1, <3>3, <3>4 DEF RainRows
  <2>3. amount \in Nat
    BY <1>3, <2>1, RainCommitType, WalletLocksAssumption DEF RainCalls
  <2>4. CASE LookCommit(r)
    BY <1>1, <2>1, <2>2, <2>4 DEF LookCommit, RainRows
  <2>5. CASE JoinCommit(r)
    <3>1. rain' = [after EXCEPT ![m].joins = @ \cup {from}]
      BY <2>1, <2>5 DEF JoinCommit
    <3>2. PICK row \in RainRows : row = after[n]
      BY <2>2
    <3>3. rain'[n] = IF n = m THEN [row EXCEPT !.joins = row.joins \cup {from}] ELSE row
      BY <2>2, <3>1, <3>2
    <3>4. QED  BY <1>1, <2>2, <3>2, <3>3 DEF RainRows
  <2>6. CASE RainTipCommit(r)
    <3>1. rain' = [after EXCEPT ![m].tipped = @ + amount]
      BY <2>1, <2>6 DEF RainTipCommit
    <3>2. PICK row \in RainRows : row = after[n]
      BY <2>2
    <3>3. rain'[n] = IF n = m THEN [row EXCEPT !.tipped = row.tipped + amount] ELSE row
      BY <2>2, <3>1, <3>2
    <3>4. QED  BY <1>1, <2>2, <2>3, <3>2, <3>3 DEF RainRows
  <2>7. QED  BY <1>3, <2>4, <2>5, <2>6 DEF RainCommit
<1>4. QED  BY <1>1, <1>2, <1>3, RainStepType

\* An order of a set has each member once.
LEMMA OrderOf ==
  ASSUME NEW S, S \subseteq Wallets, NEW s \in Orders(S)
  PROVE  /\ Elements(s) = S /\ Cardinality(S) \in Nat /\ IsFiniteSet(S)
         /\ s \in Seq(Wallets) /\ Len(s) = Cardinality(S) /\ DOMAIN s = 1..Cardinality(S)
         /\ \A i, j \in DOMAIN s : s[i] = s[j] => i = j
<1>1. IsFiniteSet(S) /\ Cardinality(S) \in Nat
  BY WalletLocksAssumption, FS_Subset, FS_CardinalityType
<1>2. PICK n \in Nat : n = Cardinality(S)
  BY <1>1
<1>3. s \in [1..n -> S] /\ \A i, j \in 1..n : s[i] = s[j] => i = j
  BY <1>2 DEF Orders
<1>4. s \in Seq(Wallets) /\ Len(s) = n
  <2>1. s \in [1..n -> Wallets]
    BY <1>3
  <2>2. QED  BY <2>1
<1>5. Elements(s) \subseteq S
  BY <1>3 DEF Elements
<1>6. Elements(s) = S
  <2>1. s \in Bijection(1..n, Elements(s))
    BY <1>3 DEF Bijection, Injection, Surjection, IsInjective, Elements
  <2>2. ExistsBijection(1..n, Elements(s))
    BY <2>1 DEF ExistsBijection
  <2>3. IsFiniteSet(1..n) /\ Cardinality(1..n) = n
    <3>1. 1 \in Int /\ n \in Int
      OBVIOUS
    <3>2. /\ IsFiniteSet(1..n)
          /\ Cardinality(1..n) = IF 1 > n THEN 0 ELSE n - 1 + 1
      BY <3>1, FS_Interval
    <3>3. QED  BY <1>2, <3>2
  <2>4. Cardinality(Elements(s)) = n
    BY <2>2, <2>3, FS_Bijection
  <2>5. QED  BY <1>1, <1>2, <1>5, <2>4, FS_Subset
<1>7. QED  BY <1>1, <1>2, <1>3, <1>4, <1>6

\* At most one round is the oldest unsettled one.
LEMMA OneOldest ==
  ASSUME NEW now
  PROVE  /\ Previous(now) \subseteq Rounds
         /\ \A m, n \in Previous(now) : m = n
<1>1. Rounds \subseteq Int
  BY DEF Rounds
<1>2. Previous(now) \subseteq Rounds
  BY DEF Previous
<1>3. ASSUME NEW m \in Previous(now), NEW n \in Previous(now)
      PROVE  m = n
  <2>1. m <= n /\ n <= m /\ m \in Int /\ n \in Int
    BY <1>1, <1>2 DEF Previous
  <2>2. QED  BY <2>1
<1>4. QED  BY <1>2, <1>3

\* What a call reads: nothing to settle, or a round with its pot and its joins.
Nothing(call) == call.settles = {} /\ call.joined = <<>>

Fresh(call, n) ==
  /\ call.settles = {n} /\ call.joined \in Orders(rain[n].joins)
  /\ call.pot = RainBase + rain[n].tipped

LEMMA SnapshotRead ==
  ASSUME TypeOK, NEW r \in Requests, ReadPrevious(r)
  PROVE  /\ Nothing(req'[r]) \/ \E n \in Rounds : Fresh(req'[r], n)
         /\ \A q \in Requests \ {r} : req'[q] = req[q]
         /\ UNCHANGED <<moneyVars, rain>>
<1>1. PICK old, found : old = req[r] /\ found = Previous(old.now)
  OBVIOUS
<1>2. PICK joined, pot, order :
        /\ joined \in Orders(UNION {rain[n].joins : n \in found})
        /\ pot = (IF found = {} THEN 0 ELSE RainBase + rain[CHOOSE n \in found : TRUE].tipped)
        /\ req' = [req EXCEPT ![r] =
             [old EXCEPT !.pc = "lock", !.settles = found, !.joined = joined,
                         !.pot = pot, !.order = order]]
  <2>1. PICK joined \in Orders(UNION {rain[n].joins : n \in Previous(req[r].now)}) :
          req' = [req EXCEPT ![r] =
            [req[r] EXCEPT !.pc = "lock", !.settles = Previous(req[r].now),
                    !.joined = joined,
                    !.pot = IF Previous(req[r].now) = {} THEN 0
                            ELSE RainBase
                                   + rain[CHOOSE n \in Previous(req[r].now) : TRUE].tipped,
                    !.order = joined \o IF req[r].op = "RAINTIP" THEN <<req[r].from>>
                                        ELSE <<>>]]
    BY DEF ReadPrevious, TypeOK
  <2>2. QED  BY <1>1, <2>1
<1>3. PICK call : call = [old EXCEPT !.pc = "lock", !.settles = found, !.joined = joined,
                                     !.pot = pot, !.order = order]
  OBVIOUS
<1>4. req'[r] = call /\ \A q \in Requests \ {r} : req'[q] = req[q]
  BY <1>2, <1>3, CallSet
<1>5. old \in RainCalls
  <2>1. old.pc = "previous" /\ old # Idle /\ IsCall(old)
    BY <1>1 DEF ReadPrevious, Idle, TypeOK
  <2>2. QED
    BY <2>1 DEF IsCall, TipCalls, ClaimCalls, DepositCalls, WithdrawCalls
<1>6. call.settles = found /\ call.joined = joined /\ call.pot = pot
  BY <1>3, <1>5 DEF RainCalls
<1>7. CASE found = {}
  <2>1. UNION {rain[n].joins : n \in found} = {}
    BY <1>7
  <2>2. joined \in Orders({})
    BY <1>2, <2>1
  <2>3. DOMAIN joined = {} /\ joined \in Seq(Wallets) /\ Len(joined) = 0
    BY <2>2, OrderOf, FS_EmptySet
  <2>4. joined = <<>>
    BY <2>3
  <2>5. QED  BY <1>4, <1>6, <1>7, <2>4 DEF ReadPrevious, Nothing
<1>8. CASE found # {}
  <2>1. PICK n \in Rounds : found = {n}
    BY <1>1, <1>8, OneOldest
  <2>2. UNION {rain[m].joins : m \in found} = rain[n].joins
    BY <2>1
  <2>3. pot = RainBase + rain[n].tipped
    BY <1>2, <2>1
  <2>4. Fresh(call, n)
    BY <1>2, <1>6, <2>1, <2>2, <2>3 DEF Fresh
  <2>5. QED  BY <1>4, <2>4 DEF ReadPrevious
<1>9. QED  BY <1>7, <1>8

Nested(S, T) == S \subseteq T \/ T \subseteq S

\* What a call that settles round n has read, as far as the round goes.
SettlesOf(call, n, row) ==
  /\ call.settles = {n}
  /\ call.joined \in Orders(Snapshot(call)) /\ Snapshot(call) \subseteq row.joins
  /\ call.pot \in RainBase..(RainBase + row.tipped)

Settles(call, n) == SettlesOf(call, n, rain[n])

PaidTo(n) == {x[1] : x \in PayoutRows(n)}

\* Every snapshot of the joins contains the earlier ones, and those who have been
\* paid are the snapshot of whoever paid them.
SnapshotsNest ==
  \A r \in Requests : Settling(req[r]) =>
    \/ Nothing(req[r])
    \/ \E n \in Rounds :
         /\ Settles(req[r], n)
         /\ Nested(Snapshot(req[r]), PaidTo(n))
         /\ \A q \in Requests : Settling(req[q]) /\ req[q].settles = {n} =>
              Nested(Snapshot(req[r]), Snapshot(req[q]))

\* What the rows of round n in a set of ledgers pay.
PaidOf(rows, book) == Total([x \in rows |-> book[x[1]][x[2]].amount], rows)

RoundPaid(n, rows, book, joins, tipped) ==
  /\ IsFiniteSet(rows)
  /\ \A x \in rows : /\ book[x[1]][x[2]].key = <<"rain", {n}>>
                     /\ book[x[1]][x[2]].amount \in Nat
                     /\ x[1] \in joins
  /\ PaidOf(rows, book) <= RainBase + tipped
  /\ rows # {} => PaidOf(rows, book) >= RainBase
  /\ Cardinality({x[1] : x \in rows}) = Cardinality(rows)

RainInv ==
  /\ SnapshotsNest
  /\ \A n \in Rounds : RoundPaid(n, PayoutRows(n), ledger, rain[n].joins, rain[n].tipped)

LEMMA RainPart ==
  ASSUME RainInv
  PROVE  RainWithinPot
BY DEF RainInv, RoundPaid, PaidOf, RainWithinPot

-----------------------------------------------------------------------------
(***************************************************************************)
(* The payouts in the ledgers.                                             *)
(***************************************************************************)

IsPayout(row, n) == row.reason = "RAIN_PAYOUT" /\ row.ref = {n}

LEMMA PayoutPairs ==
  ASSUME NEW n
  PROVE  /\ PayoutRows(n) = {x \in Pairs(ledger) : IsPayout(ledger[x[1]][x[2]], n)}
         /\ PayoutRows(n)' = {x \in Pairs(ledger') : IsPayout(ledger'[x[1]][x[2]], n)}
BY DEF PayoutRows, Pairs, IsPayout

\* The payouts of a round whose ledgers get none of it.
LEMMA PayoutsSame ==
  ASSUME TypeOK, NEW n, \A w \in Wallets : RowsStay(w),
         \A w \in Wallets : \A i \in NewRows(w) : ~IsPayout(ledger'[w][i], n)
  PROVE  /\ PayoutRows(n)' = PayoutRows(n)
         /\ \A x \in PayoutRows(n) : ledger'[x[1]][x[2]] = ledger[x[1]][x[2]]
<1>1. ASSUME NEW x \in PayoutRows(n)
      PROVE  x \in PayoutRows(n)' /\ ledger'[x[1]][x[2]] = ledger[x[1]][x[2]]
  <2>1. PICK w, i : /\ w \in Wallets /\ i \in DOMAIN ledger[w] /\ x = <<w, i>>
                    /\ IsPayout(ledger[w][i], n)
    BY PayoutPairs, PairsOf
  <2>2. i \in DOMAIN ledger'[w] /\ ledger'[w][i] = ledger[w][i]
    BY <2>1 DEF RowsStay
  <2>3. x \in Pairs(ledger')
    BY <2>1, <2>2, PairsOf
  <2>4. QED  BY <2>1, <2>2, <2>3, PayoutPairs
<1>2. ASSUME NEW x \in PayoutRows(n)'
      PROVE  x \in PayoutRows(n)
  <2>1. PICK w, i : /\ w \in Wallets /\ i \in DOMAIN ledger'[w] /\ x = <<w, i>>
                    /\ IsPayout(ledger'[w][i], n)
    BY PayoutPairs, PairsOf
  <2>2. i \in DOMAIN ledger[w] /\ ledger'[w][i] = ledger[w][i]
    BY <2>1 DEF RowsStay, NewRows
  <2>3. x \in Pairs(ledger)
    BY <2>1, <2>2, PairsOf
  <2>4. QED  BY <2>1, <2>2, <2>3, PayoutPairs
<1>3. QED  BY <1>1, <1>2

\* An adjustment adds no payout.
LEMMA AdjustRows ==
  ASSUME TypeOK, NEW v \in Wallets, NEW delta, NEW key, Adjusted(v, delta, key),
         NEW w \in Wallets, NEW i \in NewRows(w)
  PROVE  ledger'[w][i].reason # "RAIN_PAYOUT"
<1>1. CASE UNCHANGED moneyVars
  BY <1>1 DEF NewRows, moneyVars
<1>2. CASE AdjustWalletBalance(v, delta, key)
  <2>1. PICK before, after, direction, amount :
          Post(v, Entry("ADJUST", direction, amount, before, after, key, NoRef))
    BY <1>2 DEF AdjustWalletBalance
  <2>2. PICK entry : entry.reason = "ADJUST" /\ Post(v, entry)
    BY <2>1, EntryFields
  <2>3. /\ ledger'[v] = Append(ledger[v], entry)
        /\ \A x \in Wallets \ {v} : ledger'[x] = ledger[x]
    BY <2>2 DEF Post, TypeOK
  <2>4. w = v
    BY <2>3 DEF NewRows
  <2>5. PICK k : NewRows(v) = {k} /\ ledger'[v][k] = entry
    BY <2>3, OneNewRow, Zenon
  <2>6. QED  BY <2>2, <2>4, <2>5
<1>3. QED  BY <1>1, <1>2 DEF Adjusted

\* Only commits of the rain add payouts.
LEMMA OtherRows ==
  ASSUME MoneyInv, [Next]_vars, \A r \in Requests : ~RainCommit(r),
         NEW w \in Wallets, NEW i \in NewRows(w)
  PROVE  ledger'[w][i].reason # "RAIN_PAYOUT"
<1>1. TypeOK
  BY DEF MoneyInv
<1>2. ledger'[w] # ledger[w]
  BY DEF NewRows
<1>3. CASE UNCHANGED ledger
  BY <1>2, <1>3
<1>4. ASSUME NEW r \in Requests, TipCommit(r)
      PROVE  ledger'[w][i].reason # "RAIN_PAYOUT"
  <2>1. TipPosted(r)
    BY <1>2, <1>4, TipEffect DEF moneyVars
  <2>2. PICK debit, credit :
          /\ PostsOne(req[r].from, debit) /\ TipRow(debit, r, "DEBIT")
          /\ PostsOne(req[r].to, credit) /\ TipRow(credit, r, "CREDIT")
    BY <2>1 DEF TipPosted
  <2>3. w = req[r].from \/ w = req[r].to
    BY <2>1, NoNewRow DEF TipPosted
  <2>4. CASE w = req[r].from
    BY <1>1, <2>2, <2>4, PostedRow DEF TipRow
  <2>5. CASE w = req[r].to
    BY <1>1, <2>2, <2>5, PostedRow DEF TipRow
  <2>6. QED  BY <2>3, <2>4, <2>5
<1>5. ASSUME NEW r \in Requests, ClaimPay(r)
      PROVE  ledger'[w][i].reason # "RAIN_PAYOUT"
  <2>1. ClaimPosted(r)
    BY <1>5, ClaimEffect
  <2>2. w = req[r].from
    BY <2>1, NoNewRow DEF ClaimPosted
  <2>3. PICK entry : PostsOne(w, entry) /\ entry.reason = "BONUS"
    BY <2>1, <2>2 DEF ClaimPosted
  <2>4. QED  BY <1>1, <2>3, PostedRow
<1>6. ASSUME NEW p \in Promos, NEW v \in Wallets, Redeem(p, v)
      PROVE  ledger'[w][i].reason # "RAIN_PAYOUT"
  <2>1. CodePosted(p, v)
    BY <1>1, <1>6, RedeemKind
  <2>2. w = v
    BY <2>1, NoNewRow DEF CodePosted
  <2>3. PICK entry : PostsOne(w, entry) /\ entry.reason = "BONUS"
    BY <2>1, <2>2 DEF CodePosted
  <2>4. QED  BY <1>1, <2>3, PostedRow
<1>7. ASSUME NEW r \in Requests, VaultStep(r)
      PROVE  ledger'[w][i].reason # "RAIN_PAYOUT"
  <2>1. CASE \E delta, key : Adjusted(req[r].from, delta, key)
    <3>1. req[r].from \in Wallets
      <4>1. req[r].op \in {"DEPOSIT", "WITHDRAW"} /\ req[r] # Idle
        <5>1. CASE SettleMatured(r)
          BY <1>2, <5>1 DEF SettleMatured, moneyVars
        <5>2. CASE ~SettleMatured(r)
          BY <1>7, <5>2 DEF VaultStep, VaultDebit, VaultCredit, ReadBalance, ReadLocks,
                            TakeFromVault, VaultPay, At, Idle
        <5>3. QED  BY <5>1, <5>2
      <4>2. req[r] \in DepositCalls \/ req[r] \in WithdrawCalls(req[r].seen)
        BY <1>1, <4>1, Shapes
      <4>3. QED  BY <4>2 DEF DepositCalls, WithdrawCalls
    <3>2. QED  BY <1>1, <2>1, <3>1, AdjustRows
  <2>2. CASE ~\E delta, key : Adjusted(req[r].from, delta, key)
    <3>1. UNCHANGED ledger
      BY <1>7, <2>2 DEF VaultStep, SettleMatured, VaultDebit, VaultCredit, ReadBalance,
                        ReadLocks, TakeFromVault, VaultPay, moneyVars
    <3>2. QED  BY <1>3, <3>1
  <2>3. QED  BY <2>1, <2>2
<1>8. ASSUME NEW r \in Requests, Serve(r)
      PROVE  ledger'[w][i].reason # "RAIN_PAYOUT"
  <2>1. CASE RainStep(r)
    <3>1. UNCHANGED ledger
      BY <2>1 DEF RainStep, RainCommit, ReadPrevious, RainRefused, moneyVars
    <3>2. QED  BY <1>3, <3>1
  <2>2. CASE LockWallet(r) \/ ClaimSum(r)
    BY <1>3, <2>2 DEF LockWallet, ClaimSum, moneyVars
  <2>3. QED  BY <1>4, <1>5, <1>7, <1>8, <2>1, <2>2 DEF Serve, AffiliateStep
<1>9. ASSUME NEW r \in Requests, Submit(r) \/ RolledBack(r)
      PROVE  UNCHANGED ledger
  BY <1>9 DEF Submit, RolledBack, TipCall, RainCall, DepositCall, WithdrawCall, ClaimCall,
              Start, Fail, DeadlockVictim, moneyVars
<1>10. CASE Next
  BY <1>3, <1>6, <1>8, <1>9, <1>10 DEF Next, Tick, AddCommission, moneyVars
<1>11. QED  BY <1>3, <1>10 DEF vars, moneyVars

\* A payout in a ledger.
PayoutRow(row, r, share) ==
  /\ row.reason = "RAIN_PAYOUT" /\ row.ref = req[r].settles
  /\ row.key = PayoutKey(r) /\ row.amount = share

OnePayout(r, w, k) ==
  /\ k \in NewRows(w)
  /\ PayoutRow(ledger'[w][k], r, Share(r, CHOOSE i \in Places(r, w) : TRUE))
  /\ \A i \in NewRows(w) \ {k} : ledger'[w][i].reason # "RAIN_PAYOUT"

LEMMA CommitRows ==
  ASSUME MoneyInv, NEW r \in Requests, RainCommit(r), NEW w \in Wallets
  PROVE  /\ Places(r, w) = {} => \A i \in NewRows(w) : ledger'[w][i].reason # "RAIN_PAYOUT"
         /\ Places(r, w) # {} => ~KeyUsed(w, PayoutKey(r)) /\ \E k : OnePayout(r, w, k)
<1>1. TypeOK
  BY DEF MoneyInv
<1>2. PICK rows : rows = ledger[w] /\ rows \in Seq(Elements(rows))
  BY <1>1 DEF TypeOK
<1>3. PICK share, paid : /\ share = Share(r, CHOOSE i \in Places(r, w) : TRUE)
                         /\ paid = PaidLedger(r)[w]
  OBVIOUS
<1>4. Places(r, w) = {} => paid = rows
  BY <1>2, <1>3 DEF PaidLedger
<1>5. Places(r, w) # {} => \E first : PayoutRow(first, r, share) /\ paid = Append(rows, first)
  <2> SUFFICES ASSUME Places(r, w) # {}
               PROVE  \E first : PayoutRow(first, r, share) /\ paid = Append(rows, first)
    OBVIOUS
  <2>1. PICK before, first :
          /\ before = req[r].read[w]
          /\ first = Entry("RAIN_PAYOUT", "CREDIT", share, before, before + share,
                           PayoutKey(r), req[r].settles)
    OBVIOUS
  <2>2. paid = Append(rows, first)
    BY <1>2, <1>3, <2>1 DEF PaidLedger
  <2>3. PayoutRow(first, r, share)
    BY <2>1, EntryFields DEF PayoutRow
  <2>4. QED  BY <2>2, <2>3
<1>6. \/ ledger'[w] = paid
      \/ \E second : second.reason = "RAIN_TIP" /\ ledger'[w] = Append(paid, second)
  <2>1. CASE LookCommit(r) \/ JoinCommit(r)
    BY <1>3, <2>1 DEF LookCommit, JoinCommit
  <2>2. CASE RainTipCommit(r)
    <3>1. PICK v, amount, before, after, key, n, second :
            /\ second = Entry("RAIN_TIP", "DEBIT", amount, before, after, key, n)
            /\ ledger' = [PaidLedger(r) EXCEPT ![v] = Append(@, second)]
      BY <2>2 DEF RainTipCommit
    <3>2. second.reason = "RAIN_TIP"
      BY <3>1, EntryFields
    <3>3. DOMAIN PaidLedger(r) = Wallets
      BY DEF PaidLedger
    <3>4. ledger'[w] = IF w = v THEN Append(paid, second) ELSE paid
      BY <1>3, <3>1, <3>3
    <3>5. QED  BY <3>2, <3>4
  <2>3. QED  BY <2>1, <2>2 DEF RainCommit
<1>7. CASE Places(r, w) = {}
  <2>1. CASE ledger'[w] = paid
    BY <1>2, <1>4, <1>7, <2>1 DEF NewRows
  <2>2. ASSUME NEW second, second.reason = "RAIN_TIP", ledger'[w] = Append(paid, second)
        PROVE  \A i \in NewRows(w) : ledger'[w][i].reason # "RAIN_PAYOUT"
    <3>1. ledger'[w] = Append(ledger[w], second)
      BY <1>2, <1>4, <1>7, <2>2
    <3>2. PICK k : NewRows(w) = {k} /\ ledger'[w][k] = second
      BY <1>1, <3>1, OneNewRow, Zenon
    <3>3. QED  BY <2>2, <3>2
  <2>3. QED  BY <1>6, <1>7, <2>1, <2>2
<1>8. CASE Places(r, w) # {}
  <2>1. PICK first : PayoutRow(first, r, share) /\ paid = Append(rows, first)
    BY <1>5, <1>8
  <2>2. ~KeyUsed(w, PayoutKey(r))
    BY <1>8 DEF RainCommit, LookCommit, JoinCommit, RainTipCommit, Payable
  <2>3. PICK k : k = Len(rows) + 1
    OBVIOUS
  <2>4. /\ DOMAIN paid = DOMAIN rows \cup {k} /\ k \notin DOMAIN rows
        /\ paid[k] = first
    BY <1>2, <2>1, <2>3, OneRowMore
  <2>5. CASE ledger'[w] = paid
    <3>1. NewRows(w) = {k}
      BY <1>2, <2>4, <2>5 DEF NewRows
    <3>2. QED  BY <1>3, <1>8, <2>1, <2>2, <2>4, <2>5, <3>1 DEF OnePayout
  <2>6. ASSUME NEW second, second.reason = "RAIN_TIP", ledger'[w] = Append(paid, second)
        PROVE  OnePayout(r, w, k)
    <3>1. paid \in Seq(Elements(paid))
      BY <1>2, <2>1, LedgerGrows
    <3>2. /\ DOMAIN ledger'[w] = DOMAIN paid \cup {Len(paid) + 1}
          /\ ledger'[w][Len(paid) + 1] = second
          /\ \A i \in DOMAIN paid : ledger'[w][i] = paid[i]
      BY <2>6, <3>1, OneRowMore
    <3>3. k \in NewRows(w) /\ ledger'[w][k] = first
      BY <1>2, <2>4, <3>2 DEF NewRows
    <3>4. \A i \in NewRows(w) \ {k} : ledger'[w][i] = second
      BY <1>2, <2>4, <3>2 DEF NewRows
    <3>5. QED  BY <1>3, <2>1, <2>6, <3>3, <3>4 DEF OnePayout
  <2>7. QED  BY <1>6, <1>8, <2>2, <2>5, <2>6
<1>9. QED  BY <1>7, <1>8

\* The shares of a pot among those who joined: everyone is paid something, since
\* the base amount has a unit for every wallet.
ShareOf(r, c, i) == (req[r].pot \div c) + (IF i <= req[r].pot % c THEN 1 ELSE 0)

LEMMA ShareOut ==
  ASSUME TypeOK, NEW r \in Requests, NEW n \in Rounds, Settles(req[r], n),
         Snapshot(req[r]) # {}
  PROVE  \E c \in Nat \ {0} :
           /\ c = Cardinality(Snapshot(req[r])) /\ DOMAIN req[r].joined = 1..c
           /\ req[r].pot \in Nat
           /\ \A i \in 1..c : /\ Share(r, i) = ShareOf(r, c, i) /\ Share(r, i) \in Nat \ {0}
                              /\ req[r].joined[i] \in Wallets
                              /\ Places(r, req[r].joined[i]) = {i}
           /\ \A w : w \notin Snapshot(req[r]) => Places(r, w) = {}
           /\ \A i, j \in 1..c : req[r].joined[i] = req[r].joined[j] => i = j
           /\ \A w \in Snapshot(req[r]) : \E i \in 1..c : w = req[r].joined[i]
<1>1. PICK S, joined, pot, c :
        /\ S = Snapshot(req[r]) /\ joined = req[r].joined /\ pot = req[r].pot
        /\ c = Cardinality(S)
  OBVIOUS
<1>2. S \subseteq Wallets /\ joined \in Orders(S)
  BY <1>1 DEF Settles, SettlesOf, TypeOK, RainRows
<1>3. /\ c \in Nat /\ IsFiniteSet(S) /\ joined \in Seq(Wallets) /\ Len(joined) = c
      /\ DOMAIN joined = 1..c
      /\ \A i, j \in 1..c : joined[i] = joined[j] => i = j
  BY <1>1, <1>2, OrderOf
<1>4. c # 0
  BY <1>1, <1>3, FS_EmptySet
<1>5. pot \in Nat /\ pot >= c
  <2>1. c <= Cardinality(Wallets) /\ Cardinality(Wallets) \in Nat
    BY <1>1, <1>2, WalletLocksAssumption, FS_Subset, FS_CardinalityType
  <2>2. RainBase \in Nat /\ RainBase >= Cardinality(Wallets)
    BY RainAssumption
  <2>3. rain[n].tipped \in Nat
    BY DEF TypeOK, RainRows
  <2>4. pot \in RainBase..(RainBase + rain[n].tipped)
    BY <1>1 DEF Settles, SettlesOf
  <2>5. QED  BY <1>3, <2>1, <2>2, <2>3, <2>4
<1>6. PICK q, m : q = pot \div c /\ m = pot % c /\ q \in Nat /\ m \in Nat /\ q >= 1
  <2>1. pot \div c \in Nat /\ pot % c \in 0..(c - 1) /\ pot = c * (pot \div c) + (pot % c)
    BY <1>3, <1>4, <1>5
  <2>2. pot \div c # 0
    BY <1>3, <1>4, <1>5, <2>1
  <2>3. QED  BY <1>3, <2>1, <2>2
<1>7. ASSUME NEW i \in 1..c
      PROVE  /\ Share(r, i) = ShareOf(r, c, i) /\ Share(r, i) \in Nat \ {0}
             /\ joined[i] \in Wallets
  <2>1. Share(r, i) = q + (IF i <= m THEN 1 ELSE 0)
    BY <1>1, <1>3, <1>6 DEF Share
  <2>2. ShareOf(r, c, i) = q + (IF i <= m THEN 1 ELSE 0)
    BY <1>1, <1>6 DEF ShareOf
  <2>3. q + (IF i <= m THEN 1 ELSE 0) \in Nat \ {0}
    BY <1>6
  <2>4. QED  BY <1>3, <2>1, <2>2, <2>3
<1>8. ASSUME NEW i \in 1..c
      PROVE  Places(r, joined[i]) = {i}
  BY <1>1, <1>3, <1>7 DEF Places
<1>9. \A w : w \notin S => Places(r, w) = {}
  BY <1>1 DEF Places, Snapshot, Elements
<1>10. \A w \in S : \E i \in 1..c : w = joined[i]
  BY <1>1, <1>3 DEF Snapshot, Elements
<1>11. c \in Nat \ {0}
  BY <1>3, <1>4
<1>12. QED  BY <1>1, <1>3, <1>5, <1>7, <1>8, <1>9, <1>10, <1>11

\* Whom a commit pays has not been paid for the round before.
LEMMA NobodyPaid ==
  ASSUME MoneyInv, RainInv, NEW r \in Requests, RainCommit(r), NEW n \in Rounds,
         Settles(req[r], n), Nested(Snapshot(req[r]), PaidTo(n)), Snapshot(req[r]) # {}
  PROVE  PayoutRows(n) = {}
<1> SUFFICES ASSUME PayoutRows(n) # {}
             PROVE  FALSE
  OBVIOUS
<1>1. PICK v : v \in Snapshot(req[r]) /\ v \in PaidTo(n)
  <2>1. PaidTo(n) # {}
    BY DEF PaidTo
  <2>2. QED  BY <2>1 DEF Nested
<1>2. PICK x \in PayoutRows(n) : x[1] = v
  BY <1>1 DEF PaidTo
<1>3. PICK w, i : w \in Wallets /\ i \in DOMAIN ledger[w] /\ x = <<w, i>>
  BY <1>2, PayoutPairs, PairsOf
<1>4. ledger[v][i].key = <<"rain", {n}>> /\ v \in Wallets /\ i \in DOMAIN ledger[v]
  BY <1>2, <1>3 DEF RainInv, RoundPaid
<1>5. KeyUsed(v, PayoutKey(r))
  BY <1>4 DEF KeyUsed, PayoutKey, Settles, SettlesOf
<1>6. Places(r, v) # {}
  <2>1. TypeOK
    BY DEF MoneyInv
  <2>2. PICK c \in Nat \ {0} :
          /\ \A m \in 1..c : /\ Share(r, m) = ShareOf(r, c, m) /\ Share(r, m) \in Nat \ {0}
                             /\ req[r].joined[m] \in Wallets
                             /\ Places(r, req[r].joined[m]) = {m}
          /\ \A u \in Snapshot(req[r]) : \E m \in 1..c : u = req[r].joined[m]
    BY <2>1, ShareOut
  <2>3. PICK j \in 1..c : v = req[r].joined[j]
    BY <1>1, <2>2
  <2>4. QED  BY <2>2, <2>3
<1>7. QED  BY <1>4, <1>5, <1>6, CommitRows

\* A commit pays a round that nobody was paid for: the whole pot, each of those
\* it read once.
LEMMA CommitPays ==
  ASSUME MoneyInv, NEW r \in Requests, RainCommit(r), NEW n \in Rounds,
         Settles(req[r], n), Snapshot(req[r]) # {}, PayoutRows(n) = {},
         \A w \in Wallets : RowsStay(w)
  PROVE  /\ RoundPaid(n, PayoutRows(n)', ledger', Snapshot(req[r]), rain[n].tipped)
         /\ PaidTo(n)' = Snapshot(req[r])
<1>1. TypeOK
  BY DEF MoneyInv
<1>2. PICK joined, pot, S, T :
        joined = req[r].joined /\ pot = req[r].pot /\ S = Snapshot(req[r]) /\ T = PayoutRows(n)'
  OBVIOUS
<1>3. PICK c \in Nat \ {0} :
        /\ c = Cardinality(S) /\ pot \in Nat
        /\ \A i \in 1..c : /\ Share(r, i) = ShareOf(r, c, i) /\ Share(r, i) \in Nat \ {0}
                           /\ joined[i] \in Wallets /\ Places(r, joined[i]) = {i}
        /\ \A w : w \notin S => Places(r, w) = {}
        /\ \A i, j \in 1..c : joined[i] = joined[j] => i = j
        /\ \A w \in S : \E i \in 1..c : w = joined[i]
        /\ DOMAIN joined = 1..c
  BY <1>1, <1>2, ShareOut
<1>4. PICK I : I = 1..c
  OBVIOUS
<1>5. \A i \in I : \E k : OnePayout(r, joined[i], k)
  BY <1>3, <1>4, CommitRows
<1>6. PICK row : row = [i \in I |-> CHOOSE k : OnePayout(r, joined[i], k)]
  OBVIOUS
<1>7. \A i \in I : OnePayout(r, joined[i], row[i])
  BY <1>5, <1>6
<1>8. PICK h, share, paid :
        /\ h = [i \in I |-> <<joined[i], row[i]>>]
        /\ share = [i \in I |-> Share(r, i)]
        /\ paid = [x \in T |-> ledger'[x[1]][x[2]].amount]
  OBVIOUS
<1>9. ASSUME NEW i \in I
      PROVE  /\ h[i] \in T /\ ledger'[joined[i]][row[i]].amount = share[i]
             /\ ledger'[joined[i]][row[i]].key = <<"rain", {n}>>
  <2>1. PICK w, k : w = joined[i] /\ k = row[i] /\ w \in Wallets /\ OnePayout(r, w, k)
    BY <1>3, <1>4, <1>7
  <2>2. Places(r, w) = {i}
    BY <1>3, <1>4, <2>1
  <2>3. k \in NewRows(w) /\ PayoutRow(ledger'[w][k], r, Share(r, i))
    BY <2>1, <2>2 DEF OnePayout
  <2>4. IsPayout(ledger'[w][k], n) /\ ledger'[w][k].key = <<"rain", {n}>>
    BY <2>3 DEF PayoutRow, IsPayout, Settles, SettlesOf, PayoutKey
  <2>5. <<w, k>> \in Pairs(ledger')
    BY <2>1, <2>3, PairsOf DEF NewRows
  <2>6. <<w, k>> \in PayoutRows(n)'
    BY <2>4, <2>5, PayoutPairs
  <2>7. QED  BY <1>2, <1>8, <2>1, <2>3, <2>4, <2>6 DEF PayoutRow
<1>10. ASSUME NEW x \in T
       PROVE  \E i \in I : h[i] = x
  <2>1. PICK w, j : /\ w \in Wallets /\ j \in DOMAIN ledger'[w] /\ x = <<w, j>>
                    /\ IsPayout(ledger'[w][j], n)
    BY <1>2, PayoutPairs, PairsOf
  <2>2. j \in NewRows(w)
    <3> SUFFICES ASSUME j \in DOMAIN ledger[w]
                 PROVE  FALSE
      BY <2>1 DEF NewRows
    <3>1. ledger'[w][j] = ledger[w][j]
      BY <2>1 DEF RowsStay
    <3>2. x \in Pairs(ledger)
      BY <2>1, PairsOf
    <3>3. x \in PayoutRows(n)
      BY <2>1, <3>1, <3>2, PayoutPairs
    <3>4. QED  BY <3>3
  <2>3. ledger'[w][j].reason = "RAIN_PAYOUT"
    BY <2>1 DEF IsPayout
  <2>4. Places(r, w) # {}
    BY <2>1, <2>2, <2>3, CommitRows
  <2>5. PICK i \in I : w = joined[i]
    BY <1>3, <1>4, <2>4
  <2>6. j = row[i]
    BY <1>7, <2>2, <2>3, <2>5 DEF OnePayout
  <2>7. QED  BY <1>8, <2>1, <2>5, <2>6
<1>11. h \in Bijection(I, T)
  <2>1. \A i, j \in I : h[i] = h[j] => i = j
    BY <1>3, <1>4, <1>8
  <2>2. h \in [I -> T]
    BY <1>8, <1>9
  <2>3. QED  BY <1>10, <2>1, <2>2 DEF Bijection, Injection, Surjection, IsInjective
<1>12. IsFiniteSet(I) /\ Cardinality(I) = c
  <2>1. 1 \in Int /\ c \in Int
    OBVIOUS
  <2>2. /\ IsFiniteSet(1..c)
        /\ Cardinality(1..c) = IF 1 > c THEN 0 ELSE c - 1 + 1
    BY <2>1, FS_Interval
  <2>3. QED  BY <1>4, <2>2
<1>13. IsFiniteSet(T) /\ Cardinality(T) = c
  <2>1. ExistsBijection(I, T)
    BY <1>11 DEF ExistsBijection
  <2>2. QED  BY <1>12, <2>1, FS_Bijection
<1>14. Total(paid, T) = Total(share, I)
  <2>1. \A i \in I : share[i] \in Nat /\ paid[h[i]] = share[i]
    <3> TAKE i \in I
    <3>1. h[i] \in T /\ h[i] = <<joined[i], row[i]>>
      BY <1>8, <1>9
    <3>2. paid[h[i]] = ledger'[joined[i]][row[i]].amount
      BY <1>8, <3>1
    <3>3. QED  BY <1>3, <1>4, <1>8, <1>9, <3>2
  <2>2. QED  BY <1>11, <1>12, <2>1, TotalRenamed
<1>15. Total(share, I) = pot
  <2>1. \A i \in 1..c : ShareOf(r, c, i) = (pot \div c) + (IF i <= pot % c THEN 1 ELSE 0)
    BY <1>2 DEF ShareOf
  <2>2. \A i \in 1..c : share[i] = ShareOf(r, c, i)
    BY <1>3, <1>4, <1>8
  <2>3. \A i \in 1..c : share[i] = (pot \div c) + (IF i <= pot % c THEN 1 ELSE 0)
    BY <2>1, <2>2
  <2>4. Total(share, 1..c) = pot
    <3>1. pot \in Nat /\ c \in Nat \ {0}
      BY <1>3
    <3>2. QED  BY ONLY <2>3, <3>1, TotalShared
  <2>5. QED  BY <1>4, <2>4
<1>16. \A x \in T : /\ ledger'[x[1]][x[2]].key = <<"rain", {n}>>
                    /\ ledger'[x[1]][x[2]].amount \in Nat
                    /\ x[1] \in S
  <2> TAKE x \in T
  <2>1. PICK i \in I : h[i] = x
    BY <1>10
  <2>2. x[1] = joined[i] /\ x[2] = row[i]
    BY <1>8, <2>1
  <2>3. joined[i] \in S /\ share[i] \in Nat
    BY <1>2, <1>3, <1>4, <1>8 DEF Snapshot, Elements
  <2>4. QED  BY <1>9, <2>2, <2>3
<1>17. {x[1] : x \in T} = S
  <2>1. \A w \in S : \E x \in T : x[1] = w
    <3> TAKE w \in S
    <3>1. PICK i \in I : w = joined[i]
      BY <1>3, <1>4
    <3>2. h[i] \in T /\ h[i][1] = w
      BY <1>8, <1>9, <3>1
    <3>3. QED  BY <3>2
  <2>2. QED  BY <1>16, <2>1
<1>18. PaidOf(T, ledger') = pot
  BY <1>8, <1>14, <1>15 DEF PaidOf
<1>19. pot <= RainBase + rain[n].tipped /\ pot >= RainBase
  <2>1. rain[n].tipped \in Nat /\ RainBase \in Nat
    BY <1>1, RainAssumption DEF TypeOK, RainRows
  <2>2. pot \in RainBase..(RainBase + rain[n].tipped)
    BY <1>2 DEF Settles, SettlesOf
  <2>3. QED  BY <2>1, <2>2
<1>20. RoundPaid(n, T, ledger', S, rain[n].tipped)
  BY <1>3, <1>13, <1>16, <1>17, <1>18, <1>19 DEF RoundPaid
<1>21. PaidTo(n)' = {x[1] : x \in T}
  BY <1>2 DEF PaidTo
<1>22. QED  BY <1>2, <1>17, <1>20, <1>21

-----------------------------------------------------------------------------
(***************************************************************************)
(* The rain's invariant is kept.                                           *)
(***************************************************************************)

\* More joins and tips leave a round paid as it was.
LEMMA RoundGrows ==
  ASSUME NEW n, NEW rows, NEW book, NEW joins, NEW tipped \in Nat,
         RoundPaid(n, rows, book, joins, tipped),
         NEW new, \A x \in rows : new[x[1]][x[2]] = book[x[1]][x[2]],
         NEW more, joins \subseteq more, NEW later \in Nat, tipped <= later
  PROVE  RoundPaid(n, rows, new, more, later)
<1>1. PICK f, g : /\ f = [x \in rows |-> book[x[1]][x[2]].amount]
                  /\ g = [x \in rows |-> new[x[1]][x[2]].amount]
  OBVIOUS
<1>2. f = g
  BY <1>1
<1>3. PaidOf(rows, new) = PaidOf(rows, book)
  BY <1>1, <1>2 DEF PaidOf
<1>4. PaidOf(rows, book) \in Nat
  <2>1. IsFiniteSet(rows) /\ \A x \in rows : f[x] \in Nat
    BY <1>1 DEF RoundPaid
  <2>2. Total(f, rows) \in Nat
    BY <2>1, TotalType
  <2>3. QED  BY <1>1, <2>2 DEF PaidOf
<1>5. PaidOf(rows, new) <= RainBase + later
  <2>1. PaidOf(rows, book) <= RainBase + tipped /\ RainBase \in Nat
    BY RainAssumption DEF RoundPaid
  <2>2. QED  BY <1>3, <1>4, <2>1
<1>6. \A x \in rows : /\ new[x[1]][x[2]].key = <<"rain", {n}>>
                      /\ new[x[1]][x[2]].amount \in Nat /\ x[1] \in more
  BY DEF RoundPaid
<1>7. QED  BY <1>3, <1>5, <1>6 DEF RoundPaid

\* A commit is made by a call that has read what it settles.
LEMMA CommitSettles ==
  ASSUME SnapshotsNest, NEW r \in Requests, RainCommit(r)
  PROVE  /\ Settling(req[r])
         /\ \/ Nothing(req[r])
            \/ \E n \in Rounds : /\ Settles(req[r], n)
                                 /\ Nested(Snapshot(req[r]), PaidTo(n))
<1>1. Settling(req[r])
  BY DEF RainCommit, LookCommit, JoinCommit, RainTipCommit, Ready, Settling, RainOps, Idle
<1>2. QED  BY <1>1 DEF SnapshotsNest

\* Those paid for a round are those paid before, or the snapshot of the call that
\* has just paid them.
LEMMA RoundStep ==
  ASSUME MoneyInv, RainInv, [Next]_vars, NEW n \in Rounds
  PROVE  /\ RoundPaid(n, PayoutRows(n)', ledger', rain'[n].joins, rain'[n].tipped)
         /\ \/ PaidTo(n)' = PaidTo(n)
            \/ \E r \in Requests : /\ Settling(req[r]) /\ req[r].settles = {n}
                                   /\ PaidTo(n)' = Snapshot(req[r])
<1>1. TypeOK /\ \A w \in Wallets : RowsStay(w)
  BY StepKind, RowsKept DEF MoneyInv, Kind
<1>2. /\ rain[n] \in RainRows /\ rain'[n] \in RainRows
      /\ rain[n].joins \subseteq rain'[n].joins /\ rain[n].tipped <= rain'[n].tipped
  BY <1>1, RainGrows
<1>3. PICK joins, tipped, more, later :
        /\ joins = rain[n].joins /\ tipped = rain[n].tipped
        /\ more = rain'[n].joins /\ later = rain'[n].tipped
        /\ tipped \in Nat /\ later \in Nat /\ joins \subseteq more /\ tipped <= later
  BY <1>2 DEF RainRows
<1>4. RoundPaid(n, PayoutRows(n), ledger, joins, tipped) /\ SnapshotsNest
  BY <1>3 DEF RainInv
<1>5. ASSUME \A w \in Wallets : \A i \in NewRows(w) : ~IsPayout(ledger'[w][i], n)
      PROVE  /\ RoundPaid(n, PayoutRows(n)', ledger', more, later)
             /\ PaidTo(n)' = PaidTo(n)
  <2>1. /\ PayoutRows(n)' = PayoutRows(n)
        /\ \A x \in PayoutRows(n) : ledger'[x[1]][x[2]] = ledger[x[1]][x[2]]
    BY <1>1, <1>5, PayoutsSame
  <2>2. PICK rows, old, new : rows = PayoutRows(n) /\ old = ledger /\ new = ledger'
    OBVIOUS
  <2>3. RoundPaid(n, rows, new, more, later)
    <3>1. RoundPaid(n, rows, old, joins, tipped)
      BY <1>4, <2>2
    <3>2. \A x \in rows : new[x[1]][x[2]] = old[x[1]][x[2]]
      BY <2>1, <2>2
    <3>3. QED  BY <1>3, <3>1, <3>2, RoundGrows
  <2>4. PaidTo(n)' = {x[1] : x \in PayoutRows(n)'}
    BY DEF PaidTo
  <2>5. QED  BY <2>1, <2>2, <2>3, <2>4 DEF PaidTo
<1>6. CASE \A r \in Requests : ~RainCommit(r)
  <2>1. \A w \in Wallets : \A i \in NewRows(w) : ~IsPayout(ledger'[w][i], n)
    BY <1>6, OtherRows DEF IsPayout
  <2>2. QED  BY <1>3, <1>5, <2>1
<1>7. ASSUME NEW r \in Requests, RainCommit(r), \A w \in Wallets : Places(r, w) = {}
      PROVE  \A w \in Wallets : \A i \in NewRows(w) : ~IsPayout(ledger'[w][i], n)
  BY <1>7, CommitRows DEF IsPayout
<1>8. ASSUME NEW r \in Requests, RainCommit(r), req[r].settles # {n}
      PROVE  \A w \in Wallets : \A i \in NewRows(w) : ~IsPayout(ledger'[w][i], n)
  <2> TAKE w \in Wallets
  <2> TAKE i \in NewRows(w)
  <2>1. CASE Places(r, w) = {}
    BY <1>8, <2>1, CommitRows DEF IsPayout
  <2>2. CASE Places(r, w) # {}
    <3>1. PICK k : OnePayout(r, w, k)
      BY <1>8, <2>2, CommitRows
    <3>2. QED  BY <1>8, <3>1 DEF OnePayout, PayoutRow, IsPayout
  <2>3. QED  BY <2>1, <2>2
<1>9. ASSUME NEW r \in Requests, RainCommit(r), Snapshot(req[r]) = {}
      PROVE  \A w \in Wallets : Places(r, w) = {}
  BY <1>9 DEF Places, Snapshot, Elements
<1>10. ASSUME NEW r \in Requests, RainCommit(r)
       PROVE  /\ RoundPaid(n, PayoutRows(n)', ledger', more, later)
              /\ \/ PaidTo(n)' = PaidTo(n)
                 \/ /\ Settling(req[r]) /\ req[r].settles = {n}
                    /\ PaidTo(n)' = Snapshot(req[r])
  <2>1. CASE req[r].settles # {n} \/ Snapshot(req[r]) = {}
    BY <1>5, <1>7, <1>8, <1>9, <1>10, <2>1
  <2>2. CASE req[r].settles = {n} /\ Snapshot(req[r]) # {}
    <3>1. /\ Settling(req[r]) /\ Settles(req[r], n)
          /\ Nested(Snapshot(req[r]), PaidTo(n))
      <4>1. ~Nothing(req[r])
        BY <2>2 DEF Nothing
      <4>2. PICK m \in Rounds : Settles(req[r], m) /\ Nested(Snapshot(req[r]), PaidTo(m))
        BY <1>4, <1>10, <4>1, CommitSettles
      <4>3. m = n
        BY <2>2, <4>2 DEF Settles, SettlesOf
      <4>4. QED  BY <1>4, <1>10, <4>2, <4>3, CommitSettles
    <3>2. PayoutRows(n) = {}
      BY <1>10, <2>2, <3>1, NobodyPaid
    <3>3. /\ RoundPaid(n, PayoutRows(n)', ledger', Snapshot(req[r]), tipped)
          /\ PaidTo(n)' = Snapshot(req[r])
      BY <1>1, <1>3, <1>10, <2>2, <3>1, <3>2, CommitPays
    <3>4. PICK rows, book, S : rows = PayoutRows(n)' /\ book = ledger' /\ S = Snapshot(req[r])
      OBVIOUS
    <3>5. S \subseteq more
      BY <1>3, <3>1, <3>4 DEF Settles, SettlesOf
    <3>6. RoundPaid(n, rows, book, more, later)
      <4>1. RoundPaid(n, rows, book, S, tipped)
        BY <3>3, <3>4
      <4>2. \A x \in rows : book[x[1]][x[2]] = book[x[1]][x[2]]
        OBVIOUS
      <4>3. QED  BY <1>3, <3>5, <4>1, <4>2, RoundGrows
    <3>7. QED  BY <2>2, <3>1, <3>3, <3>4, <3>6
  <2>3. QED  BY <2>1, <2>2
<1>11. QED  BY <1>3, <1>6, <1>10

\* What SnapshotsNest says of one call, in a state with these calls and rounds.
NestsWith(call, others, n, row, paid) ==
  /\ SettlesOf(call, n, row) /\ Nested(Snapshot(call), paid)
  /\ \A q \in Requests : Settling(others[q]) /\ others[q].settles = {n} =>
       Nested(Snapshot(call), Snapshot(others[q]))

LEMMA NestParts ==
  /\ SnapshotsNest <=> \A r \in Requests : Settling(req[r]) =>
       \/ Nothing(req[r])
       \/ \E n \in Rounds : NestsWith(req[r], req, n, rain[n], PaidTo(n))
  /\ SnapshotsNest' <=> \A r \in Requests : Settling(req'[r]) =>
       \/ Nothing(req'[r])
       \/ \E n \in Rounds : NestsWith(req'[r], req', n, rain'[n], PaidTo(n)')
<1>1. SnapshotsNest <=> \A r \in Requests : Settling(req[r]) =>
       \/ Nothing(req[r])
       \/ \E n \in Rounds : NestsWith(req[r], req, n, rain[n], PaidTo(n))
  BY Zenon DEF SnapshotsNest, NestsWith, Settles
<1>2. SnapshotsNest' <=> \A r \in Requests : Settling(req'[r]) =>
       \/ Nothing(req'[r])
       \/ \E n \in Rounds : NestsWith(req'[r], req', n, rain'[n], PaidTo(n)')
  BY Zenon DEF SnapshotsNest, NestsWith, Settles, SettlesOf, Settling, Nothing, Snapshot,
               Elements, Nested
<1>3. QED  BY <1>1, <1>2

\* A call that settles a round, and a round's joins that only grow.
LEMMA SettlesMore ==
  ASSUME TypeOK, [Next]_vars, NEW n \in Rounds, NEW old, NEW new, SettlesOf(old, n, rain[n]),
         new.joined = old.joined, new.pot = old.pot, new.settles = old.settles
  PROVE  SettlesOf(new, n, rain'[n]) /\ Snapshot(new) = Snapshot(old)
<1>1. /\ rain[n] \in RainRows /\ rain'[n] \in RainRows
      /\ rain[n].joins \subseteq rain'[n].joins /\ rain[n].tipped <= rain'[n].tipped
  BY RainGrows
<1>2. Snapshot(new) = Snapshot(old)
  BY DEF Snapshot
<1>3. new.pot \in RainBase..(RainBase + rain'[n].tipped)
  <2>1. old.pot \in RainBase..(RainBase + rain[n].tipped) /\ RainBase \in Nat
    BY RainAssumption DEF SettlesOf
  <2>2. rain[n].tipped \in Nat /\ rain'[n].tipped \in Nat
    BY <1>1 DEF RainRows
  <2>3. QED  BY <1>1, <2>1, <2>2
<1>4. QED  BY <1>1, <1>2, <1>3 DEF SettlesOf

\* A call that has just read the round it settles.
LEMMA FreshSettles ==
  ASSUME TypeOK, NEW n \in Rounds, NEW call, Fresh(call, n)
  PROVE  SettlesOf(call, n, rain[n]) /\ Snapshot(call) = rain[n].joins
<1>1. rain[n] \in RainRows
  BY DEF TypeOK
<1>2. rain[n].joins \subseteq Wallets /\ rain[n].tipped \in Nat /\ RainBase \in Nat
  BY <1>1, RainAssumption DEF RainRows
<1>3. Snapshot(call) = rain[n].joins
  BY <1>2, OrderOf DEF Snapshot, Fresh
<1>4. call.pot \in RainBase..(RainBase + rain[n].tipped)
  BY <1>2 DEF Fresh
<1>5. QED  BY <1>3, <1>4 DEF SettlesOf, Fresh

LEMMA NestStep ==
  ASSUME MoneyInv, RainInv, [Next]_vars
  PROVE  SnapshotsNest'
<1>1. /\ TypeOK
      /\ \A r \in Requests : Settling(req[r]) =>
           \/ Nothing(req[r])
           \/ \E n \in Rounds : NestsWith(req[r], req, n, rain[n], PaidTo(n))
  BY NestParts DEF MoneyInv, RainInv
<1>2. \A n, m : {n} = {m} => n = m
  OBVIOUS
\* Another call that settles the round has read some of its joins.
<1>3. ASSUME NEW n \in Rounds, NEW q \in Requests, Settling(req[q]), req[q].settles = {n}
      PROVE  Snapshot(req[q]) \subseteq rain[n].joins
  <2>1. ~Nothing(req[q])
    BY <1>3 DEF Nothing
  <2>2. PICK m \in Rounds : SettlesOf(req[q], m, rain[m])
    BY <1>1, <1>3, <2>1 DEF NestsWith
  <2>3. m = n
    BY <1>2, <1>3, <2>2 DEF SettlesOf
  <2>4. QED  BY <2>2, <2>3 DEF SettlesOf
<1>4. \A n \in Rounds : PaidTo(n) \subseteq rain[n].joins
  BY DEF RainInv, RoundPaid, PaidTo
<1>5. ASSUME NEW q \in Requests, NEW n \in Rounds, ReadPrevious(q),
             Settling(req'[q]), req'[q].settles = {n}
      PROVE  Fresh(req'[q], n)
  <2>1. ~Nothing(req'[q])
    BY <1>5 DEF Nothing
  <2>2. PICK m \in Rounds : Fresh(req'[q], m)
    BY <1>1, <1>5, <2>1, SnapshotRead
  <2>3. m = n
    BY <1>2, <1>5, <2>2 DEF Fresh
  <2>4. QED  BY <2>2, <2>3
<1>6. ASSUME NEW r \in Requests, Settling(req'[r]), ReadPrevious(r), NEW n \in Rounds,
             Fresh(req'[r], n)
      PROVE  NestsWith(req'[r], req', n, rain'[n], PaidTo(n)')
  <2>1. /\ rain' = rain /\ ledger' = ledger
        /\ \A q \in Requests \ {r} : req'[q] = req[q]
    BY <1>1, <1>6, SnapshotRead DEF moneyVars
  <2>2. SettlesOf(req'[r], n, rain[n]) /\ Snapshot(req'[r]) = rain[n].joins
    BY <1>1, <1>6, FreshSettles
  <2>3. PaidTo(n)' = PaidTo(n)
    BY <2>1 DEF PaidTo, PayoutRows
  <2>4. Nested(Snapshot(req'[r]), PaidTo(n)')
    BY <1>4, <2>2, <2>3 DEF Nested
  <2>5. ASSUME NEW q \in Requests, Settling(req'[q]), req'[q].settles = {n}
        PROVE  Nested(Snapshot(req'[r]), Snapshot(req'[q]))
    <3>1. CASE q = r
      BY <3>1 DEF Nested
    <3>2. CASE q # r
      BY <1>3, <2>1, <2>2, <2>5, <3>2 DEF Nested
    <3>3. QED  BY <3>1, <3>2
  <2>6. QED  BY <2>1, <2>2, <2>4, <2>5 DEF NestsWith
<1>7. ASSUME NEW r \in Requests, SameSnapshot(req[r], req'[r]), NEW n \in Rounds,
             NestsWith(req[r], req, n, rain[n], PaidTo(n))
      PROVE  NestsWith(req'[r], req', n, rain'[n], PaidTo(n)')
  <2>1. SettlesOf(req[r], n, rain[n]) /\ Nested(Snapshot(req[r]), PaidTo(n))
    BY <1>7 DEF NestsWith
  <2>2. SettlesOf(req'[r], n, rain'[n]) /\ Snapshot(req'[r]) = Snapshot(req[r])
    BY <1>1, <1>7, <2>1, SettlesMore DEF SameSnapshot
  <2>3. \A q \in Requests : Settling(req[q]) /\ req[q].settles = {n} =>
          Nested(Snapshot(req[r]), Snapshot(req[q]))
    BY <1>7 DEF NestsWith
  <2>4. Nested(Snapshot(req'[r]), PaidTo(n)')
    <3>1. CASE PaidTo(n)' = PaidTo(n)
      BY <2>1, <2>2, <3>1
    <3>2. CASE \E q \in Requests : /\ Settling(req[q]) /\ req[q].settles = {n}
                                   /\ PaidTo(n)' = Snapshot(req[q])
      BY <2>2, <2>3, <3>2
    <3>3. QED  BY <3>1, <3>2, RoundStep
  <2>5. ASSUME NEW q \in Requests, Settling(req'[q]), req'[q].settles = {n}
        PROVE  Nested(Snapshot(req'[r]), Snapshot(req'[q]))
    <3>1. CASE SameSnapshot(req[q], req'[q])
      <4>1. /\ Settling(req[q]) /\ req[q].settles = {n}
            /\ Snapshot(req'[q]) = Snapshot(req[q])
        BY <2>5, <3>1 DEF SameSnapshot, Snapshot
      <4>2. QED  BY <2>2, <2>3, <4>1
    <3>2. CASE ReadPrevious(q)
      <4>1. Snapshot(req'[q]) = rain[n].joins
        BY <1>1, <1>5, <2>5, <3>2, FreshSettles
      <4>2. Snapshot(req[r]) \subseteq rain[n].joins
        BY <2>1 DEF SettlesOf
      <4>3. QED  BY <2>2, <4>1, <4>2 DEF Nested
    <3>3. QED  BY <1>1, <2>5, <3>1, <3>2, SettlersStep
  <2>6. QED  BY <2>2, <2>4, <2>5 DEF NestsWith
<1>8. ASSUME NEW r \in Requests, Settling(req'[r])
      PROVE  \/ Nothing(req'[r])
             \/ \E n \in Rounds : NestsWith(req'[r], req', n, rain'[n], PaidTo(n)')
  <2>1. CASE SameSnapshot(req[r], req'[r])
    <3>1. CASE Nothing(req[r])
      BY <2>1, <3>1 DEF SameSnapshot, Nothing
    <3>2. CASE \E n \in Rounds : NestsWith(req[r], req, n, rain[n], PaidTo(n))
      BY <1>7, <2>1, <3>2
    <3>3. QED  BY <1>1, <2>1, <3>1, <3>2 DEF SameSnapshot
  <2>2. CASE ReadPrevious(r)
    BY <1>1, <1>6, <1>8, <2>2, SnapshotRead
  <2>3. QED  BY <1>1, <1>8, <2>1, <2>2, SettlersStep
<1>9. QED  BY <1>8, NestParts

LEMMA RainInvStep ==
  ASSUME MoneyInv, RainInv, [Next]_vars
  PROVE  RainInv'
<1>1. RainInv' <=> /\ SnapshotsNest'
                   /\ \A n \in Rounds : RoundPaid(n, PayoutRows(n)', ledger', rain'[n].joins,
                                                  rain'[n].tipped)
  BY DEF RainInv, RoundPaid, PaidOf
<1>2. QED  BY <1>1, NestStep, RoundStep

LEMMA RainInitial ==
  ASSUME Init
  PROVE  RainInv
<1>1. TypeOK
  BY InitMoney DEF MoneyInv
<1>2. SnapshotsNest
  BY DEF Init, CallsInit, SnapshotsNest, Settling
<1>3. PICK e : e = Entry("ADJUST", "CREDIT", Funds, 0, Funds, <<"funds">>, NoRef)
  OBVIOUS
<1>4. \A w \in Wallets : ledger[w] = <<e>> /\ e.reason = "ADJUST"
  BY <1>3, EntryFields DEF Init, CallsInit
<1>5. ASSUME NEW n \in Rounds
      PROVE  RoundPaid(n, PayoutRows(n), ledger, rain[n].joins, rain[n].tipped)
  <2>1. PayoutRows(n) = {}
    <3> SUFFICES ASSUME NEW x \in PayoutRows(n) PROVE FALSE
      OBVIOUS
    <3>1. PICK w, i : /\ w \in Wallets /\ i \in DOMAIN ledger[w]
                      /\ IsPayout(ledger[w][i], n)
      BY PayoutPairs, PairsOf
    <3>2. QED  BY <1>4, <3>1 DEF IsPayout
  <2>2. PICK f : f = [x \in {} |-> ledger[x[1]][x[2]].amount]
    OBVIOUS
  <2>3. Total(f, {}) = 0
    BY TotalOfNothing
  <2>4. PaidOf({}, ledger) = 0
    BY <2>2, <2>3 DEF PaidOf
  <2>5. rain[n].tipped \in Nat /\ RainBase \in Nat
    BY <1>1, RainAssumption DEF TypeOK, RainRows
  <2>6. {x[1] : x \in {}} = {}
    OBVIOUS
  <2>7. PaidOf({}, ledger) <= RainBase + rain[n].tipped
    BY <2>4, <2>5
  <2>8. QED  BY <2>1, <2>6, <2>7, FS_EmptySet DEF RoundPaid
<1>6. QED  BY <1>2, <1>5 DEF RainInv

\* Tips and rains: for any wallets, amounts, joins and pots, and whichever calls
\* settle a round at the same time, a tip reaches its receiver whole and once, and
\* a round pays each participant once, all of them together no more than its pot
\* and no less than the base amount.
THEOREM PaidOutOnce == Spec => []PayoutsAddUp
<1>1. Init => TipsInv /\ RainInv
  BY TipsInit, RainInitial
<1>2. MoneyInv /\ TipsInv /\ RainInv /\ [Next]_vars => TipsInv' /\ RainInv'
  <2> SUFFICES ASSUME MoneyInv, TipsInv, RainInv, [Next]_vars
               PROVE  TipsInv' /\ RainInv'
    OBVIOUS
  <2>1. TipsInv'
    BY StepKind, TipsStep DEF MoneyInv, Kind
  <2>2. QED  BY <2>1, RainInvStep
<1>3. MoneyInv /\ TipsInv /\ RainInv => PayoutsAddUp
  BY TipsOnce, RainPart DEF PayoutsAddUp
<1>4. Spec => Init /\ [][Next]_vars
  BY DEF Spec
<1>5. QED  BY <1>1, <1>2, <1>3, <1>4, Disciplined, PTL

-----------------------------------------------------------------------------
(***************************************************************************)
(* The vault.                                                              *)
(***************************************************************************)

VaultRows == [balance : Int, locks : SUBSET [amount : Int, unlockAt : Nat]]

\* The locks of a wallet end at some time.
EndsBy(locks) == \E b \in Nat : \A l \in locks : l.unlockAt <= b

\* A deposit that has debited its wallet took the time when it did.
Credits(call) == call.pc = "credit" /\ call.op = "DEPOSIT"

VaultInv ==
  /\ vault \in [Wallets -> VaultRows]
  /\ \A w \in Wallets : EndsBy(vault[w].locks)
  /\ \A r \in Requests : Credits(req[r]) => req[r].now <= clock

\* A set of times none of which is after b has a last one.
LEMMA LastOf ==
  ASSUME NEW S, S \subseteq Nat, S # {}, NEW b \in Nat, \A x \in S : x <= b
  PROVE  MaxOf(S) \in S /\ \A y \in S : MaxOf(S) >= y
<1> DEFINE bounds == {n \in Nat : \A x \in S : x <= n}
<1>1. bounds \subseteq Nat /\ bounds # {}
  OBVIOUS
<1> HIDE DEF bounds
<1>2. PICK n \in bounds : \A m \in bounds : <<m, n>> \notin OpToRel(<, Nat)
  BY <1>1, WFMin, NatLessThanWellFounded, Zenon
<1>3. n \in Nat /\ \A x \in S : x <= n
  BY <1>2 DEF bounds
<1>4. \A m \in bounds : ~ (m < n)
  BY <1>1, <1>2, <1>3, Zenon DEF OpToRel
<1>5. n \in S
  <2>1. PICK x \in S : x \in Nat
    OBVIOUS
  <2>2. CASE \A y \in S : y # n
    <3>1. n # 0
      BY <1>3, <2>1, <2>2
    <3>2. n - 1 \in Nat /\ \A y \in S : y <= n - 1
      BY <1>3, <2>2, <3>1
    <3>3. n - 1 \in bounds
      BY <3>2 DEF bounds
    <3>4. QED  BY <1>3, <1>4, <3>3
  <2>3. QED  BY <2>2
<1>6. \E x \in S : \A y \in S : x >= y
  BY <1>3, <1>5
<1>7. QED  BY <1>6 DEF MaxOf

\* A call about to credit the vault has just debited its wallet, or is as it was.
LEMMA CreditsStep ==
  ASSUME TypeOK, [Next]_vars, NEW r \in Requests, Credits(req'[r])
  PROVE  req'[r] = req[r] \/ (req'[r].now = clock /\ clock' = clock)
<1>1. req'[r] # Idle
  BY DEF Credits, Idle
<1>2. ASSUME NEW q \in Requests, Answer(q)
      PROVE  req'[r] = req[r]
  BY <1>1, <1>2, AnswerEffect
<1>3. ASSUME NEW q \in Requests, NEW call, req' = [req EXCEPT ![q] = call], ~Credits(call)
      PROVE  req'[r] = req[r]
  BY <1>3, CallSet
<1>4. ASSUME NEW q \in Requests, Submit(q)
      PROVE  req'[r] = req[r]
  <2>1. PICK call : Start(q, call) /\ ~Credits(call)
    <3>1. CASE TipCall(q)
      BY <3>1 DEF TipCall, Credits
    <3>2. CASE RainCall(q)
      BY <3>2 DEF RainCall, Credits
    <3>3. CASE DepositCall(q)
      BY <3>3 DEF DepositCall, Credits
    <3>4. CASE WithdrawCall(q)
      BY <3>4 DEF WithdrawCall, Credits
    <3>5. CASE ClaimCall(q)
      BY <3>5 DEF ClaimCall, Credits
    <3>6. QED  BY <1>4, <3>1, <3>2, <3>3, <3>4, <3>5 DEF Submit
  <2>2. req' = [req EXCEPT ![q] = call]
    BY <2>1 DEF Start
  <2>3. QED  BY <1>3, <2>1, <2>2
<1>5. ASSUME NEW q \in Requests, LockWallet(q)
      PROVE  req'[r] = req[r]
  <2>1. PICK w \in Wallets, call \in TipCalls \cup RainCalls \cup ClaimCalls : Locking(q, w, call)
    BY <1>5, LockEffect
  <2>2. req' = [req EXCEPT ![q] = call] /\ ~Credits(call)
    BY <2>1 DEF Locking, Credits
  <2>3. QED  BY <1>3, <2>2
<1>6. ASSUME NEW q \in Requests, VaultStep(q)
      PROVE  req'[r] = req[r] \/ (req'[r].now = clock /\ clock' = clock)
  <2>1. req[q] # Idle /\ DOMAIN req = Requests
    BY <1>6 DEF VaultStep, SettleMatured, VaultDebit, VaultCredit, ReadBalance, ReadLocks,
                TakeFromVault, VaultPay, At, Idle, TypeOK
  <2>2. CASE req' = [req EXCEPT ![q] = Idle]
    BY <1>3, <2>2 DEF Credits, Idle
  <2>3. ASSUME NEW pc, Goto(q, pc), pc # "credit"
        PROVE  req'[r] = req[r]
    <3>1. PICK call : call = [req[q] EXCEPT !.pc = pc]
      OBVIOUS
    <3>2. req' = [req EXCEPT ![q] = call]
      BY <2>1, <2>3, <3>1 DEF Goto
    <3>3. "pc" \in DOMAIN req[q]
      BY <2>1 DEF TypeOK, IsCall, TipCalls, RainCalls, ClaimCalls, DepositCalls, WithdrawCalls
    <3>4. ~Credits(call)
      BY <2>3, <3>1, <3>3 DEF Credits
    <3>5. QED  BY <1>3, <3>2, <3>4
  <2>4. CASE SettleMatured(q)
    BY <2>3, <2>4 DEF SettleMatured
  <2>5. CASE VaultDebit(q)
    <3>1. CASE req' = [req EXCEPT ![q].pc = "credit", ![q].now = clock]
      <4>1. PICK call : call = [req[q] EXCEPT !.pc = "credit", !.now = clock]
        OBVIOUS
      <4>2. req' = [req EXCEPT ![q] = call]
        BY <2>1, <3>1, <4>1
      <4>3. req[q] \in DepositCalls
        BY <2>1, <2>5, Shapes DEF VaultDebit, At
      <4>4. call.now = clock
        BY <4>1, <4>3 DEF DepositCalls
      <4>5. UNCHANGED clock
        BY <2>5 DEF VaultDebit
      <4>6. QED  BY <4>2, <4>4, <4>5, CallSet
    <3>2. QED  BY <2>2, <2>5, <3>1 DEF VaultDebit
  <2>6. CASE VaultCredit(q) \/ VaultPay(q)
    BY <2>2, <2>6 DEF VaultCredit, VaultPay
  <2>7. CASE ReadBalance(q)
    <3>1. PICK call : call = [req[q] EXCEPT !.pc = "locks", !.seen = vault[req[q].from].balance,
                                            !.now = clock]
      OBVIOUS
    <3>2. req' = [req EXCEPT ![q] = call]
      BY <2>1, <2>7, <3>1 DEF ReadBalance
    <3>3. req[q] \in WithdrawCalls(req[q].seen)
      BY <2>1, <2>7, Shapes DEF ReadBalance, At
    <3>4. ~Credits(call)
      BY <3>1, <3>3 DEF WithdrawCalls, Credits
    <3>5. QED  BY <1>3, <3>2, <3>4
  <2>8. CASE ReadLocks(q) \/ TakeFromVault(q)
    BY <2>2, <2>3, <2>8 DEF ReadLocks, TakeFromVault
  <2>9. QED  BY <1>6, <2>4, <2>5, <2>6, <2>7, <2>8 DEF VaultStep
<1>7. ASSUME NEW q \in Requests, ClaimSum(q)
      PROVE  req'[r] = req[r]
  <2>1. CASE Answer(q)
    BY <1>2, <2>1
  <2>2. CASE ~Answer(q)
    <3>1. PICK call : Summed(q, call)
      BY <1>7, <2>2, ClaimSumEffect
    <3>2. ~Credits(call) /\ req' = [req EXCEPT ![q] = call]
      BY <3>1 DEF Summed, Credits
    <3>3. QED  BY <1>3, <3>2
  <2>3. QED  BY <2>1, <2>2
<1>8. ASSUME NEW q \in Requests, ReadPrevious(q)
      PROVE  req'[r] = req[r]
  <2>1. PICK joined, call :
          /\ call = [req[q] EXCEPT !.pc = "lock", !.settles = Previous(req[q].now),
                       !.joined = joined,
                       !.pot = IF Previous(req[q].now) = {} THEN 0
                               ELSE RainBase
                                      + rain[CHOOSE n \in Previous(req[q].now) : TRUE].tipped,
                       !.order = joined \o (IF req[q].op = "RAINTIP" THEN <<req[q].from>>
                                                                    ELSE <<>>)]
          /\ req' = [req EXCEPT ![q] = call]
    BY <1>8 DEF ReadPrevious
  <2>2. req[q].pc = "previous" /\ req[q] # Idle
    BY <1>8 DEF ReadPrevious, Idle
  <2>3. req[q] \in RainCalls
    BY <2>2 DEF TypeOK, IsCall, TipCalls, ClaimCalls, DepositCalls, WithdrawCalls
  <2>4. call.pc = "lock"
    BY <2>1, <2>3 DEF RainCalls
  <2>5. QED  BY <1>3, <2>1, <2>4 DEF Credits
<1>9. ASSUME NEW q \in Requests, Serve(q)
      PROVE  req'[r] = req[r] \/ (req'[r].now = clock /\ clock' = clock)
  <2>1. \/ LockWallet(q) \/ VaultStep(q) \/ ClaimSum(q) \/ ReadPrevious(q)
        \/ Answer(q)
    BY <1>9 DEF Serve, TipCommit, RainStep, LookCommit, JoinCommit, RainTipCommit, RainRefused,
                AffiliateStep, ClaimPay
  <2>2. QED  BY <1>2, <1>5, <1>6, <1>7, <1>8, <2>1
<1>10. CASE Next
  <2>1. \A q \in Requests : RolledBack(q) => Answer(q)
    BY DEF RolledBack, Fail, DeadlockVictim
  <2>2. QED  BY <1>2, <1>4, <1>9, <1>10, <2>1 DEF Next, Tick, AddCommission, Redeem, callVars
<1>11. QED  BY <1>10 DEF vars, callVars

LEMMA VaultKept ==
  ASSUME [Next]_vars
  PROVE  \/ UNCHANGED vault
         \/ \E r \in Requests : /\ SettleMatured(r) \/ VaultCredit(r) \/ TakeFromVault(r)
                                /\ UNCHANGED clock
<1>1. ASSUME NEW r \in Requests, Submit(r) \/ RolledBack(r)
      PROVE  UNCHANGED vault
  BY <1>1 DEF Submit, RolledBack, DepositCall, WithdrawCall
<1>2. ASSUME NEW r \in Requests, Serve(r)
      PROVE  \/ UNCHANGED vault
             \/ /\ SettleMatured(r) \/ VaultCredit(r) \/ TakeFromVault(r)
                /\ UNCHANGED clock
  BY <1>2 DEF Serve, VaultStep, SettleMatured, VaultDebit, VaultCredit, ReadBalance,
              ReadLocks, TakeFromVault, VaultPay
<1>3. QED  BY <1>1, <1>2 DEF Next, AddCommission, Redeem, vars

\* When the new lock of a deposit ends: no earlier than any lock it replaces.
LEMMA UnlockTimes ==
  ASSUME TypeOK, VaultInv, NEW r \in Requests, At(r, "DEPOSIT", "credit")
  PROVE  /\ UnlockAt(r) \subseteq Nat /\ EndsBy({[unlockAt |-> t] : t \in UnlockAt(r)})
         /\ \A l \in Active(req[r].from, req[r].now) :
              \E t \in UnlockAt(r) : t >= l.unlockAt
<1>1. req[r] \in DepositCalls
  BY Shapes DEF At, Idle
<1>2. PICK w, now, hours : /\ w = req[r].from /\ now = req[r].now /\ hours = req[r].hours
                           /\ w \in Wallets /\ now \in Nat /\ hours \in Nat
  <2>1. req[r].from \in Wallets /\ req[r].now \in Times /\ req[r].hours \in Durations
    BY <1>1 DEF DepositCalls
  <2>2. Times \subseteq Nat /\ Durations \subseteq Nat
    BY WalletLocksAssumption, VaultAssumption DEF Times
  <2>3. QED  BY <2>1, <2>2
<1>3. PICK active : active = Active(w, now)
  OBVIOUS
<1>4. vault[w] \in VaultRows /\ active \subseteq vault[w].locks
  BY <1>2, <1>3 DEF VaultInv, Active
<1>5. \A l \in active : l.unlockAt \in Nat
  BY <1>4 DEF VaultRows
<1>6. PICK b \in Nat : \A l \in active : l.unlockAt <= b
  BY <1>2, <1>4 DEF VaultInv, EndsBy
<1>7. PICK asked : asked = IF hours > 0 THEN {now + hours} ELSE {}
  OBVIOUS
<1>8. PICK ends : ends = {l.unlockAt : l \in active} \cup asked
  OBVIOUS
<1>9. UnlockAt(r) = IF ends = {} THEN {} ELSE {MaxOf(ends)}
  BY <1>2, <1>3, <1>7, <1>8 DEF UnlockAt
<1>10. ends \subseteq Nat /\ \A x \in ends : x <= b + now + hours
  BY <1>2, <1>5, <1>6, <1>7, <1>8
<1>11. CASE ends = {}
  <2>1. active = {} /\ UnlockAt(r) = {}
    BY <1>8, <1>9, <1>11
  <2>2. QED  BY <1>2, <1>3, <2>1 DEF EndsBy
<1>12. CASE ends # {}
  <2>1. b + now + hours \in Nat
    BY <1>2
  <2>2. PICK t : t = MaxOf(ends)
    OBVIOUS
  <2>3. t \in ends /\ \A x \in ends : t >= x
    BY <1>10, <1>12, <2>1, <2>2, LastOf, Zenon
  <2>4. UnlockAt(r) = {t} /\ t \in Nat
    BY <1>9, <1>10, <1>12, <2>2, <2>3
  <2>5. \A l \in active : t >= l.unlockAt
    BY <1>8, <2>3
  <2>6. EndsBy({[unlockAt |-> x] : x \in UnlockAt(r)})
    BY <2>4 DEF EndsBy
  <2>7. QED  BY <1>2, <1>3, <2>4, <2>5, <2>6
<1>13. QED  BY <1>11, <1>12

\* The vault after a deposit.
LEMMA VaultCredited ==
  ASSUME TypeOK, VaultInv, NEW r \in Requests, VaultCredit(r)
  PROVE  LET w == req[r].from
         IN /\ w \in Wallets /\ \A x \in Wallets \ {w} : vault'[x] = vault[x]
            /\ vault' \in [Wallets -> VaultRows] /\ EndsBy(vault'[w].locks)
            /\ \A l \in Active(w, clock) :
                 \/ \E m \in vault'[w].locks : m.unlockAt >= l.unlockAt
                 \/ vault'[w].balance <= 0
<1>1. At(r, "DEPOSIT", "credit")
  BY DEF VaultCredit
<1>2. req[r] \in DepositCalls /\ req[r].now <= clock
  BY <1>1, Shapes DEF At, Idle, VaultInv, Credits
<1>3. PICK w, now, balance : /\ w = req[r].from /\ now = req[r].now
                             /\ balance = vault[w].balance + req[r].amount
  OBVIOUS
<1>4. vault \in [Wallets -> VaultRows]
  BY DEF VaultInv
<1>5. /\ w \in Wallets /\ now \in Nat /\ now <= clock /\ clock \in Nat /\ balance \in Int
      /\ vault[w] \in VaultRows
  BY <1>2, <1>3, <1>4, WalletLocksAssumption DEF DepositCalls, Times, TypeOK, VaultRows
<1>6. PICK added : added = {[amount |-> balance, unlockAt |-> t] :
                              t \in {u \in UnlockAt(r) : u > now /\ balance > 0}}
  OBVIOUS
<1>7. PICK row : row = [balance |-> balance, locks |-> KeptLocks(r) \cup added]
  OBVIOUS
<1>8. vault' = [vault EXCEPT ![w] = row]
  BY <1>3, <1>6, <1>7 DEF VaultCredit
<1>9. /\ UnlockAt(r) \subseteq Nat /\ EndsBy({[unlockAt |-> t] : t \in UnlockAt(r)})
      /\ \A l \in Active(w, now) : \E t \in UnlockAt(r) : t >= l.unlockAt
  BY <1>1, <1>3, UnlockTimes
<1>10. KeptLocks(r) \subseteq vault[w].locks
  BY <1>3 DEF KeptLocks
<1>11. row \in VaultRows
  <2>1. added \subseteq [amount : Int, unlockAt : Nat]
    BY <1>5, <1>6, <1>9
  <2>2. KeptLocks(r) \subseteq [amount : Int, unlockAt : Nat]
    BY <1>5, <1>10 DEF VaultRows
  <2>3. QED  BY <1>5, <1>7, <2>1, <2>2 DEF VaultRows
<1>12. vault'[w] = row /\ \A x \in Wallets \ {w} : vault'[x] = vault[x]
  BY <1>4, <1>5, <1>8
<1>13. vault' \in [Wallets -> VaultRows]
  BY <1>4, <1>5, <1>8, <1>11
<1>14. EndsBy(row.locks)
  <2>1. PICK b \in Nat : \A l \in vault[w].locks : l.unlockAt <= b
    BY <1>5 DEF VaultInv, EndsBy
  <2>2. PICK c \in Nat : \A t \in UnlockAt(r) : t <= c
    <3>1. PICK c \in Nat : \A l \in {[unlockAt |-> t] : t \in UnlockAt(r)} : l.unlockAt <= c
      BY <1>9 DEF EndsBy
    <3>2. ASSUME NEW t \in UnlockAt(r)
          PROVE  t <= c
      <4>1. [unlockAt |-> t] \in {[unlockAt |-> x] : x \in UnlockAt(r)}
        OBVIOUS
      <4>2. QED  BY <3>1, <4>1
    <3>3. QED  BY <3>2
  <2>3. \A l \in row.locks : l.unlockAt \in Nat
    BY <1>11 DEF VaultRows
  <2>4. \A l \in row.locks : l.unlockAt <= b + c
    <3>1. ASSUME NEW l \in KeptLocks(r) PROVE l.unlockAt <= b + c
      BY <1>7, <1>10, <2>1, <2>2, <2>3, <3>1
    <3>2. ASSUME NEW l \in added PROVE l.unlockAt <= b + c
      BY <1>6, <1>9, <2>1, <2>2, <3>2
    <3>3. QED  BY <1>7, <3>1, <3>2
  <2>5. b + c \in Nat
    OBVIOUS
  <2>6. QED  BY <2>4, <2>5 DEF EndsBy
<1>15. ASSUME NEW l \in Active(w, clock), balance > 0
       PROVE  \E m \in row.locks : m.unlockAt >= l.unlockAt
  <2>1. l \in vault[w].locks /\ l.unlockAt > clock /\ l.unlockAt \in Nat
    BY <1>5, <1>15 DEF Active, VaultRows
  <2>2. l \in Active(w, now) /\ l.unlockAt > now
    BY <1>5, <2>1 DEF Active
  <2>3. PICK t \in UnlockAt(r) : t >= l.unlockAt
    BY <1>9, <2>2
  <2>4. t \in Nat /\ t > now
    BY <1>5, <1>9, <2>1, <2>2, <2>3
  <2>5. [amount |-> balance, unlockAt |-> t] \in added
    BY <1>6, <1>15, <2>3, <2>4
  <2>6. QED  BY <1>7, <2>3, <2>5
<1>16. row.balance = balance
  BY <1>7
<1>17. \A l \in Active(w, clock) : \/ \E m \in row.locks : m.unlockAt >= l.unlockAt
                                   \/ row.balance <= 0
  BY <1>5, <1>15, <1>16
<1>18. QED  BY <1>3, <1>5, <1>12, <1>13, <1>14, <1>17

LEMMA VaultInvStep ==
  ASSUME TypeOK, VaultInv, [Next]_vars
  PROVE  VaultInv'
<1>1. ASSUME NEW r \in Requests, Credits(req'[r])
      PROVE  req'[r].now <= clock'
  <2>1. clock \in Nat /\ clock' \in Nat /\ clock' >= clock
    BY ClockStep, WalletLocksAssumption DEF TypeOK, Times
  <2>2. CASE req'[r] = req[r]
    <3>1. Credits(req[r]) /\ req[r] # Idle
      BY <1>1, <2>2 DEF Credits, Idle
    <3>2. req[r].now \in Times /\ req[r].now <= clock
      BY <3>1, Shapes DEF Credits, DepositCalls, VaultInv
    <3>3. req[r].now \in Nat
      BY <3>2, WalletLocksAssumption DEF Times
    <3>4. QED  BY <2>1, <2>2, <3>2, <3>3
  <2>3. CASE req'[r].now = clock /\ clock' = clock
    BY <2>1, <2>3
  <2>4. QED  BY <1>1, <2>2, <2>3, CreditsStep
<1>2. vault' \in [Wallets -> VaultRows] /\ \A w \in Wallets : EndsBy(vault'[w].locks)
  <2>1. CASE UNCHANGED vault
    BY <2>1 DEF VaultInv
  <2>2. ASSUME NEW r \in Requests, VaultCredit(r)
        PROVE  vault' \in [Wallets -> VaultRows] /\ \A w \in Wallets : EndsBy(vault'[w].locks)
    <3>1. PICK w : /\ w \in Wallets /\ \A x \in Wallets \ {w} : vault'[x] = vault[x]
                   /\ vault' \in [Wallets -> VaultRows] /\ EndsBy(vault'[w].locks)
      BY <2>2, VaultCredited
    <3>2. ASSUME NEW x \in Wallets PROVE EndsBy(vault'[x].locks)
      BY <3>1 DEF VaultInv
    <3>3. QED  BY <3>1, <3>2
  <2>3. ASSUME NEW r \in Requests, SettleMatured(r) \/ TakeFromVault(r)
        PROVE  vault' \in [Wallets -> VaultRows] /\ \A w \in Wallets : EndsBy(vault'[w].locks)
    <3>1. req[r] # Idle /\ req[r].op \in {"DEPOSIT", "WITHDRAW"}
      BY <2>3 DEF SettleMatured, TakeFromVault, At, Idle, TypeOK, IsCall, TipCalls, RainCalls,
                  ClaimCalls, DepositCalls
    <3>2. req[r].from \in Wallets /\ req[r].amount \in Nat
      BY <3>1, Shapes, WalletLocksAssumption DEF DepositCalls, WithdrawCalls
    <3>3. PICK w, row : /\ w \in Wallets /\ vault' = [vault EXCEPT ![w] = row]
                        /\ row \in VaultRows /\ row.locks \subseteq vault[w].locks
      <4>1. PICK w : w = req[r].from /\ w \in Wallets
        BY <3>2
      <4>2. vault \in [Wallets -> VaultRows] /\ vault[w] \in VaultRows
        BY <4>1 DEF VaultInv
      <4>3. CASE SettleMatured(r)
        <5>1. PICK row : row = [vault[w] EXCEPT !.locks = Active(w, clock)]
          OBVIOUS
        <5>2. vault' = [vault EXCEPT ![w] = row]
          BY <4>1, <4>2, <4>3, <5>1 DEF SettleMatured
        <5>3. Active(w, clock) \subseteq vault[w].locks
          BY DEF Active
        <5>4. row \in VaultRows /\ row.locks \subseteq vault[w].locks
          BY <4>2, <5>1, <5>3 DEF VaultRows
        <5>5. QED  BY <4>1, <5>2, <5>4
      <4>4. CASE TakeFromVault(r)
        <5>1. PICK row : row = [vault[w] EXCEPT !.balance = @ - req[r].amount]
          OBVIOUS
        <5>2. vault' = [vault EXCEPT ![w] = row]
          BY <4>1, <4>2, <4>4, <5>1 DEF TakeFromVault
        <5>3. row \in VaultRows /\ row.locks \subseteq vault[w].locks
          BY <3>2, <4>2, <5>1 DEF VaultRows
        <5>4. QED  BY <4>1, <5>2, <5>3
      <4>5. QED  BY <2>3, <4>3, <4>4
    <3>4. vault \in [Wallets -> VaultRows]
      BY DEF VaultInv
    <3>5. vault' \in [Wallets -> VaultRows]
      BY <3>3, <3>4
    <3>6. ASSUME NEW x \in Wallets PROVE EndsBy(vault'[x].locks)
      <4>1. vault'[x].locks \subseteq vault[x].locks
        BY <3>3, <3>4
      <4>2. EndsBy(vault[x].locks)
        BY DEF VaultInv
      <4>3. QED  BY <4>1, <4>2 DEF EndsBy
    <3>7. QED  BY <3>5, <3>6
  <2>4. QED  BY <2>1, <2>2, <2>3, VaultKept
<1>3. QED  BY <1>1, <1>2 DEF VaultInv

\* Which locks a step leaves a wallet.
LEMMA LocksKept ==
  ASSUME TypeOK, VaultInv, [Next]_vars, NEW w \in Wallets, NEW l \in Active(w, clock')
  PROVE  \/ \E m \in vault'[w].locks : m.unlockAt >= l.unlockAt
         \/ vault'[w].balance <= 0
<1>1. l \in vault[w].locks /\ l.unlockAt > clock' /\ vault[w] \in VaultRows
  BY DEF Active, VaultInv
<1>2. l.unlockAt \in Nat
  BY <1>1 DEF VaultRows
<1>3. CASE l \in vault'[w].locks
  BY <1>2, <1>3
<1>4. ASSUME NEW r \in Requests, UNCHANGED clock, SettleMatured(r)
      PROVE  l \in vault'[w].locks
  <2>1. vault \in [Wallets -> VaultRows]
    BY DEF VaultInv
  <2>2. PICK x : x = req[r].from /\ vault' = [vault EXCEPT ![x].locks = Active(x, clock)]
    BY <1>4 DEF SettleMatured
  <2>3. l \in Active(w, clock)
    BY <1>4
  <2>4. CASE x = w
    BY <2>1, <2>2, <2>3, <2>4 DEF VaultRows
  <2>5. CASE x # w
    BY <1>1, <2>1, <2>2, <2>5
  <2>6. QED  BY <2>4, <2>5
<1>5. ASSUME NEW r \in Requests, TakeFromVault(r)
      PROVE  l \in vault'[w].locks
  <2>1. vault \in [Wallets -> VaultRows]
    BY DEF VaultInv
  <2>2. vault'[w].locks = vault[w].locks
    BY <1>5, <2>1 DEF TakeFromVault, VaultRows
  <2>3. QED  BY <1>1, <2>2
<1>6. ASSUME NEW r \in Requests, UNCHANGED clock, VaultCredit(r)
      PROVE  \/ \E m \in vault'[w].locks : m.unlockAt >= l.unlockAt
             \/ vault'[w].balance <= 0
  <2>1. l \in Active(w, clock)
    BY <1>6
  <2>2. CASE w = req[r].from
    BY <1>6, <2>1, <2>2, VaultCredited
  <2>3. CASE w # req[r].from
    <3>1. vault'[w] = vault[w]
      BY <1>6, <2>3, VaultCredited
    <3>2. QED  BY <1>1, <1>3, <3>1
  <2>4. QED  BY <2>2, <2>3
<1>7. CASE UNCHANGED vault
  BY <1>1, <1>3, <1>7
<1>8. QED  BY <1>3, <1>4, <1>5, <1>6, <1>7, VaultKept

LEMMA VaultInitial ==
  ASSUME Init
  PROVE  VaultInv
<1>1. vault = [w \in Wallets |-> [balance |-> 0, locks |-> {}]] /\ \A r \in Requests : req[r] = Idle
  BY DEF Init, VaultInit, CallsInit
<1>2. vault \in [Wallets -> VaultRows]
  BY <1>1 DEF VaultRows
<1>3. \A w \in Wallets : EndsBy(vault[w].locks)
  BY <1>1 DEF EndsBy
<1>4. \A r \in Requests : ~Credits(req[r])
  BY <1>1 DEF Credits, Idle
<1>5. QED  BY <1>2, <1>3, <1>4 DEF VaultInv

\* The vault: for any deposits and withdrawals, whatever locks they ask for and
\* however their transactions overlap, an active lock is only ever replaced by one
\* that lasts at least as long, unless the vault is overdrawn.
THEOREM LocksLast == Spec => LocksNotShortened
<1>1. Init => VaultInv
  BY VaultInitial
<1>2. MoneyInv /\ VaultInv /\ [Next]_vars => VaultInv'
  BY VaultInvStep DEF MoneyInv
<1>3. MoneyInv /\ VaultInv /\ [Next]_vars
        => [\A w \in Wallets : \A l \in Active(w, clock') :
              \/ \E m \in vault'[w].locks : m.unlockAt >= l.unlockAt
              \/ vault'[w].balance <= 0]_<<vault, clock>>
  BY LocksKept DEF MoneyInv
<1>4. Spec => Init /\ [][Next]_vars
  BY DEF Spec
<1>5. QED  BY <1>1, <1>2, <1>3, <1>4, Disciplined, PTL DEF LocksNotShortened

=============================================================================
