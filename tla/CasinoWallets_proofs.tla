------------------------ MODULE CasinoWallets_proofs ------------------------
(***************************************************************************)
(* Proofs about the wallets as their clients share them: the bets module   *)
(* by itself, beside the reservation service, and under the integrity      *)
(* audit, for any wallets, references, bets, keys, nonces, signed results  *)
(* and number of concurrent calls of each.                                 *)
(***************************************************************************)
EXTENDS IntegrityAudit, BetReservations_proofs

-----------------------------------------------------------------------------
(***************************************************************************)
(* PART 1: the bets module.                                                *)
(***************************************************************************)

-----------------------------------------------------------------------------
(***************************************************************************)
(* The inductive invariant.                                                *)
(***************************************************************************)

\* A placed bet belongs to a wallet that covered its stake, and has the stake and
\* the multiplier a player asked for; a settled one says what it paid.
RowsShaped ==
  \A b \in BetIds :
    /\ bet[b].status = "NONE" => bet[b] = NoRow
    /\ bet[b].status # "NONE" =>
         /\ bet[b].wallet \in Wallets
         /\ bet[b].amount \in Amounts /\ bet[b].multiplier \in Multipliers
         /\ bet[b].amount <= bet[b].placeBefore
    /\ bet[b].status = "PENDING" => bet[b].payout = 0
    /\ bet[b].status \in Outcomes =>
         /\ bet[b].payout = Pays(b, bet[b].status)
         /\ bet[b].settleAfter = bet[b].settleBefore + bet[b].payout

Settling(r) == betReq[r].pc \in {"result", "wallet"}

\* A settlement past its lock is the only one of its bet, which is pending, and
\* one past its insert is the only one to use its nonce.
ClaimsPending ==
  /\ \A r \in BetRequests :
       Settling(r) => bet[betReq[r].bet].status = "PENDING" /\ Verified(r)
  /\ \A q, r \in BetRequests :
       Settling(q) /\ Settling(r) /\ betReq[q].bet = betReq[r].bet => q = r
  /\ \A r \in BetRequests : BetAt(r, "wallet") => ~NonceTaken(betReq[r].nonce)
  /\ \A q, r \in BetRequests :
       BetAt(q, "wallet") /\ BetAt(r, "wallet") /\ betReq[q].nonce = betReq[r].nonce => q = r

-----------------------------------------------------------------------------
(***************************************************************************)
(* Type correctness.                                                       *)
(***************************************************************************)

\* A call at one of these points is a placement, or a settlement.
LEMMA CallTypes ==
  ASSUME BetsTypeOK, NEW r \in BetRequests
  PROVE  /\ betReq[r].pc \in {"lookup", "place"} => betReq[r] \in PlaceCalls
         /\ betReq[r].pc \in {"lock", "result", "wallet"} => betReq[r] \in SettleCalls
         /\ betReq[r].pc # "idle" => betReq[r] \in PlaceCalls \cup SettleCalls
<1>1. betReq[r] \in {Idle} \cup PlaceCalls \cup SettleCalls
  BY DEF BetsTypeOK
<1>2. Idle.pc = "idle"
  BY DEF Idle
<1>3. \A c \in PlaceCalls : c.pc \in {"lookup", "place", "done"}
  BY DEF PlaceCalls
<1>4. \A c \in SettleCalls : c.pc \in {"lock", "result", "wallet", "done"}
  BY DEF SettleCalls
<1>5. QED  BY <1>1, <1>2, <1>3, <1>4

\* Only the call that answers changes, and it keeps its arguments.
LEMMA ReplyEffect ==
  ASSUME BetsTypeOK, NEW r \in BetRequests, betReq[r].pc # "idle",
         NEW outcome, NEW b, NEW before, NEW after, ReplyBet(r, outcome, b, before, after)
  PROVE  /\ \A q \in BetRequests \ {r} : betReq'[q] = betReq[q]
         /\ betReq'[r].pc = "done" /\ betReq'[r].op = betReq[r].op
         /\ betReq'[r].outcome = outcome /\ betReq'[r].bet = b
         /\ betReq'[r].before = before /\ betReq'[r].after = after
         /\ betReq[r].op = "PLACE" => /\ betReq'[r].wallet = betReq[r].wallet
                                   /\ betReq'[r].key = betReq[r].key
         /\ betReq[r].op = "SETTLE" => betReq'[r].nonce = betReq[r].nonce
<1>1. betReq[r] \in PlaceCalls \cup SettleCalls
  BY CallTypes
<1>2. CASE betReq[r] \in PlaceCalls
  BY <1>2 DEF ReplyBet, BetsTypeOK, PlaceCalls
<1>3. CASE betReq[r] \in SettleCalls
  BY <1>3 DEF ReplyBet, BetsTypeOK, SettleCalls
<1>4. QED  BY <1>1, <1>2, <1>3

\* An answer keeps the call well-formed.
LEMMA BetReplyType ==
  ASSUME BetsTypeOK, NEW r \in BetRequests, betReq[r].pc # "idle",
         NEW outcome \in Answers, NEW b, b \in BetIds \/ b = betReq[r].bet,
         NEW before \in Nat, NEW after \in Nat, ReplyBet(r, outcome, b, before, after)
  PROVE  betReq' \in [BetRequests -> {Idle} \cup PlaceCalls \cup SettleCalls]
<1> DEFINE new == [betReq[r] EXCEPT !.pc = "done", !.outcome = outcome, !.bet = b,
                                 !.before = before, !.after = after]
<1>1. betReq[r] \in PlaceCalls \cup SettleCalls
  BY CallTypes
<1>2. CASE betReq[r] \in PlaceCalls
  <2>1. new \in PlaceCalls
    BY <1>2 DEF PlaceCalls
  <2>2. betReq' = [betReq EXCEPT ![r] = new]
    BY <1>2 DEF ReplyBet, BetsTypeOK, PlaceCalls
  <2>3. QED  BY <2>1, <2>2 DEF BetsTypeOK
<1>3. CASE betReq[r] \in SettleCalls
  <2>1. new \in SettleCalls
    BY <1>3 DEF SettleCalls
  <2>2. betReq' = [betReq EXCEPT ![r] = new]
    BY <1>3 DEF ReplyBet, BetsTypeOK, SettleCalls
  <2>3. QED  BY <2>1, <2>2 DEF BetsTypeOK
<1>4. QED  BY <1>1, <1>2, <1>3

\* A refusal is an answer without balances.
LEMMA RefuseType ==
  ASSUME BetsTypeOK, NEW r \in BetRequests, betReq[r].pc # "idle",
         NEW outcome \in Answers, Refuse(r, outcome)
  PROVE  betReq' \in [BetRequests -> {Idle} \cup PlaceCalls \cup SettleCalls]
BY BetReplyType DEF Refuse

\* A restarted call is refused, or goes back to its first step.
LEMMA RestartEffect ==
  ASSUME BetsTypeOK, NEW r \in BetRequests, NEW pc,
         \/ betReq[r] \in PlaceCalls /\ pc = "place"
         \/ betReq[r] \in SettleCalls /\ pc = "lock",
         Restart(r, pc)
  PROVE  /\ betReq' \in [BetRequests -> {Idle} \cup PlaceCalls \cup SettleCalls]
         /\ \A q \in BetRequests \ {r} : betReq'[q] = betReq[q]
         /\ \/ betReq'[r].pc = pc
            \/ Refuse(r, "txConflict")
<1> DEFINE new == [betReq[r] EXCEPT !.pc = pc, !.attempt = betReq[r].attempt + 1]
<1>1. betReq[r].pc # "idle" /\ betReq[r].attempt \in 1..MaxAttempts /\ MaxAttempts \in Nat
  BY BetAssumption, StakeAssumption DEF PlaceCalls, SettleCalls
<1>2. CASE betReq[r].attempt < MaxAttempts
  <2>1. betReq' = [betReq EXCEPT ![r] = new]
    BY <1>2 DEF Restart, BetsTypeOK, PlaceCalls, SettleCalls
  <2>2. betReq[r].attempt + 1 \in 1..MaxAttempts
    BY <1>1, <1>2
  <2>3. new \in PlaceCalls \cup SettleCalls /\ new.pc = pc
    BY <2>2 DEF PlaceCalls, SettleCalls
  <2>4. QED  BY <2>1, <2>3 DEF BetsTypeOK
<1>3. CASE ~(betReq[r].attempt < MaxAttempts)
  <2>1. Refuse(r, "txConflict")
    BY <1>3 DEF Restart
  <2>2. QED  BY <1>1, <2>1, RefuseType, ReplyEffect DEF Refuse, Answers
<1>4. QED  BY <1>2, <1>3

\* What the assumptions say of amounts and multipliers.
LEMMA Numbers ==
  /\ Amounts \subseteq 0..BigintMax /\ 0 \in 0..BigintMax /\ 0..BigintMax \subseteq Nat
  /\ Multipliers \subseteq Nat
<1>1. BigintMax \in Nat
  BY BigintAssumption
<1>2. Amounts \subseteq 1..BigintMax /\ Multipliers \subseteq Nat \ {0}
  BY BetAssumption, StakeAssumption
<1>3. 1..BigintMax \subseteq 0..BigintMax
  BY <1>1
<1>4. QED  BY <1>1, <1>2, <1>3

\* The rows of a ledger take the keys of callers and of the engine, and refer to
\* bets or to nothing.
LEMMA RowKeys ==
  /\ \A key \in Keys : key \in PostingKeys
  /\ \A n \in Nonces : <<n, "capture">> \in PostingKeys /\ <<n, "payout">> \in PostingKeys
  /\ \A b \in BetIds : b \in References /\ b # NoRef
<1>1. \A n \in Nonces : <<n, "capture">> \in Nonces \X {"capture", "payout"}
                       /\ <<n, "payout">> \in Nonces \X {"capture", "payout"}
  OBVIOUS
<1>2. QED  BY <1>1, BetAssumption, StakeAssumption

\* A payout is a natural number.
LEMMA PaysNat ==
  ASSUME BetsTypeOK, NEW b \in BetIds, NEW result \in Outcomes
  PROVE  Pays(b, result) \in Nat
<1>1. bet[b].amount \in Nat /\ bet[b].multiplier \in Nat
  BY BigintAssumption DEF BetsTypeOK, BetRows
<1>2. bet[b].amount * bet[b].multiplier \in Nat
  BY <1>1
<1>3. \A n \in Nat, d \in Nat \ {0} : n \div d \in Nat
  OBVIOUS
<1>4. QED  BY <1>2, <1>3, BetAssumption, StakeAssumption DEF Pays

\* A posted row that is a ledger row leaves a ledger of ledger rows.
LEMMA PostType ==
  ASSUME BetsTypeOK, NEW w \in Wallets, NEW entry \in LedgerRows, Post(w, entry)
  PROVE  ledger' \in [Wallets -> Seq(LedgerRows)]
BY DEF BetsTypeOK, Post

\* The types hold initially.
LEMMA BetsTypeInit == BetsInit => BetsTypeOK
<1> SUFFICES ASSUME BetsInit PROVE BetsTypeOK
  OBVIOUS
<1>1. 0 \in 0..BigintMax /\ WagerRequired \in Nat
  BY BigintAssumption
<1>2. wallet \in [Wallets -> WalletRows] /\ ledger \in [Wallets -> Seq(LedgerRows)]
  BY <1>1 DEF BetsInit, MoneyInit, WalletRows
<1>3. NoRow \in BetRows
  BY <1>1 DEF NoRow, BetRows
<1>4. QED  BY <1>2, <1>3 DEF BetsInit, BetsTypeOK

\* A step that only changes its call needs only that call's type.
LEMMA QuietType ==
  ASSUME BetsTypeOK, UNCHANGED <<wallet, ledger, bet, gameResult>>,
         betReq' \in [BetRequests -> {Idle} \cup PlaceCalls \cup SettleCalls]
  PROVE  BetsTypeOK'
BY DEF BetsTypeOK

\* The answer to a repeated placement is well-formed.
LEMMA ReplayType ==
  ASSUME BetsTypeOK, RowsShaped, NEW r \in BetRequests, betReq[r] \in PlaceCalls,
         NEW b \in PlacedWith(betReq[r].wallet, betReq[r].key), Replay(r, b)
  PROVE  /\ betReq' \in [BetRequests -> {Idle} \cup PlaceCalls \cup SettleCalls]
         /\ b \in BetIds /\ bet[b].status # "NONE"
<1>1. b \in BetIds /\ bet[b].wallet \in Wallets
  BY DEF PlacedWith, PlaceCalls
<1>2. bet[b].status # "NONE"
  BY <1>1, BetAssumption, StakeAssumption DEF RowsShaped, NoRow
<1>3. bet[b] \in BetRows /\ bet[b].amount <= bet[b].placeBefore
  BY <1>1, <1>2 DEF BetsTypeOK, RowsShaped
<1>4. bet[b].placeBefore \in Nat /\ bet[b].placeBefore - bet[b].amount \in Nat
  BY <1>3, BigintAssumption DEF BetRows
<1>5. betReq[r].pc # "idle"
  BY DEF PlaceCalls
<1>6. QED  BY <1>1, <1>2, <1>4, <1>5, BetReplyType DEF Replay, Answers

\* A placement keeps the types.
LEMMA PlaceCommitType ==
  ASSUME BetsTypeOK, NEW r \in BetRequests, PlaceCommit(r)
  PROVE  BetsTypeOK'
<1> USE BigintAssumption
<1> DEFINE w == betReq[r].wallet
           amount == betReq[r].amount
           before == wallet[w].balance
<1>1. betReq[r] \in PlaceCalls /\ betReq[r].pc # "idle"
  BY CallTypes DEF PlaceCommit, BetAt
<1>2. /\ w \in Wallets /\ amount \in 0..BigintMax /\ betReq[r].key \in Keys
      /\ betReq[r].multiplier \in Nat
  <2>1. /\ w \in Wallets /\ amount \in Amounts /\ betReq[r].key \in Keys
        /\ betReq[r].multiplier \in Multipliers
    BY <1>1 DEF PlaceCalls
  <2>2. QED  BY <2>1, Numbers
<1>3. wallet[w] \in WalletRows
  BY <1>2 DEF BetsTypeOK
<1>4. /\ before \in 0..BigintMax /\ before - amount \in 0..BigintMax
      /\ wallet[w].locked + amount \in 0..BigintMax
  <2>1. before >= amount /\ wallet[w].locked + amount \in 0..BigintMax
    BY DEF PlaceCommit, DebitBalanceInTx, CanDebit, Fits
  <2>2. before \in 0..BigintMax
    BY <1>3 DEF WalletRows
  <2>3. QED  BY <1>2, <2>1, <2>2
<1>5. wallet' \in [Wallets -> WalletRows]
  <2>1. ConsumeWager(wallet[w].wager, amount) \in Nat
    BY <1>2, <1>3 DEF ConsumeWager, WalletRows
  <2>2. [balance |-> before - amount, locked |-> wallet[w].locked + amount,
         wager |-> ConsumeWager(wallet[w].wager, amount)] \in WalletRows
    BY <1>4, <2>1 DEF WalletRows
  <2>3. QED  BY <1>2, <2>2 DEF PlaceCommit, DebitBalanceInTx, BetsTypeOK
<1>6. PICK b \in BetIds :
        /\ bet' = [bet EXCEPT ![b] =
                     [status |-> "PENDING", wallet |-> w, amount |-> amount,
                      multiplier |-> betReq[r].multiplier, placeKey |-> betReq[r].key,
                      placeBefore |-> before, nonce |-> NoNonce, payout |-> 0,
                      settleBefore |-> 0, settleAfter |-> 0]]
        /\ Post(w, Entry("BET_HOLD", "DEBIT", amount, before, before - amount,
                         betReq[r].key, b))
        /\ ReplyBet(r, "ok", b, before, before - amount)
  BY DEF PlaceCommit
<1>7. bet' \in [BetIds -> BetRows]
  <2>1. [status |-> "PENDING", wallet |-> w, amount |-> amount,
         multiplier |-> betReq[r].multiplier, placeKey |-> betReq[r].key,
         placeBefore |-> before, nonce |-> NoNonce, payout |-> 0,
         settleBefore |-> 0, settleAfter |-> 0] \in BetRows
    BY <1>2, <1>4 DEF BetRows
  <2>2. bet \in [BetIds -> BetRows]
    BY DEF BetsTypeOK
  <2>3. QED  BY <1>6, <2>1, <2>2
<1>8. ledger' \in [Wallets -> Seq(LedgerRows)]
  <2>1. Entry("BET_HOLD", "DEBIT", amount, before, before - amount,
              betReq[r].key, b) \in LedgerRows
    BY <1>2, <1>4, RowKeys DEF Entry, LedgerRows, Reasons
  <2>2. QED  BY <1>2, <1>6, <2>1, PostType
<1>9. betReq' \in [BetRequests -> {Idle} \cup PlaceCalls \cup SettleCalls]
  <2>1. before \in Nat /\ before - amount \in Nat
    BY <1>4
  <2>2. QED  BY <1>1, <1>6, <2>1, BetReplyType DEF Answers
<1>10. QED
  BY <1>5, <1>7, <1>8, <1>9 DEF PlaceCommit, BetsTypeOK

\* What a settlement that commits finds: a pending bet of a wallet, and numbers
\* in range.
LEMMA SettleFacts ==
  ASSUME BetsTypeOK, RowsShaped, ClaimsPending, NEW r \in BetRequests, SettleCommit(r)
  PROVE  LET b == betReq[r].bet
             w == bet[b].wallet
             pays == Pays(b, betReq[r].result)
         IN  /\ betReq[r] \in SettleCalls
             /\ b \in BetIds /\ w \in Wallets /\ betReq[r].nonce \in Nonces
             /\ betReq[r].result \in Outcomes
             /\ bet[b] \in BetRows /\ wallet[w] \in WalletRows
             /\ bet[b].status = "PENDING" /\ Verified(r)
             /\ bet[b].amount \in 1..BigintMax
             /\ wallet[w].balance \in 0..BigintMax
             /\ wallet[w].locked - bet[b].amount \in 0..BigintMax
             /\ pays \in 0..BigintMax
             /\ wallet[w].balance + pays \in 0..BigintMax
             /\ bet[b].amount \in 0..BigintMax /\ bet[b].amount \in Nat
             /\ wallet[w].balance \in Nat /\ pays \in Nat
             /\ wallet[w].balance + pays \in Nat
<1> DEFINE b == betReq[r].bet
           w == bet[b].wallet
           pays == Pays(b, betReq[r].result)
<1>1. betReq[r] \in SettleCalls
  BY CallTypes DEF SettleCommit, BetAt
<1>2. b \in BetIds /\ betReq[r].nonce \in Nonces /\ betReq[r].result \in Outcomes
  BY <1>1 DEF SettleCalls
<1>3. bet[b].status = "PENDING" /\ Verified(r)
  BY DEF SettleCommit, BetAt, ClaimsPending, Settling
<1>4. w \in Wallets /\ bet[b].amount \in 1..BigintMax
  BY <1>2, <1>3, BetAssumption, StakeAssumption DEF RowsShaped
<1>5. bet[b] \in BetRows /\ wallet[w] \in WalletRows
  BY <1>2, <1>4 DEF BetsTypeOK
<1>6. wallet[w].balance \in 0..BigintMax /\ wallet[w].locked \in 0..BigintMax
  BY <1>5 DEF WalletRows
<1>7. pays \in Nat
  BY <1>2, PaysNat
<1>8. /\ pays <= BigintMax /\ wallet[w].locked >= bet[b].amount
      /\ wallet[w].balance <= BigintMax - pays
  BY DEF SettleCommit, SettleCovered
<1> HIDE DEF pays, w, b
<1>9. /\ wallet[w].locked - bet[b].amount \in 0..BigintMax
      /\ pays \in 0..BigintMax /\ wallet[w].balance + pays \in 0..BigintMax
  BY <1>4, <1>6, <1>7, <1>8, BigintAssumption
<1>10. /\ bet[b].amount \in 0..BigintMax /\ bet[b].amount \in Nat
       /\ wallet[w].balance \in Nat /\ wallet[w].balance + pays \in Nat
  BY <1>4, <1>6, <1>9, BigintAssumption
<1>11. QED
  BY <1>1, <1>2, <1>3, <1>4, <1>5, <1>6, <1>7, <1>9, <1>10 DEF pays, w, b

\* The two rows a settlement posts.
CaptureRow(r) ==
  LET b == betReq[r].bet
      before == wallet[bet[b].wallet].balance
  IN Entry("BET_CAPTURE", "DEBIT", bet[b].amount, before, before,
           <<betReq[r].nonce, "capture">>, b)

PayoutRow(r) ==
  LET b == betReq[r].bet
      before == wallet[bet[b].wallet].balance
      pays == Pays(b, betReq[r].result)
  IN Entry("BET_PAYOUT", "CREDIT", pays, before, before + pays,
           <<betReq[r].nonce, "payout">>, b)

\* A settlement posts a capture, and a payout when it pays.
LEMMA SettlePosts ==
  ASSUME BetsTypeOK, RowsShaped, ClaimsPending, NEW r \in BetRequests, SettleCommit(r)
  PROVE  LET w == bet[betReq[r].bet].wallet
             captured == Append(ledger[w], CaptureRow(r))
             paid == Append(captured, PayoutRow(r))
         IN  /\ CaptureRow(r) \in LedgerRows /\ PayoutRow(r) \in LedgerRows
             /\ ledger' = [ledger EXCEPT ![w] =
                             IF Pays(betReq[r].bet, betReq[r].result) > 0 THEN paid ELSE captured]
             /\ ledger' \in [Wallets -> Seq(LedgerRows)]
<1> DEFINE b == betReq[r].bet
           w == bet[b].wallet
           pays == Pays(b, betReq[r].result)
           before == wallet[w].balance
           captured == Append(ledger[w], CaptureRow(r))
           paid == Append(captured, PayoutRow(r))
<1>1. /\ b \in BetIds /\ w \in Wallets /\ betReq[r].nonce \in Nonces
      /\ bet[b].amount \in 0..BigintMax /\ before \in 0..BigintMax
      /\ pays \in 0..BigintMax /\ before + pays \in 0..BigintMax
  BY SettleFacts, Zenon
<1>2. CaptureRow(r) \in LedgerRows /\ PayoutRow(r) \in LedgerRows
  BY <1>1, RowKeys DEF CaptureRow, PayoutRow, Entry, LedgerRows, Reasons
<1>3. ledger[w] \in Seq(LedgerRows)
  BY <1>1 DEF BetsTypeOK
<1>4. ledger[w] \o <<CaptureRow(r)>> = captured
  BY <1>2, <1>3, AppendIsConcat
<1>5. ledger[w] \o <<CaptureRow(r), PayoutRow(r)>> = paid
  <2>1. \A rows \in Seq(LedgerRows), x, y \in LedgerRows :
           rows \o <<x, y>> = Append(Append(rows, x), y)
    BY AppendTwo
  <2>2. QED  BY <1>2, <1>3, <2>1
<1>6. ledger' = [ledger EXCEPT ![w] =
                   ledger[w] \o IF pays > 0 THEN <<CaptureRow(r), PayoutRow(r)>>
                                            ELSE <<CaptureRow(r)>>]
  BY <1>1 DEF SettleCommit, CaptureRow, PayoutRow, BetsTypeOK
<1>7. ledger' = [ledger EXCEPT ![w] = IF pays > 0 THEN paid ELSE captured]
  BY <1>4, <1>5, <1>6
<1>8. ledger' \in [Wallets -> Seq(LedgerRows)]
  <2>1. captured \in Seq(LedgerRows)
    BY <1>2, <1>3
  <2>2. paid \in Seq(LedgerRows)
    BY <1>2, <2>1
  <2> HIDE DEF captured, paid
  <2>3. QED  BY <1>7, <2>1, <2>2 DEF BetsTypeOK
<1>9. QED  BY <1>2, <1>7, <1>8

\* A settlement keeps the types.
LEMMA SettleCommitType ==
  ASSUME BetsTypeOK, RowsShaped, ClaimsPending, NEW r \in BetRequests, SettleCommit(r)
  PROVE  BetsTypeOK'
<1> DEFINE b == betReq[r].bet
           w == bet[b].wallet
           pays == Pays(b, betReq[r].result)
           before == wallet[w].balance
<1>1. /\ b \in BetIds /\ w \in Wallets /\ betReq[r].nonce \in Nonces
      /\ betReq[r].result \in Outcomes /\ betReq[r].pc # "idle"
      /\ bet[b] \in BetRows /\ wallet[w] \in WalletRows
      /\ before \in 0..BigintMax /\ wallet[w].locked - bet[b].amount \in 0..BigintMax
      /\ pays \in 0..BigintMax /\ before + pays \in 0..BigintMax
  BY SettleFacts DEF SettleCommit, BetAt
<1>2. wallet' \in [Wallets -> WalletRows]
  <2>1. wallet' = [wallet EXCEPT ![w] =
                     [wallet[w] EXCEPT !.balance = before + pays,
                                       !.locked = wallet[w].locked - bet[b].amount]]
    BY <1>1 DEF SettleCommit, BetsTypeOK, WalletRows
  <2>2. [wallet[w] EXCEPT !.balance = before + pays,
                          !.locked = wallet[w].locked - bet[b].amount] \in WalletRows
    BY <1>1 DEF WalletRows
  <2>3. QED  BY <1>1, <2>1, <2>2 DEF BetsTypeOK
<1>3. bet' \in [BetIds -> BetRows]
  <2> DEFINE new == [bet[b] EXCEPT !.status = betReq[r].result, !.nonce = betReq[r].nonce,
                                   !.payout = pays, !.settleBefore = before,
                                   !.settleAfter = before + pays]
  <2>1. bet' = [bet EXCEPT ![b] = new]
    BY <1>1 DEF SettleCommit, BetsTypeOK, BetRows
  <2>2. new \in BetRows
    BY <1>1 DEF BetRows
  <2>3. QED  BY <1>1, <2>1, <2>2 DEF BetsTypeOK
<1>4. gameResult' \subseteq Results
  <2>1. [bet |-> b, outcome |-> betReq[r].result, nonce |-> betReq[r].nonce] \in Results
    BY <1>1 DEF Results
  <2>2. QED  BY <2>1 DEF SettleCommit, BetsTypeOK
<1>5. betReq' \in [BetRequests -> {Idle} \cup PlaceCalls \cup SettleCalls]
  <2>1. ReplyBet(r, "ok", b, before, before + pays)
    BY DEF SettleCommit
  <2>2. before \in Nat /\ before + pays \in Nat
    BY SettleFacts, Zenon
  <2>3. QED  BY <1>1, <2>1, <2>2, BetReplyType DEF Answers
<1>6. ledger' \in [Wallets -> Seq(LedgerRows)]
  BY SettlePosts
<1>7. QED  BY <1>2, <1>3, <1>4, <1>5, <1>6 DEF BetsTypeOK

\* The steps that change nothing but their call, and leave it unlocked.
Quiet(r) ==
  \/ SubmitBet(r) \/ ReturnBet(r) \/ FailBet(r)
  \/ PlaceLookup(r) \/ PlaceInsufficient(r) \/ PlaceOverflow(r)
  \/ PlaceDuplicate(r) \/ PlaceRestart(r)
  \/ SettleRefused(r) \/ SettleAgain(r) \/ SettleAbort(r) \/ SettleRestart(r)

LEMMA QuietStep ==
  ASSUME BetsTypeOK, RowsShaped, NEW r \in BetRequests, Quiet(r)
  PROVE  /\ UNCHANGED <<wallet, ledger, bet, gameResult>>
         /\ betReq' \in [BetRequests -> {Idle} \cup PlaceCalls \cup SettleCalls]
         /\ \A q \in BetRequests \ {r} : betReq'[q] = betReq[q]
         /\ betReq'[r].pc \notin {"result", "wallet"}
<1> DEFINE BetCalls == {Idle} \cup PlaceCalls \cup SettleCalls
           Fine == /\ UNCHANGED <<wallet, ledger, bet, gameResult>>
                   /\ betReq' \in [BetRequests -> BetCalls]
                   /\ \A q \in BetRequests \ {r} : betReq'[q] = betReq[q]
                   /\ betReq'[r].pc \notin {"result", "wallet"}
<1> SUFFICES Fine
  OBVIOUS
<1>1. ASSUME NEW call \in BetCalls, call.pc \notin {"result", "wallet"},
             betReq' = [betReq EXCEPT ![r] = call], UNCHANGED <<wallet, ledger, bet, gameResult>>
      PROVE  Fine
  BY <1>1 DEF BetsTypeOK
<1>2. ASSUME NEW outcome \in Answers, NEW b, b \in BetIds \/ b = betReq[r].bet,
             NEW before \in Nat, NEW after \in Nat, ReplyBet(r, outcome, b, before, after),
             betReq[r].pc # "idle", UNCHANGED <<wallet, ledger, bet, gameResult>>
      PROVE  Fine
  <2>1. betReq' \in [BetRequests -> BetCalls]
    BY <1>2, BetReplyType
  <2>2. (\A q \in BetRequests \ {r} : betReq'[q] = betReq[q]) /\ betReq'[r].pc = "done"
    BY <1>2, ReplyEffect
  <2>3. QED  BY <1>2, <2>1, <2>2
<1>3. ASSUME NEW outcome \in Answers, Refuse(r, outcome),
             betReq[r].pc # "idle", UNCHANGED <<wallet, ledger, bet, gameResult>>
      PROVE  Fine
  BY <1>2, <1>3 DEF Refuse
<1> HIDE DEF Fine
<1>4. CASE SubmitBet(r)
  <2>1. CASE \E w \in Wallets, key \in Keys, amount \in Amounts, m \in Multipliers :
               betReq' = [betReq EXCEPT ![r] = PlaceCall(w, key, amount, m)]
    <3>1. PICK w \in Wallets, key \in Keys, amount \in Amounts, m \in Multipliers :
               betReq' = [betReq EXCEPT ![r] = PlaceCall(w, key, amount, m)]
      BY <2>1
    <3>2. PlaceCall(w, key, amount, m) \in PlaceCalls
      BY BetAssumption, StakeAssumption DEF PlaceCall, PlaceCalls, Answers
    <3>3. PlaceCall(w, key, amount, m).pc = "lookup"
      BY DEF PlaceCall
    <3>4. QED  BY <1>1, <1>4, <3>1, <3>2, <3>3 DEF SubmitBet
  <2>2. CASE \E b \in BetIds, result \in Outcomes, nonce \in Nonces :
               betReq' = [betReq EXCEPT ![r] = SettleCall(b, result, nonce)]
    <3>1. PICK b \in BetIds, result \in Outcomes, nonce \in Nonces :
               betReq' = [betReq EXCEPT ![r] = SettleCall(b, result, nonce)]
      BY <2>2
    <3>2. SettleCall(b, result, nonce) \in SettleCalls
      BY BetAssumption, StakeAssumption DEF SettleCall, SettleCalls, Answers
    <3>3. SettleCall(b, result, nonce).pc = "lock"
      BY DEF SettleCall
    <3>4. QED  BY <1>1, <1>4, <3>1, <3>2, <3>3 DEF SubmitBet
  <2>3. QED  BY <1>4, <2>1, <2>2 DEF SubmitBet
<1>5. CASE ReturnBet(r) \/ FailBet(r)
  BY <1>1, <1>5 DEF ReturnBet, FailBet, Idle
<1>6. ASSUME NEW b \in PlacedWith(betReq[r].wallet, betReq[r].key), Replay(r, b),
             betReq[r] \in PlaceCalls, UNCHANGED <<wallet, ledger, bet, gameResult>>
      PROVE  Fine
  <2>1. betReq' \in [BetRequests -> BetCalls]
    BY <1>6, ReplayType
  <2>2. betReq[r].pc # "idle"
    BY <1>6 DEF PlaceCalls
  <2>3. (\A q \in BetRequests \ {r} : betReq'[q] = betReq[q]) /\ betReq'[r].pc = "done"
    BY <1>6, <2>2, ReplyEffect DEF Replay
  <2>4. QED  BY <1>6, <2>1, <2>3 DEF Fine
<1>7. CASE PlaceLookup(r)
  <2>1. betReq[r] \in PlaceCalls
    BY <1>7, CallTypes DEF PlaceLookup, BetAt
  <2>2. CASE betReq' = [betReq EXCEPT ![r].pc = "place"]
    <3>1. [betReq[r] EXCEPT !.pc = "place"] \in PlaceCalls
      BY <2>1 DEF PlaceCalls
    <3>2. [betReq[r] EXCEPT !.pc = "place"].pc = "place"
      BY <2>1 DEF PlaceCalls
    <3>3. QED  BY <1>1, <1>7, <2>2, <3>1, <3>2 DEF PlaceLookup
  <2>3. QED  BY <1>6, <1>7, <2>1, <2>2 DEF PlaceLookup
<1>8. CASE PlaceInsufficient(r) \/ PlaceOverflow(r)
  BY <1>3, <1>8 DEF PlaceInsufficient, PlaceOverflow, BetAt, Answers
<1>9. CASE PlaceDuplicate(r)
  <2>1. betReq[r] \in PlaceCalls
    BY <1>9, CallTypes DEF PlaceDuplicate, BetAt
  <2>2. CASE Refuse(r, "conflict")
    BY <1>3, <1>9, <2>2 DEF PlaceDuplicate, BetAt, Answers
  <2>3. QED  BY <1>6, <1>9, <2>1, <2>2 DEF PlaceDuplicate
<1>10. CASE PlaceRestart(r)
  <2>1. betReq[r] \in PlaceCalls
    BY <1>10, CallTypes DEF PlaceRestart, BetAt
  <2>2. Restart(r, "place")
    BY <1>10 DEF PlaceRestart
  <2>3. CASE Refuse(r, "txConflict")
    BY <1>3, <1>10, <2>3 DEF PlaceRestart, BetAt, Answers
  <2>4. CASE betReq'[r].pc = "place"
    BY <1>10, <2>1, <2>2, <2>4, RestartEffect DEF PlaceRestart, Fine
  <2>5. QED  BY <2>1, <2>2, <2>3, <2>4, RestartEffect
<1>11. CASE SettleRefused(r)
  BY <1>3, <1>11 DEF SettleRefused, BetAt, Answers
<1>12. CASE SettleAgain(r)
  <2>1. betReq[r] \in SettleCalls
    BY <1>12, CallTypes DEF SettleAgain, BetAt
  <2>2. bet[betReq[r].bet] \in BetRows /\ betReq[r].bet \in BetIds
    BY <2>1 DEF SettleCalls, BetsTypeOK
  <2>3. bet[betReq[r].bet].settleBefore \in Nat /\ bet[betReq[r].bet].settleAfter \in Nat
    BY <2>2, Numbers DEF BetRows
  <2>4. CASE Refuse(r, "alreadySettled")
    BY <1>3, <1>12, <2>4 DEF SettleAgain, BetAt, Answers
  <2>5. CASE ReplyBet(r, "ok", betReq[r].bet, bet[betReq[r].bet].settleBefore, bet[betReq[r].bet].settleAfter)
    BY <1>2, <1>12, <2>2, <2>3, <2>5 DEF SettleAgain, BetAt, Answers
  <2>6. QED  BY <1>12, <2>4, <2>5 DEF SettleAgain
<1>13. CASE SettleAbort(r)
  <2>1. PICK outcome \in {"lockViolated", "replayDetected", "outOfRange"} : Refuse(r, outcome)
    BY <1>13 DEF SettleAbort
  <2>2. QED  BY <1>3, <1>13, <2>1 DEF SettleAbort, BetAt, Answers
<1>14. CASE SettleRestart(r)
  <2>1. betReq[r] \in SettleCalls
    BY <1>14, CallTypes DEF SettleRestart
  <2>2. Restart(r, "lock")
    BY <1>14 DEF SettleRestart
  <2>3. CASE Refuse(r, "txConflict")
    BY <1>3, <1>14, <2>3 DEF SettleRestart, Answers
  <2>4. CASE betReq'[r].pc = "lock"
    BY <1>14, <2>1, <2>2, <2>4, RestartEffect DEF SettleRestart, Fine
  <2>5. QED  BY <2>1, <2>2, <2>3, <2>4, RestartEffect
<1>15. QED
  BY <1>4, <1>5, <1>7, <1>8, <1>9, <1>10, <1>11, <1>12, <1>13, <1>14 DEF Quiet

\* A settlement that locks its bet, or inserts its result, changes only itself.
Advance(r) == SettleLock(r) \/ SettleResult(r)

LEMMA AdvanceStep ==
  ASSUME BetsTypeOK, RowsShaped, NEW r \in BetRequests, Advance(r)
  PROVE  /\ UNCHANGED <<wallet, ledger, bet, gameResult>>
         /\ betReq' \in [BetRequests -> {Idle} \cup PlaceCalls \cup SettleCalls]
         /\ \A q \in BetRequests \ {r} : betReq'[q] = betReq[q]
         /\ \/ betReq'[r].pc = "done" /\ SettleResult(r) /\ Refuse(r, "replayDetected")
            \/ /\ betReq'[r].pc = (IF SettleLock(r) THEN "result" ELSE "wallet")
               /\ betReq'[r].bet = betReq[r].bet /\ betReq'[r].nonce = betReq[r].nonce
               /\ betReq'[r].result = betReq[r].result
               /\ betReq[r].pc = "result" => ~NonceTaken(betReq[r].nonce)
<1>1. betReq[r] \in SettleCalls /\ betReq[r].bet \in BetIds /\ betReq[r].pc # "idle"
  <2>1. betReq[r] \in SettleCalls
    BY CallTypes DEF Advance, SettleLock, SettleResult, BetAt
  <2>2. QED  BY <2>1 DEF SettleCalls
<1>2. UNCHANGED <<wallet, ledger, bet, gameResult>>
  BY DEF Advance, SettleLock, SettleResult
<1>3. CASE SettleLock(r)
  <2> DEFINE w == bet[betReq[r].bet].wallet
             new == [betReq[r] EXCEPT !.pc = "result", !.snapshot = Len(ledger[w])]
  <2>1. w \in Wallets
    BY <1>1, <1>3 DEF SettleLock, RowsShaped
  <2>2. Len(ledger[w]) \in Nat
    BY <2>1 DEF BetsTypeOK
  <2>3. /\ new \in SettleCalls /\ new.pc = "result" /\ new.bet = betReq[r].bet
        /\ new.nonce = betReq[r].nonce /\ new.result = betReq[r].result
    BY <1>1, <2>2 DEF SettleCalls
  <2>4. betReq' = [betReq EXCEPT ![r] = new]
    BY <1>1, <1>3 DEF SettleLock, BetsTypeOK, SettleCalls
  <2> HIDE DEF new
  <2>5. betReq'[r] = new
    BY <2>4 DEF BetsTypeOK
  <2>6. QED  BY <1>2, <1>3, <2>3, <2>4, <2>5 DEF BetsTypeOK, SettleLock, BetAt
<1>4. CASE SettleResult(r)
  <2> DEFINE new == [betReq[r] EXCEPT !.pc = "wallet"]
  <2>1. CASE NonceTaken(betReq[r].nonce)
    <3>1. Refuse(r, "replayDetected")
      BY <1>4, <2>1 DEF SettleResult
    <3>2. betReq' \in [BetRequests -> {Idle} \cup PlaceCalls \cup SettleCalls]
      BY <1>1, <3>1, RefuseType DEF Answers
    <3>3. (\A q \in BetRequests \ {r} : betReq'[q] = betReq[q]) /\ betReq'[r].pc = "done"
      BY <1>1, <3>1, ReplyEffect DEF Refuse
    <3>4. QED  BY <1>2, <1>4, <3>1, <3>2, <3>3
  <2>2. CASE ~NonceTaken(betReq[r].nonce)
    <3>1. betReq' = [betReq EXCEPT ![r] = new] /\ ~SettleLock(r)
      BY <1>4, <2>2 DEF SettleResult, SettleLock, BetAt, BetsTypeOK
    <3>2. /\ new \in SettleCalls /\ new.pc = "wallet" /\ new.bet = betReq[r].bet
          /\ new.nonce = betReq[r].nonce /\ new.result = betReq[r].result
      BY <1>1 DEF SettleCalls
    <3> HIDE DEF new
    <3>3. betReq'[r] = new
      BY <3>1 DEF BetsTypeOK
    <3>4. QED  BY <1>2, <2>2, <3>1, <3>2, <3>3 DEF BetsTypeOK
  <2>3. QED  BY <2>1, <2>2
<1>5. QED  BY <1>3, <1>4 DEF Advance

\* A step of the server, a client or the wallet service is one of five kinds.
LEMMA StepKinds ==
  ASSUME [BetsNext]_betsVars
  PROVE  \/ UNCHANGED betsVars
         \/ \E r \in BetRequests : Quiet(r) \/ Advance(r) \/ PlaceCommit(r) \/ SettleCommit(r)
         \/ \E w \in Wallets, delta \in Deltas, key \in Keys : BetsAdjust(w, delta, key)
BY DEF BetsNext, ServeBet, Quiet, Advance

\* No step breaks a type.
LEMMA BetsTypeStep == BetsTypeOK /\ RowsShaped /\ ClaimsPending /\ [BetsNext]_betsVars => BetsTypeOK'
<1> SUFFICES ASSUME BetsTypeOK, RowsShaped, ClaimsPending, [BetsNext]_betsVars PROVE BetsTypeOK'
  OBVIOUS
<1>1. CASE UNCHANGED betsVars
  BY <1>1 DEF betsVars, BetsTypeOK
<1>2. ASSUME NEW r \in BetRequests, Quiet(r) PROVE BetsTypeOK'
  BY <1>2, QuietStep, QuietType
<1>3. ASSUME NEW r \in BetRequests, Advance(r) PROVE BetsTypeOK'
  BY <1>3, AdvanceStep, QuietType
<1>4. ASSUME NEW r \in BetRequests, PlaceCommit(r) PROVE BetsTypeOK'
  BY <1>4, PlaceCommitType
<1>5. ASSUME NEW r \in BetRequests, SettleCommit(r) PROVE BetsTypeOK'
  BY <1>5, SettleCommitType
<1>6. ASSUME NEW w \in Wallets, NEW delta \in Deltas, NEW key \in Keys,
             BetsAdjust(w, delta, key)
      PROVE  BetsTypeOK'
  <2> DEFINE before == wallet[w].balance
             after == before + delta
             size == IF delta > 0 THEN delta ELSE -delta
  <2>1. wallet[w] \in WalletRows
    BY DEF BetsTypeOK
  <2>2. before \in 0..BigintMax /\ after \in 0..BigintMax
    BY <1>6, <2>1 DEF BetsAdjust, AdjustWalletBalance, Fits, WalletRows
  <2>3. size \in 0..BigintMax
    BY <1>6, <2>2, BigintAssumption, StakeAssumption
  <2>4. wallet' \in [Wallets -> WalletRows]
    <3>1. wallet' = [wallet EXCEPT ![w] = [wallet[w] EXCEPT !.balance = after]]
      BY <1>6 DEF BetsAdjust, AdjustWalletBalance, BetsTypeOK
    <3>2. [wallet[w] EXCEPT !.balance = after] \in WalletRows
      BY <2>1, <2>2 DEF WalletRows
    <3>3. QED  BY <3>1, <3>2 DEF BetsTypeOK
  <2>5. ledger' \in [Wallets -> Seq(LedgerRows)]
    <3>1. Entry("ADJUST", IF delta > 0 THEN "CREDIT" ELSE "DEBIT", size,
                before, after, key, NoRef) \in LedgerRows
      BY <2>2, <2>3, RowKeys DEF Entry, LedgerRows, Reasons
    <3>2. QED  BY <1>6, <3>1, PostType DEF BetsAdjust, AdjustWalletBalance
  <2>6. QED  BY <1>6, <2>4, <2>5 DEF BetsAdjust, BetsTypeOK
<1>7. QED
  BY <1>1, <1>2, <1>3, <1>4, <1>5, <1>6, StepKinds

-----------------------------------------------------------------------------
(***************************************************************************)
(* What the two commits and an adjustment do.                              *)
(***************************************************************************)

\* The row a placement inserts.
PlacedRow(r) ==
  [status |-> "PENDING", wallet |-> betReq[r].wallet, amount |-> betReq[r].amount,
   multiplier |-> betReq[r].multiplier, placeKey |-> betReq[r].key,
   placeBefore |-> wallet[betReq[r].wallet].balance, nonce |-> NoNonce, payout |-> 0,
   settleBefore |-> 0, settleAfter |-> 0]

HoldRow(r, b) ==
  LET before == wallet[betReq[r].wallet].balance
  IN Entry("BET_HOLD", "DEBIT", betReq[r].amount, before, before - betReq[r].amount,
           betReq[r].key, b)

\* A placement fills a free row, moves its stake and posts it under its key.
LEMMA PlaceEffect ==
  ASSUME BetsTypeOK, NEW r \in BetRequests, PlaceCommit(r)
  PROVE  LET w == betReq[r].wallet
             amount == betReq[r].amount
         IN  /\ betReq[r] \in PlaceCalls /\ w \in Wallets /\ amount \in Amounts
             /\ amount \in 0..BigintMax /\ betReq[r].key \in Keys
             /\ PlaceUnique(r) /\ amount <= wallet[w].balance
             /\ wallet'[w].balance = wallet[w].balance - amount
             /\ wallet'[w].locked = wallet[w].locked + amount
             /\ \A v \in Wallets \ {w} : wallet'[v] = wallet[v]
             /\ UNCHANGED gameResult
             /\ \E b \in BetIds :
                  /\ bet[b] = NoRow
                  /\ bet'[b] = PlacedRow(r)
                  /\ \A c \in BetIds \ {b} : bet'[c] = bet[c]
                  /\ Post(w, HoldRow(r, b)) /\ HoldRow(r, b) \in LedgerRows
                  /\ ReplyBet(r, "ok", b, wallet[w].balance, wallet[w].balance - amount)
<1> DEFINE w == betReq[r].wallet
           amount == betReq[r].amount
           before == wallet[w].balance
<1>1. betReq[r] \in PlaceCalls /\ betReq[r].pc # "idle"
  BY CallTypes DEF PlaceCommit, BetAt
<1>2. w \in Wallets /\ amount \in Amounts /\ amount \in 0..BigintMax /\ betReq[r].key \in Keys
  BY <1>1, Numbers DEF PlaceCalls
<1>3. wallet[w] \in WalletRows
  BY <1>2 DEF BetsTypeOK
<1>4. /\ PlaceUnique(r) /\ amount <= before /\ UNCHANGED gameResult
      /\ before \in 0..BigintMax /\ before - amount \in 0..BigintMax
  <2>1. PlaceUnique(r) /\ amount <= before /\ UNCHANGED gameResult
    BY <1>2, <1>3 DEF PlaceCommit, DebitBalanceInTx, CanDebit, WalletRows
  <2>2. before \in 0..BigintMax
    BY <1>3 DEF WalletRows
  <2>3. before - amount \in 0..BigintMax
    BY <1>2, <2>1, <2>2, BigintAssumption
  <2>4. QED  BY <2>1, <2>2, <2>3
<1>5. /\ wallet'[w].balance = before - amount
      /\ wallet'[w].locked = wallet[w].locked + amount
      /\ \A v \in Wallets \ {w} : wallet'[v] = wallet[v]
  BY <1>2 DEF PlaceCommit, DebitBalanceInTx, BetsTypeOK
<1>6. PICK b \in BetIds :
        /\ bet[b] = NoRow
        /\ bet' = [bet EXCEPT ![b] = PlacedRow(r)]
        /\ Post(w, HoldRow(r, b))
        /\ ReplyBet(r, "ok", b, before, before - amount)
  BY DEF PlaceCommit, PlacedRow, HoldRow
<1>7. bet'[b] = PlacedRow(r) /\ \A c \in BetIds \ {b} : bet'[c] = bet[c]
  BY <1>6 DEF BetsTypeOK
<1>8. HoldRow(r, b) \in LedgerRows
  BY <1>2, <1>4, RowKeys DEF HoldRow, Entry, LedgerRows, Reasons
<1>9. QED  BY <1>1, <1>2, <1>4, <1>5, <1>6, <1>7, <1>8

\* A settlement finalizes its bet, takes the stake from the locked funds, credits
\* the payout and stores the result.
LEMMA SettleEffect ==
  ASSUME BetsTypeOK, RowsShaped, ClaimsPending, NEW r \in BetRequests, SettleCommit(r)
  PROVE  LET b == betReq[r].bet
             w == bet[b].wallet
             pays == Pays(b, betReq[r].result)
             before == wallet[w].balance
         IN  /\ wallet'[w].balance = before + pays
             /\ wallet'[w].locked = wallet[w].locked - bet[b].amount
             /\ \A v \in Wallets \ {w} : wallet'[v] = wallet[v]
             /\ bet'[b].status = betReq[r].result /\ bet'[b].nonce = betReq[r].nonce
             /\ bet'[b].payout = pays /\ bet'[b].settleBefore = before
             /\ bet'[b].settleAfter = before + pays
             /\ bet'[b].wallet = w /\ bet'[b].amount = bet[b].amount
             /\ bet'[b].multiplier = bet[b].multiplier
             /\ bet'[b].placeKey = bet[b].placeKey
             /\ bet'[b].placeBefore = bet[b].placeBefore
             /\ \A c \in BetIds \ {b} : bet'[c] = bet[c]
             /\ gameResult' = gameResult \cup
                  {[bet |-> b, outcome |-> betReq[r].result, nonce |-> betReq[r].nonce]}
             /\ ReplyBet(r, "ok", b, before, before + pays)
<1> DEFINE b == betReq[r].bet
           w == bet[b].wallet
<1>1. b \in BetIds /\ w \in Wallets /\ bet[b] \in BetRows /\ wallet[w] \in WalletRows
  BY SettleFacts
<1>2. /\ wallet'[w].balance = wallet[w].balance + Pays(b, betReq[r].result)
      /\ wallet'[w].locked = wallet[w].locked - bet[b].amount
      /\ \A v \in Wallets \ {w} : wallet'[v] = wallet[v]
  BY <1>1 DEF SettleCommit, BetsTypeOK, WalletRows
<1>3. /\ bet'[b].status = betReq[r].result /\ bet'[b].nonce = betReq[r].nonce
      /\ bet'[b].payout = Pays(b, betReq[r].result)
      /\ bet'[b].settleBefore = wallet[w].balance
      /\ bet'[b].settleAfter = wallet[w].balance + Pays(b, betReq[r].result)
      /\ bet'[b].wallet = w /\ bet'[b].amount = bet[b].amount
      /\ bet'[b].multiplier = bet[b].multiplier
      /\ bet'[b].placeKey = bet[b].placeKey
      /\ bet'[b].placeBefore = bet[b].placeBefore
      /\ \A c \in BetIds \ {b} : bet'[c] = bet[c]
  BY <1>1 DEF SettleCommit, BetsTypeOK, BetRows
<1>4. QED  BY <1>2, <1>3 DEF SettleCommit

\* An adjustment moves one balance.
LEMMA AdjustEffect ==
  ASSUME BetsTypeOK, NEW w \in Wallets, NEW delta, NEW key, BetsAdjust(w, delta, key)
  PROVE  /\ \A v \in Wallets : wallet'[v].locked = wallet[v].locked
         /\ \A v \in Wallets \ {w} : wallet'[v] = wallet[v]
         /\ wallet'[w].balance = wallet[w].balance + delta
         /\ UNCHANGED <<bet, gameResult, betReq>>
BY DEF BetsAdjust, AdjustWalletBalance, BetsTypeOK, WalletRows

\* An adjustment posts a ledger row.
LEMMA AdjustRow ==
  ASSUME BetsTypeOK, NEW w \in Wallets, NEW delta \in Deltas, NEW key \in Keys,
         BetsAdjust(w, delta, key)
  PROVE  LET before == wallet[w].balance
         IN Entry("ADJUST", IF delta > 0 THEN "CREDIT" ELSE "DEBIT",
                  IF delta > 0 THEN delta ELSE -delta,
                  before, before + delta, key, NoRef) \in LedgerRows
<1>1. wallet[w].balance \in 0..BigintMax /\ wallet[w].balance + delta \in 0..BigintMax
  BY DEF BetsTypeOK, WalletRows, BetsAdjust, AdjustWalletBalance, Fits
<1>2. (IF delta > 0 THEN delta ELSE -delta) \in 0..BigintMax
  BY <1>1, BigintAssumption, StakeAssumption
<1>3. QED  BY <1>1, <1>2, RowKeys DEF Entry, LedgerRows, Reasons

-----------------------------------------------------------------------------
(***************************************************************************)
(* Rows and claims.                                                        *)
(***************************************************************************)

\* Nothing is placed or claimed initially.
LEMMA ShapeInit == BetsInit => RowsShaped /\ ClaimsPending
BY DEF BetsInit, RowsShaped, ClaimsPending, NoRow, Outcomes, Settling, BetAt, Idle

\* A payout depends on the stake and the multiplier of the bet alone.
LEMMA PaysKept ==
  ASSUME NEW b, bet'[b].amount = bet[b].amount, bet'[b].multiplier = bet[b].multiplier
  PROVE  \A result : Pays(b, result)' = Pays(b, result)
BY DEF Pays

\* Every step leaves every row well-shaped.
LEMMA ShapeStep == BetsTypeOK /\ RowsShaped /\ ClaimsPending /\ [BetsNext]_betsVars => RowsShaped'
<1> SUFFICES ASSUME BetsTypeOK, RowsShaped, ClaimsPending, [BetsNext]_betsVars PROVE RowsShaped'
  OBVIOUS
<1>1. CASE UNCHANGED bet
  BY <1>1 DEF RowsShaped, Pays
<1>2. ASSUME NEW r \in BetRequests, PlaceCommit(r) PROVE RowsShaped'
  <2>1. PICK b \in BetIds : /\ bet'[b] = PlacedRow(r)
                            /\ \A c \in BetIds \ {b} : bet'[c] = bet[c]
    BY <1>2, PlaceEffect
  <2>2. /\ betReq[r].wallet \in Wallets /\ betReq[r].amount \in Amounts
        /\ betReq[r].multiplier \in Multipliers
        /\ betReq[r].amount <= wallet[betReq[r].wallet].balance
    BY <1>2, PlaceEffect DEF PlaceCalls
  <2>3. \A c \in BetIds \ {b} : \A result : Pays(c, result)' = Pays(c, result)
    BY <2>1, PaysKept
  <2>4. QED  BY <2>1, <2>2, <2>3 DEF RowsShaped, PlacedRow, Outcomes
<1>3. ASSUME NEW r \in BetRequests, SettleCommit(r) PROVE RowsShaped'
  <2> DEFINE b == betReq[r].bet
  <2>1. /\ b \in BetIds /\ bet[b].status = "PENDING" /\ betReq[r].result \in Outcomes
    BY <1>3, SettleFacts
  <2>2. /\ bet'[b].status = betReq[r].result
        /\ bet'[b].payout = Pays(b, betReq[r].result)
        /\ bet'[b].settleAfter = bet'[b].settleBefore + bet'[b].payout
        /\ bet'[b].wallet = bet[b].wallet /\ bet'[b].amount = bet[b].amount
        /\ bet'[b].placeBefore = bet[b].placeBefore
        /\ bet'[b].multiplier = bet[b].multiplier
        /\ \A c \in BetIds \ {b} : bet'[c] = bet[c]
    BY <1>3, SettleEffect
  <2>3. \A c \in BetIds : \A result : Pays(c, result)' = Pays(c, result)
    BY <2>2, PaysKept
  <2>4. QED  BY <2>1, <2>2, <2>3 DEF RowsShaped, Outcomes
<1>4. QED
  BY <1>1, <1>2, <1>3, QuietStep, AdvanceStep, AdjustEffect, StepKinds DEF betsVars

\* Every step keeps claimed bets pending, and nonces and bets claimed once.
LEMMA ClaimsStep == BetsTypeOK /\ RowsShaped /\ ClaimsPending /\ [BetsNext]_betsVars => ClaimsPending'
<1> SUFFICES ASSUME BetsTypeOK, RowsShaped, ClaimsPending, [BetsNext]_betsVars PROVE ClaimsPending'
  OBVIOUS
<1> USE DEF ClaimsPending, Settling, BetAt, NonceTaken
<1>1. CASE UNCHANGED betsVars
  BY <1>1 DEF betsVars, Verified
<1>2. ASSUME NEW r \in BetRequests, Quiet(r) PROVE ClaimsPending'
  BY <1>2, QuietStep DEF Verified
<1>3. ASSUME NEW r \in BetRequests, Advance(r) PROVE ClaimsPending'
  <2>1. UNCHANGED <<bet, gameResult>> /\ \A q \in BetRequests \ {r} : betReq'[q] = betReq[q]
    BY <1>3, AdvanceStep
  <2>2. CASE betReq'[r].pc = "done"
    BY <2>1, <2>2 DEF Verified
  <2>3. CASE SettleLock(r)
    <3>1. /\ betReq'[r].pc = "result" /\ betReq'[r].bet = betReq[r].bet
          /\ betReq'[r].nonce = betReq[r].nonce /\ betReq'[r].result = betReq[r].result
      BY <1>3, <2>3, AdvanceStep DEF SettleLock, SettleResult
    <3>2. /\ bet[betReq[r].bet].status = "PENDING" /\ Verified(r)
          /\ \A q \in BetRequests : Settling(q) => betReq[q].bet # betReq[r].bet
      BY <2>3 DEF SettleLock, BetLocked
    <3>3. QED  BY <2>1, <3>1, <3>2 DEF Verified
  <2>4. CASE SettleResult(r) /\ betReq'[r].pc # "done"
    <3>1. /\ betReq'[r].pc = "wallet" /\ betReq'[r].bet = betReq[r].bet
          /\ betReq'[r].nonce = betReq[r].nonce /\ betReq'[r].result = betReq[r].result
          /\ ~NonceTaken(betReq[r].nonce)
      BY <1>3, <2>4, AdvanceStep DEF SettleLock, SettleResult
    <3>2. /\ betReq[r].pc = "result"
          /\ \A q \in BetRequests : BetAt(q, "wallet") => betReq[q].nonce # betReq[r].nonce
      BY <2>4 DEF SettleResult, NonceClaimed
    <3>3. QED  BY <2>1, <3>1, <3>2 DEF Verified
  <2>5. QED  BY <1>3, <2>2, <2>3, <2>4 DEF Advance
<1>4. ASSUME NEW r \in BetRequests, PlaceCommit(r) PROVE ClaimsPending'
  <2>1. PICK b \in BetIds : /\ bet[b] = NoRow
                            /\ \A c \in BetIds \ {b} : bet'[c] = bet[c]
                            /\ ReplyBet(r, "ok", b, wallet[betReq[r].wallet].balance,
                                     wallet[betReq[r].wallet].balance - betReq[r].amount)
    BY <1>4, PlaceEffect
  <2>2. betReq[r].pc = "place"
    BY <1>4 DEF PlaceCommit
  <2>3. betReq'[r].pc = "done" /\ \A q \in BetRequests \ {r} : betReq'[q] = betReq[q]
    BY <2>1, <2>2, ReplyEffect
  <2>4. \A q \in BetRequests : Settling(q) => betReq[q].bet \in BetIds /\ betReq[q].bet # b
    BY <2>1, CallTypes DEF SettleCalls, NoRow
  <2>5. UNCHANGED gameResult
    BY <1>4, PlaceEffect
  <2>6. \A q \in BetRequests : Settling(q)' => q # r /\ Settling(q)
    BY <2>3
  <2>7. \A q \in BetRequests : Settling(q)' => bet'[betReq'[q].bet] = bet[betReq[q].bet]
    BY <2>1, <2>3, <2>4, <2>6
  <2>8. \A q \in BetRequests : q # r => Verified(q)' = Verified(q)
    BY <2>3 DEF Verified
  <2>9. QED  BY <2>3, <2>5, <2>6, <2>7, <2>8
<1>5. ASSUME NEW r \in BetRequests, SettleCommit(r) PROVE ClaimsPending'
  <2> DEFINE b == betReq[r].bet
  <2>1. /\ \A c \in BetIds \ {b} : bet'[c] = bet[c]
        /\ gameResult' = gameResult \cup
             {[bet |-> b, outcome |-> betReq[r].result, nonce |-> betReq[r].nonce]}
        /\ ReplyBet(r, "ok", b, wallet[bet[b].wallet].balance,
                 wallet[bet[b].wallet].balance + Pays(b, betReq[r].result))
    BY <1>5, SettleEffect
  <2>2. betReq[r].pc = "wallet"
    BY <1>5 DEF SettleCommit
  <2>3. betReq'[r].pc = "done" /\ \A q \in BetRequests \ {r} : betReq'[q] = betReq[q]
    <3> HIDE DEF b
    <3>1. betReq[r].pc # "idle"
      BY <2>2
    <3>2. QED  BY <2>1, <3>1, ReplyEffect, Zenon
  <2>4. \A q \in BetRequests \ {r} : Settling(q) => betReq[q].bet \in BetIds /\ betReq[q].bet # b
    BY <2>2, CallTypes DEF SettleCalls
  <2>5. \A q \in BetRequests \ {r} : BetAt(q, "wallet") => betReq[q].nonce # betReq[r].nonce
    BY <2>2
  <2>6. \A q \in BetRequests : Settling(q)' => q # r /\ Settling(q)
    BY <2>3
  <2>7. \A q \in BetRequests : Settling(q)' => bet'[betReq'[q].bet] = bet[betReq[q].bet]
    BY <2>1, <2>3, <2>4, <2>6
  <2>8. \A q \in BetRequests : q # r => Verified(q)' = Verified(q)
    BY <2>3 DEF Verified
  <2>9. \A q \in BetRequests : (BetAt(q, "wallet") => ~NonceTaken(betReq[q].nonce))'
    <3>1. ASSUME NEW q \in BetRequests, BetAt(q, "wallet")'
          PROVE  q # r /\ betReq'[q] = betReq[q] /\ BetAt(q, "wallet")
      BY <2>3, <3>1
    <3>2. ASSUME NEW q \in BetRequests, BetAt(q, "wallet")'
          PROVE  ~NonceTaken(betReq[q].nonce) /\ betReq[q].nonce # betReq[r].nonce
      BY <2>5, <3>1, <3>2
    <3>3. ASSUME NEW q \in BetRequests, BetAt(q, "wallet")'
          PROVE  ~NonceTaken(betReq[q].nonce)'
      <4>1. betReq'[q] = betReq[q]
        BY <3>1, <3>3
      <4>2. betReq[q].nonce # betReq[r].nonce /\ \A g \in gameResult : g.nonce # betReq[q].nonce
        BY <3>2, <3>3
      <4>3. \A g \in gameResult' : g.nonce # betReq[q].nonce
        BY <2>1, <4>2
      <4>4. QED  BY <4>1, <4>3
    <3>4. QED  BY <3>3
  <2>10. /\ \A q \in BetRequests : Settling(q)' => bet'[betReq'[q].bet].status = "PENDING"
         /\ \A q \in BetRequests : Settling(q)' => Verified(q)'
    BY <2>6, <2>7, <2>8
  <2>11. \A p, q \in BetRequests :
           Settling(p)' /\ Settling(q)' /\ betReq'[p].bet = betReq'[q].bet => p = q
    BY <2>3, <2>6
  <2>12. \A p, q \in BetRequests :
           BetAt(p, "wallet")' /\ BetAt(q, "wallet")' /\ betReq'[p].nonce = betReq'[q].nonce => p = q
    BY <2>3, <2>6
  <2> HIDE DEF Settling, BetAt, NonceTaken
  <2>13. QED  BY <2>9, <2>10, <2>11, <2>12
<1>6. ASSUME NEW w \in Wallets, NEW delta \in Deltas, NEW key \in Keys,
             BetsAdjust(w, delta, key)
      PROVE  ClaimsPending'
  BY <1>6, AdjustEffect DEF Verified
<1>7. QED
  BY <1>1, <1>2, <1>3, <1>4, <1>5, <1>6, StepKinds

-----------------------------------------------------------------------------
(***************************************************************************)
(* One bet per key, one result per bet and nonce.                          *)
(***************************************************************************)

\* A place key of a wallet makes one bet, and every validated result is the
\* signed one of a bet it settled.
LEMMA OnceInit == BetsInit => PlacedOnce /\ ResultIffSettled
BY DEF BetsInit, NoRow, PlacedOnce, ResultIffSettled, Outcomes

\* A placement takes a key none of the wallet's bets has, and nothing changes
\* the key or the owner of a placed bet.
LEMMA PlacedStep ==
  BetsTypeOK /\ RowsShaped /\ ClaimsPending /\ PlacedOnce /\ [BetsNext]_betsVars => PlacedOnce'
<1> SUFFICES ASSUME BetsTypeOK, RowsShaped, ClaimsPending, PlacedOnce, [BetsNext]_betsVars
             PROVE  PlacedOnce'
  OBVIOUS
<1>1. CASE UNCHANGED bet
  BY <1>1 DEF PlacedOnce
<1>2. ASSUME NEW r \in BetRequests, PlaceCommit(r) PROVE PlacedOnce'
  <2>1. PICK b \in BetIds : /\ bet'[b] = PlacedRow(r)
                            /\ \A c \in BetIds \ {b} : bet'[c] = bet[c]
    BY <1>2, PlaceEffect
  <2>2. /\ bet'[b].wallet = betReq[r].wallet /\ bet'[b].placeKey = betReq[r].key
        /\ betReq[r].wallet \in Wallets
        /\ \A c \in BetIds : ~(bet[c].wallet = betReq[r].wallet /\ bet[c].placeKey = betReq[r].key)
    BY <1>2, <2>1, PlaceEffect DEF PlacedRow, PlaceUnique, PlacedWith
  <2>3. QED  BY <2>1, <2>2 DEF PlacedOnce
<1>3. ASSUME NEW r \in BetRequests, SettleCommit(r) PROVE PlacedOnce'
  <2>1. /\ betReq[r].bet \in BetIds /\ bet[betReq[r].bet].status = "PENDING"
    BY <1>3, SettleFacts
  <2>2. \A c \in BetIds : /\ bet'[c].wallet = bet[c].wallet
                          /\ bet'[c].placeKey = bet[c].placeKey
                          /\ bet[c].status = "NONE" => bet'[c].status = "NONE"
    BY <1>3, <2>1, SettleEffect
  <2>3. QED  BY <2>2 DEF PlacedOnce
<1>4. QED
  BY <1>1, <1>2, <1>3, QuietStep, AdvanceStep, AdjustEffect, StepKinds DEF betsVars

\* A result is stored by the settlement of its bet, under a nonce no other has.
LEMMA ResultStep ==
  BetsTypeOK /\ RowsShaped /\ ClaimsPending /\ ResultIffSettled /\ [BetsNext]_betsVars
    => ResultIffSettled'
<1> SUFFICES ASSUME BetsTypeOK, RowsShaped, ClaimsPending, ResultIffSettled, [BetsNext]_betsVars
             PROVE  ResultIffSettled'
  OBVIOUS
<1>1. CASE UNCHANGED <<bet, gameResult>>
  BY <1>1 DEF ResultIffSettled
<1>2. ASSUME NEW r \in BetRequests, PlaceCommit(r) PROVE ResultIffSettled'
  <2>1. PICK b \in BetIds : /\ bet[b] = NoRow
                            /\ bet'[b] = PlacedRow(r)
                            /\ \A c \in BetIds \ {b} : bet'[c] = bet[c]
    BY <1>2, PlaceEffect
  <2>2. UNCHANGED gameResult
    BY <1>2, PlaceEffect
  <2>3. bet[b].status \notin Outcomes /\ bet'[b].status \notin Outcomes
    BY <2>1 DEF NoRow, PlacedRow, Outcomes
  <2>4. QED  BY <2>1, <2>2, <2>3 DEF ResultIffSettled
<1>3. ASSUME NEW r \in BetRequests, SettleCommit(r) PROVE ResultIffSettled'
  <2> DEFINE b == betReq[r].bet
             new == [bet |-> b, outcome |-> betReq[r].result, nonce |-> betReq[r].nonce]
  <2>1. /\ b \in BetIds /\ bet[b].status = "PENDING" /\ betReq[r].result \in Outcomes
        /\ Verified(r) /\ betReq[r].nonce \in Nonces
    BY <1>3, SettleFacts
  <2>2. /\ bet'[b].status = betReq[r].result /\ bet'[b].nonce = betReq[r].nonce
        /\ \A c \in BetIds \ {b} : bet'[c] = bet[c]
        /\ gameResult' = gameResult \cup {new}
    BY <1>3, SettleEffect
  <2>3. {g \in gameResult : g.bet = b} = {}
    BY <2>1 DEF ResultIffSettled, Outcomes
  <2>4. ASSUME NEW c \in BetIds
        PROVE  {g \in gameResult' : g.bet = c} =
                 IF bet'[c].status \in Outcomes
                 THEN {[bet |-> c, outcome |-> bet'[c].status, nonce |-> bet'[c].nonce]}
                 ELSE {}
    <3>1. CASE c = b
      <4>1. {g \in gameResult' : g.bet = c} = {new}
        BY <2>2, <2>3, <3>1
      <4>2. QED  BY <2>1, <2>2, <3>1, <4>1
    <3>2. CASE c # b
      <4>1. {g \in gameResult' : g.bet = c} = {g \in gameResult : g.bet = c}
        BY <2>2, <3>2
      <4>2. QED  BY <2>2, <3>2, <4>1 DEF ResultIffSettled
    <3>3. QED  BY <3>1, <3>2
  <2>5. new \in Signed
    <3>1. PICK s \in Signed : /\ s.bet = betReq[r].bet /\ s.outcome = betReq[r].result
                              /\ s.nonce = betReq[r].nonce
      BY <2>1 DEF Verified
    <3>2. s \in Results
      BY BetAssumption, StakeAssumption
    <3>3. s = new
      BY <3>1, <3>2 DEF Results
    <3>4. QED  BY <3>3
  <2>6. \A g \in gameResult : g.nonce # betReq[r].nonce
    BY <1>3 DEF ClaimsPending, SettleCommit, NonceTaken
  <2>7. /\ gameResult' \subseteq Signed
        /\ \A g, h \in gameResult' : g.nonce = h.nonce => g = h
    BY <2>2, <2>5, <2>6 DEF ResultIffSettled
  <2>8. QED  BY <2>4, <2>7 DEF ResultIffSettled
<1>4. QED
  BY <1>1, <1>2, <1>3, QuietStep, AdvanceStep, AdjustEffect, StepKinds DEF betsVars

-----------------------------------------------------------------------------
(***************************************************************************)
(* The locked funds are the pending stakes.                                *)
(***************************************************************************)

\* The units of pending stakes are finitely many.
LEMMA PendingFinite ==
  ASSUME BetsTypeOK, NEW w, NEW T \in SUBSET BetIds
  PROVE  IsFiniteSet(UNION {Units(b) : b \in {x \in T : bet[x].wallet = w}})
<1>1. \A b \in BetIds : Units(b) \subseteq BetIds \X (1..BigintMax)
  <2>1. ASSUME NEW b \in BetIds PROVE 1..bet[b].amount \subseteq 1..BigintMax
    BY BigintAssumption DEF BetsTypeOK, BetRows
  <2>2. QED  BY <2>1 DEF Units
<1>2. UNION {Units(b) : b \in {x \in T : bet[x].wallet = w}} \subseteq BetIds \X (1..BigintMax)
  BY <1>1
<1>3. IsFiniteSet(BetIds \X (1..BigintMax))
  <2>1. IsFiniteSet(1..BigintMax)
    BY BigintAssumption, FS_Interval
  <2>2. QED  BY <2>1, BetAssumption, FS_Product
<1>4. QED  BY <1>2, <1>3, FS_Subset

\* Nothing is locked initially.
LEMMA LockedInit == BetsInit => LockedMatchesPending
<1> SUFFICES ASSUME BetsInit, NEW w \in Wallets PROVE wallet[w].locked = Cardinality(PendingUnits(w))
  BY DEF LockedMatchesPending
<1>1. PendingUnits(w) = {}
  BY DEF BetsInit, NoRow, PendingUnits, Units
<1>2. QED  BY <1>1, FS_EmptySet DEF BetsInit, MoneyInit

\* The units of a pending bet, next to those of the wallet's other bets.
OtherUnits(w, b) == UNION {Units(c) : c \in {x \in BetIds \ {b} : bet[x].wallet = w}}

LEMMA UnitsSplit ==
  ASSUME BetsTypeOK, NEW w, NEW b \in BetIds, NEW n \in Nat
  PROVE  /\ Cardinality(OtherUnits(w, b)) \in Nat
         /\ Cardinality(OtherUnits(w, b) \cup ({b} \X (1..n))) =
              Cardinality(OtherUnits(w, b)) + n
<1> DEFINE T == OtherUnits(w, b)
<1>1. T \cap ({b} \X (1..n)) = {}
  BY DEF OtherUnits, Units
<1>2. IsFiniteSet(T)
  BY PendingFinite DEF OtherUnits
<1> HIDE DEF T
<1>3. /\ Cardinality(T) \in Nat
      /\ Cardinality(T \cup ({b} \X (1..n))) = Cardinality(T) + n
  BY <1>1, <1>2, UnitsAdded
<1>4. QED  BY <1>3 DEF T

\* A pending bet adds its units to those of the others.
LEMMA UnitsTogether ==
  ASSUME NEW b \in BetIds, bet[b].status = "PENDING"
  PROVE  PendingUnits(bet[b].wallet) =
           OtherUnits(bet[b].wallet, b) \cup ({b} \X (1..bet[b].amount))
BY DEF PendingUnits, OtherUnits, Units

\* Without that bet, the others are all there is.
LEMMA UnitsAlone ==
  ASSUME NEW w, NEW b \in BetIds, bet[b].wallet # w \/ bet[b].status # "PENDING"
  PROVE  PendingUnits(w) = OtherUnits(w, b)
BY DEF PendingUnits, OtherUnits, Units

\* What a wallet has locked beyond the stakes of its pending bets.
BeyondPending(w) == wallet[w].locked - Cardinality(PendingUnits(w))

LEMMA PendingNumbers ==
  ASSUME BetsTypeOK, NEW w \in Wallets
  PROVE  wallet[w].locked \in Nat /\ Cardinality(PendingUnits(w)) \in Nat
<1>1. wallet[w].locked \in Nat
  BY BigintAssumption DEF BetsTypeOK, WalletRows
<1>2. IsFiniteSet(PendingUnits(w))
  BY PendingFinite DEF PendingUnits
<1>3. QED  BY <1>1, <1>2, FS_CardinalityType

\* A placement locks the stake of the bet it adds, a settlement unlocks the stake
\* of the bet it finalizes; nothing else moves either.
LEMMA BeyondPendingKept ==
  BetsTypeOK /\ RowsShaped /\ ClaimsPending /\ [BetsNext]_betsVars
    => \A w \in Wallets : BeyondPending(w)' = BeyondPending(w)
<1> SUFFICES ASSUME BetsTypeOK, RowsShaped, ClaimsPending, [BetsNext]_betsVars,
                    NEW w \in Wallets
             PROVE  BeyondPending(w)' = BeyondPending(w)
  OBVIOUS
<1>1. ASSUME UNCHANGED bet, wallet'[w].locked = wallet[w].locked
      PROVE  BeyondPending(w)' = BeyondPending(w)
  BY <1>1 DEF BeyondPending, PendingUnits, Units
<1>2. ASSUME NEW b \in BetIds, \A c \in BetIds \ {b} : bet'[c] = bet[c]
      PROVE  OtherUnits(w, b)' = OtherUnits(w, b)
  BY <1>2 DEF OtherUnits, Units
<1>n. wallet[w].locked \in Nat
  BY PendingNumbers
<1>3. ASSUME NEW r \in BetRequests, PlaceCommit(r)
      PROVE  BeyondPending(w)' = BeyondPending(w)
  <2>1. PICK b \in BetIds : /\ bet[b] = NoRow
                            /\ bet'[b] = PlacedRow(r)
                            /\ \A c \in BetIds \ {b} : bet'[c] = bet[c]
    BY <1>3, PlaceEffect
  <2>2. /\ bet[b].status # "PENDING" /\ bet'[b].status = "PENDING"
        /\ bet'[b].wallet = betReq[r].wallet /\ bet'[b].amount = betReq[r].amount
    BY <2>1 DEF NoRow, PlacedRow
  <2>3. PendingUnits(w) = OtherUnits(w, b) /\ OtherUnits(w, b)' = OtherUnits(w, b)
    BY <1>2, <2>1, <2>2, UnitsAlone
  <2>4. CASE w = betReq[r].wallet
    <3>1. PendingUnits(w)' = OtherUnits(w, b)' \cup ({b} \X (1..betReq[r].amount))
      BY <2>2, <2>4 DEF PendingUnits, OtherUnits, Units
    <3>2. wallet'[w].locked = wallet[w].locked + betReq[r].amount
      BY <1>3, <2>4, PlaceEffect
    <3>3. betReq[r].amount \in Nat
      BY <1>3, PlaceEffect, Numbers
    <3>4. /\ Cardinality(OtherUnits(w, b)) \in Nat
          /\ Cardinality(OtherUnits(w, b) \cup ({b} \X (1..betReq[r].amount))) =
               Cardinality(OtherUnits(w, b)) + betReq[r].amount
      BY <3>3, UnitsSplit
    <3>5. Cardinality(PendingUnits(w)') = Cardinality(PendingUnits(w)) + betReq[r].amount
      BY <2>3, <3>1, <3>4
    <3>6. Cardinality(PendingUnits(w)) \in Nat
      BY <2>3, <3>4
    <3>7. QED  BY <1>n, <3>2, <3>3, <3>5, <3>6 DEF BeyondPending
  <2>5. CASE w # betReq[r].wallet
    <3>1. PendingUnits(w)' = OtherUnits(w, b)'
      BY <2>2, <2>5 DEF PendingUnits, OtherUnits, Units
    <3>2. wallet'[w] = wallet[w]
      BY <1>3, <2>5, PlaceEffect
    <3>3. QED  BY <2>3, <3>1, <3>2 DEF BeyondPending
  <2>6. QED  BY <2>4, <2>5
<1>4. ASSUME NEW r \in BetRequests, SettleCommit(r)
      PROVE  BeyondPending(w)' = BeyondPending(w)
  <2>0. PICK b \in BetIds : b = betReq[r].bet
    BY <1>4, SettleFacts
  <2>1. /\ bet[b].status = "PENDING" /\ bet[b].amount \in Nat
        /\ betReq[r].result \in Outcomes
    BY <1>4, <2>0, SettleFacts, Zenon
  <2>2. /\ \A c \in BetIds \ {b} : bet'[c] = bet[c]
        /\ bet'[b].status = betReq[r].result /\ bet'[b].wallet = bet[b].wallet
    BY <1>4, <2>0, SettleEffect
  <2>3. bet'[b].status # "PENDING"
    BY <2>1, <2>2 DEF Outcomes
  <2>4. PendingUnits(w)' = OtherUnits(w, b)' /\ OtherUnits(w, b)' = OtherUnits(w, b)
    <3>1. OtherUnits(w, b)' = OtherUnits(w, b)
      BY <1>2, <2>2
    <3>2. PendingUnits(w)' = OtherUnits(w, b)'
      BY <2>3 DEF PendingUnits, OtherUnits, Units
    <3>3. QED  BY <3>1, <3>2
  <2>5. CASE w = bet[b].wallet
    <3>1. /\ Cardinality(OtherUnits(w, b)) \in Nat
          /\ Cardinality(PendingUnits(w)) = Cardinality(OtherUnits(w, b)) + bet[b].amount
      <4>1. PendingUnits(w) = OtherUnits(w, b) \cup ({b} \X (1..bet[b].amount))
        BY <2>1, <2>5, UnitsTogether
      <4>2. /\ Cardinality(OtherUnits(w, b)) \in Nat
            /\ Cardinality(OtherUnits(w, b) \cup ({b} \X (1..bet[b].amount))) =
                 Cardinality(OtherUnits(w, b)) + bet[b].amount
        BY <2>1, UnitsSplit
      <4>3. QED  BY <4>1, <4>2
    <3>2. wallet'[w].locked = wallet[w].locked - bet[b].amount
      BY <1>4, <2>0, <2>5, SettleEffect
    <3>3. QED  BY <1>n, <2>1, <2>4, <3>1, <3>2 DEF BeyondPending
  <2>6. CASE w # bet[b].wallet
    <3>1. PendingUnits(w) = OtherUnits(w, b)
      BY <2>1, <2>6, UnitsAlone
    <3>2. wallet'[w] = wallet[w]
      BY <1>4, <2>0, <2>6, SettleEffect
    <3>3. QED  BY <2>4, <3>1, <3>2 DEF BeyondPending
  <2>7. QED  BY <2>5, <2>6
<1>5. QED
  BY <1>1, <1>3, <1>4, QuietStep, AdvanceStep, AdjustEffect, StepKinds DEF betsVars

\* They are numbers after a step, too.
LEMMA PendingNumbersNext ==
  ASSUME BetsTypeOK', NEW w \in Wallets
  PROVE  wallet'[w].locked \in Nat /\ Cardinality(PendingUnits(w)') \in Nat
<1>1. wallet'[w].locked \in Nat
  BY BigintAssumption DEF BetsTypeOK, WalletRows
<1>2. Cardinality(PendingUnits(w)') \in Nat
  <2>1. bet' \in [BetIds -> BetRows]
    BY DEF BetsTypeOK
  <2>2. PendingUnits(w)' \subseteq BetIds \X (1..BigintMax)
    <3>1. ASSUME NEW b \in BetIds PROVE 1..bet'[b].amount \subseteq 1..BigintMax
      BY <2>1, BigintAssumption DEF BetRows
    <3>2. QED  BY <3>1 DEF PendingUnits, Units
  <2>3. IsFiniteSet(BetIds \X (1..BigintMax))
    <3>1. IsFiniteSet(1..BigintMax)
      BY BigintAssumption, FS_Interval
    <3>2. QED  BY <3>1, BetAssumption, FS_Product
  <2>4. QED  BY <2>2, <2>3, FS_Subset, FS_CardinalityType
<1>3. QED  BY <1>1, <1>2

\* So if nothing is locked beyond the pending stakes, nothing ever is.
LEMMA LockedStep ==
  BetsTypeOK /\ BetsTypeOK' /\ RowsShaped /\ ClaimsPending /\ LockedMatchesPending /\ [BetsNext]_betsVars
    => LockedMatchesPending'
<1> SUFFICES ASSUME BetsTypeOK, BetsTypeOK', RowsShaped, ClaimsPending, LockedMatchesPending,
                    [BetsNext]_betsVars, NEW w \in Wallets
             PROVE  wallet'[w].locked = Cardinality(PendingUnits(w)')
  BY DEF LockedMatchesPending
<1>1. BeyondPending(w) = 0
  BY PendingNumbers DEF LockedMatchesPending, BeyondPending
<1>2. BeyondPending(w)' = 0
  BY <1>1, BeyondPendingKept
<1>3. wallet'[w].locked \in Nat /\ Cardinality(PendingUnits(w)') \in Nat
  BY PendingNumbersNext
<1>4. QED  BY <1>2, <1>3 DEF BeyondPending

-----------------------------------------------------------------------------
(***************************************************************************)
(* The ledger's chain of balances.                                         *)
(***************************************************************************)

\* Posting a row that starts from the wallet's balance and leaves the new one,
\* under an unused key, continues the chain.
LEMMA PostContinues ==
  ASSUME BetsTypeOK, LedgerContinuity, NEW w \in Wallets, NEW entry \in LedgerRows,
         Post(w, entry), ~KeyUsed(w, entry.key),
         entry.before = wallet[w].balance, wallet'[w].balance = entry.after,
         \A v \in Wallets \ {w} : wallet'[v] = wallet[v]
  PROVE  LedgerContinuity'
<1>1. ledger[w] \in Seq(LedgerRows)
  BY DEF BetsTypeOK
<1>2. /\ ledger'[w] = Append(ledger[w], entry)
      /\ \A v \in Wallets \ {w} : ledger'[v] = ledger[v]
  BY DEF BetsTypeOK, Post
<1>3. ChainFrom(ledger[w], wallet[w].balance) /\ KeysDistinct(ledger[w])
  BY DEF LedgerContinuity
<1>4. \A i \in DOMAIN ledger[w] : ledger[w][i].key # entry.key
  BY DEF KeyUsed
<1>5. ChainFrom(ledger'[w], wallet'[w].balance) /\ KeysDistinct(ledger'[w])
  BY <1>1, <1>2, <1>3, <1>4, ChainAppend
<1>6. QED  BY <1>2, <1>5 DEF LedgerContinuity

\* An empty wallet has an empty ledger.
LEMMA ContinuityInit == BetsInit => LedgerContinuity
<1> SUFFICES ASSUME BetsInit, NEW w \in Wallets
             PROVE  ChainFrom(ledger[w], wallet[w].balance) /\ KeysDistinct(ledger[w])
  BY DEF LedgerContinuity
<1>1. ledger[w] = <<>> /\ wallet[w].balance = 0
  BY DEF BetsInit, MoneyInit
<1>2. Len(ledger[w]) = 0 /\ DOMAIN ledger[w] = {}
  BY <1>1
<1>3. QED  BY <1>1, <1>2 DEF ChainFrom, KeysDistinct

\* A row of an extended sequence is the new one or one it had before.
LEMMA AppendRows ==
  ASSUME NEW S, NEW rows \in Seq(S), NEW e \in S
  PROVE  \A i \in DOMAIN Append(rows, e) :
           Append(rows, e)[i] = e \/ \E j \in DOMAIN rows : Append(rows, e)[i] = rows[j]
<1>1. /\ DOMAIN rows = 1..Len(rows) /\ Len(rows) \in Nat
      /\ DOMAIN Append(rows, e) = 1..(Len(rows) + 1)
      /\ Append(rows, e)[Len(rows) + 1] = e
      /\ \A j \in 1..Len(rows) : Append(rows, e)[j] = rows[j]
  OBVIOUS
<1>2. QED  BY <1>1

\* A capture leaves the balance as it is and a payout starts from there, each
\* under a key of its own.
LEMMA SettleContinues ==
  ASSUME BetsTypeOK, RowsShaped, ClaimsPending, LedgerContinuity,
         NEW r \in BetRequests, SettleCommit(r)
  PROVE  LedgerContinuity'
<1> DEFINE w == bet[betReq[r].bet].wallet
           before == wallet[w].balance
           pays == Pays(betReq[r].bet, betReq[r].result)
           captured == Append(ledger[w], CaptureRow(r))
           paid == Append(captured, PayoutRow(r))
<1>1. /\ w \in Wallets /\ pays \in Nat /\ before \in Nat
      /\ CaptureRow(r) \in LedgerRows /\ PayoutRow(r) \in LedgerRows
      /\ ledger' = [ledger EXCEPT ![w] = IF pays > 0 THEN paid ELSE captured]
  <2>1. w \in Wallets /\ pays \in 0..BigintMax /\ before \in 0..BigintMax
    BY SettleFacts, Zenon
  <2>2. /\ CaptureRow(r) \in LedgerRows /\ PayoutRow(r) \in LedgerRows
        /\ ledger' = [ledger EXCEPT ![w] = IF pays > 0 THEN paid ELSE captured]
    BY SettlePosts, Zenon
  <2>3. pays \in Nat /\ before \in Nat
    BY <2>1
  <2>4. QED  BY <2>1, <2>2, <2>3
<1>2. wallet'[w].balance = before + pays /\ \A v \in Wallets \ {w} : wallet'[v] = wallet[v]
  BY SettleEffect
<1>3. /\ CaptureRow(r).before = before /\ CaptureRow(r).after = before
      /\ CaptureRow(r).key = <<betReq[r].nonce, "capture">>
      /\ PayoutRow(r).before = before /\ PayoutRow(r).after = before + pays
      /\ PayoutRow(r).key = <<betReq[r].nonce, "payout">>
  BY DEF CaptureRow, PayoutRow, Entry
<1>4. /\ ~KeyUsed(w, <<betReq[r].nonce, "capture">>)
      /\ pays > 0 => ~KeyUsed(w, <<betReq[r].nonce, "payout">>)
  BY DEF SettleCommit, SettleKeysFree
<1>5. ledger[w] \in Seq(LedgerRows)
  BY <1>1 DEF BetsTypeOK
<1>6. /\ ledger'[w] = IF pays > 0 THEN paid ELSE captured
      /\ \A v \in Wallets \ {w} : ledger'[v] = ledger[v]
  BY <1>1 DEF BetsTypeOK
<1>7. /\ captured \in Seq(LedgerRows) /\ ChainFrom(captured, before)
      /\ KeysDistinct(captured)
  <2>1. ChainFrom(ledger[w], before) /\ KeysDistinct(ledger[w])
    BY <1>1 DEF LedgerContinuity
  <2>2. \A i \in DOMAIN ledger[w] : ledger[w][i].key # CaptureRow(r).key
    BY <1>3, <1>4 DEF KeyUsed
  <2>3. /\ captured \in Seq(LedgerRows) /\ ChainFrom(captured, CaptureRow(r).after)
        /\ KeysDistinct(captured)
    BY <1>1, <1>3, <1>5, <2>1, <2>2, ChainAppend
  <2>4. QED  BY <1>3, <2>3
<1>8. ASSUME pays > 0
      PROVE  ChainFrom(paid, before + pays) /\ KeysDistinct(paid)
  <2>1. \A i \in DOMAIN captured : captured[i].key # PayoutRow(r).key
    <3>1. \A i \in DOMAIN ledger[w] : ledger[w][i].key # PayoutRow(r).key
      BY <1>3, <1>4, <1>8 DEF KeyUsed
    <3>2. CaptureRow(r).key # PayoutRow(r).key
      BY <1>3
    <3>3. \A i \in DOMAIN captured :
            captured[i] = CaptureRow(r) \/ \E j \in DOMAIN ledger[w] : captured[i] = ledger[w][j]
      <4>1. \A rows \in Seq(LedgerRows), e \in LedgerRows : \A i \in DOMAIN Append(rows, e) :
              Append(rows, e)[i] = e \/ \E j \in DOMAIN rows : Append(rows, e)[i] = rows[j]
        BY AppendRows
      <4>2. QED  BY <1>1, <1>5, <4>1
    <3>4. QED  BY <3>1, <3>2, <3>3
  <2> HIDE DEF captured
  <2>2. ChainFrom(paid, PayoutRow(r).after) /\ KeysDistinct(paid)
    BY <1>1, <1>3, <1>7, <2>1, ChainAppend
  <2>3. QED  BY <1>3, <2>2
<1> HIDE DEF captured, paid
<1>9. ChainFrom(ledger'[w], before + pays) /\ KeysDistinct(ledger'[w])
  <2>1. CASE pays > 0
    BY <1>6, <1>8, <2>1
  <2>2. CASE ~(pays > 0)
    <3>1. pays = 0 /\ before + pays = before
      BY <1>1, <2>2
    <3>2. QED  BY <1>6, <1>7, <2>2, <3>1
  <2>3. QED  BY <2>1, <2>2
<1>10. QED  BY <1>2, <1>6, <1>9 DEF LedgerContinuity

\* Every posting starts from the balance of the wallet, leaves its new one, and
\* uses a key of its own.
LEMMA ContinuityStep ==
  BetsTypeOK /\ RowsShaped /\ ClaimsPending /\ LedgerContinuity /\ [BetsNext]_betsVars
    => LedgerContinuity'
<1> SUFFICES ASSUME BetsTypeOK, RowsShaped, ClaimsPending, LedgerContinuity, [BetsNext]_betsVars
             PROVE  LedgerContinuity'
  OBVIOUS
<1>1. CASE UNCHANGED <<wallet, ledger>>
  BY <1>1 DEF LedgerContinuity
<1>2. ASSUME NEW r \in BetRequests, PlaceCommit(r) PROVE LedgerContinuity'
  <2> DEFINE w == betReq[r].wallet
  <2>1. PICK b \in BetIds : Post(w, HoldRow(r, b)) /\ HoldRow(r, b) \in LedgerRows
    BY <1>2, PlaceEffect
  <2>2. /\ HoldRow(r, b).before = wallet[w].balance
        /\ HoldRow(r, b).after = wallet[w].balance - betReq[r].amount
        /\ HoldRow(r, b).key = betReq[r].key
    BY DEF HoldRow, Entry
  <2>3. /\ w \in Wallets /\ ~KeyUsed(w, betReq[r].key)
        /\ wallet'[w].balance = wallet[w].balance - betReq[r].amount
        /\ \A v \in Wallets \ {w} : wallet'[v] = wallet[v]
    BY <1>2, PlaceEffect DEF PlaceUnique
  <2>4. QED  BY <2>1, <2>2, <2>3, PostContinues
<1>3. ASSUME NEW w \in Wallets, NEW delta \in Deltas, NEW key \in Keys,
             BetsAdjust(w, delta, key)
      PROVE  LedgerContinuity'
  <2> DEFINE before == wallet[w].balance
             entry == Entry("ADJUST", IF delta > 0 THEN "CREDIT" ELSE "DEBIT",
                            IF delta > 0 THEN delta ELSE -delta,
                            before, before + delta, key, NoRef)
  <2>1. /\ Post(w, entry) /\ ~KeyUsed(w, key) /\ before + delta \in 0..BigintMax
    BY <1>3 DEF BetsAdjust, AdjustWalletBalance, Fits
  <2>2. entry.before = before /\ entry.after = before + delta /\ entry.key = key
    BY DEF Entry
  <2>3. entry \in LedgerRows
    BY <1>3, AdjustRow
  <2>4. /\ wallet'[w].balance = before + delta
        /\ \A v \in Wallets \ {w} : wallet'[v] = wallet[v]
    BY <1>3, AdjustEffect
  <2> HIDE DEF entry
  <2>5. QED  BY <2>1, <2>2, <2>3, <2>4, PostContinues
<1>4. QED
  BY <1>1, <1>2, <1>3, SettleContinues, QuietStep, AdvanceStep, StepKinds DEF betsVars

-----------------------------------------------------------------------------
(***************************************************************************)
(* Finality and answers.                                                   *)
(***************************************************************************)

\* Every step treats every bet lawfully.
LEMMA LawfulStep ==
  BetsTypeOK /\ RowsShaped /\ ClaimsPending /\ [BetsNext]_betsVars
    => \A b \in BetIds :
         /\ bet[b].status \in Outcomes => bet'[b] = bet[b]
         /\ bet[b].status = "PENDING" =>
              /\ bet'[b].status # "NONE"
              /\ <<bet'[b].amount, bet'[b].multiplier, bet'[b].wallet>> =
                   <<bet[b].amount, bet[b].multiplier, bet[b].wallet>>
         /\ bet[b].status = "NONE" => bet'[b].status \in {"NONE", "PENDING"}
<1> SUFFICES ASSUME BetsTypeOK, RowsShaped, ClaimsPending, [BetsNext]_betsVars, NEW b \in BetIds
             PROVE  /\ bet[b].status \in Outcomes => bet'[b] = bet[b]
                    /\ bet[b].status = "PENDING" =>
                         /\ bet'[b].status # "NONE"
                         /\ bet'[b].amount = bet[b].amount
                         /\ bet'[b].multiplier = bet[b].multiplier
                         /\ bet'[b].wallet = bet[b].wallet
                    /\ bet[b].status = "NONE" => bet'[b].status \in {"NONE", "PENDING"}
  OBVIOUS
<1>1. CASE UNCHANGED bet
  BY <1>1
<1>2. ASSUME NEW r \in BetRequests, PlaceCommit(r), bet'[b] # bet[b]
      PROVE  bet[b].status = "NONE" /\ bet'[b].status = "PENDING"
  <2>1. PICK c \in BetIds : /\ bet[c] = NoRow /\ bet'[c] = PlacedRow(r)
                            /\ \A d \in BetIds \ {c} : bet'[d] = bet[d]
    BY <1>2, PlaceEffect
  <2>2. b = c
    BY <1>2, <2>1
  <2>3. QED  BY <2>1, <2>2 DEF NoRow, PlacedRow
<1>3. ASSUME NEW r \in BetRequests, SettleCommit(r), bet'[b] # bet[b]
      PROVE  /\ bet[b].status = "PENDING" /\ bet'[b].status \in Outcomes
             /\ bet'[b].amount = bet[b].amount
             /\ bet'[b].multiplier = bet[b].multiplier
             /\ bet'[b].wallet = bet[b].wallet
  <2>1. b = betReq[r].bet
    BY <1>3, SettleEffect
  <2>2. QED  BY <1>3, <2>1, SettleEffect, SettleFacts
<1>4. QED
  BY <1>1, <1>2, <1>3, QuietStep, AdvanceStep, AdjustEffect, StepKinds DEF betsVars, Outcomes

\* What an answer of a call says of its bet.
AnswerRight(r) ==
  betReq[r].pc = "done" =>
    /\ betReq[r].outcome # "lockViolated"
    /\ betReq[r].outcome = "ok" =>
         LET b == betReq[r].bet
         IN /\ b \in BetIds
            /\ IF betReq[r].op = "PLACE"
               THEN /\ bet[b].wallet = betReq[r].wallet /\ bet[b].placeKey = betReq[r].key
                    /\ betReq[r].before = bet[b].placeBefore
                    /\ betReq[r].after = betReq[r].before - bet[b].amount
               ELSE /\ bet[b].status \in Outcomes /\ bet[b].nonce = betReq[r].nonce
                    /\ betReq[r].before = bet[b].settleBefore
                    /\ betReq[r].after = betReq[r].before + bet[b].payout

\* The stake of a pending bet is among the locked funds of its wallet.
PendingCovered ==
  \A b \in BetIds : bet[b].status = "PENDING" => wallet[bet[b].wallet].locked >= bet[b].amount

\* It is if the stakes of all pending bets are, together.
LEMMA StakeLocked ==
  ASSUME BetsTypeOK, RowsShaped,
         \A w \in Wallets : wallet[w].locked >= Cardinality(PendingUnits(w))
  PROVE  PendingCovered
<1> SUFFICES ASSUME NEW b \in BetIds, bet[b].status = "PENDING"
             PROVE  wallet[bet[b].wallet].locked >= bet[b].amount
  BY DEF PendingCovered
<1> DEFINE w == bet[b].wallet
<1>1. w \in Wallets /\ bet[b].amount \in Nat
  BY Numbers DEF RowsShaped
<1>2. /\ Cardinality(OtherUnits(w, b)) \in Nat
      /\ Cardinality(PendingUnits(w)) = Cardinality(OtherUnits(w, b)) + bet[b].amount
  BY <1>1, UnitsSplit, UnitsTogether
<1>3. wallet[w].locked \in Nat /\ wallet[w].locked >= Cardinality(PendingUnits(w))
  BY <1>1, PendingNumbers
<1>4. QED  BY <1>1, <1>2, <1>3

LEMMA MatchCovers == BetsTypeOK /\ RowsShaped /\ LockedMatchesPending => PendingCovered
<1> SUFFICES ASSUME BetsTypeOK, RowsShaped, LockedMatchesPending PROVE PendingCovered
  OBVIOUS
<1>1. ASSUME NEW w \in Wallets PROVE wallet[w].locked >= Cardinality(PendingUnits(w))
  BY PendingNumbers DEF LockedMatchesPending
<1>2. QED  BY <1>1, StakeLocked

\* An answered call that does not move stays right as long as its bet stays, or
\* is settled after a placement.
LEMMA AnswerKept ==
  ASSUME NEW q \in BetRequests, AnswerRight(q), betReq'[q] = betReq[q],
         betReq[q].pc = "done" /\ betReq[q].outcome = "ok" =>
           \/ bet'[betReq[q].bet] = bet[betReq[q].bet]
           \/ /\ betReq[q].op = "PLACE"
              /\ bet'[betReq[q].bet].wallet = bet[betReq[q].bet].wallet
              /\ bet'[betReq[q].bet].placeKey = bet[betReq[q].bet].placeKey
              /\ bet'[betReq[q].bet].placeBefore = bet[betReq[q].bet].placeBefore
              /\ bet'[betReq[q].bet].amount = bet[betReq[q].bet].amount
  PROVE  AnswerRight(q)'
BY DEF AnswerRight

\* A refusal for any reason but a violated lock is right.
LEMMA RefusalRight ==
  ASSUME BetsTypeOK, NEW r \in BetRequests, betReq[r].pc # "idle", NEW outcome,
         outcome \notin {"ok", "lockViolated"}, Refuse(r, outcome)
  PROVE  AnswerRight(r)'
<1>1. betReq'[r].outcome = outcome
  BY ReplyEffect DEF Refuse
<1>2. QED  BY <1>1 DEF AnswerRight

\* The answer of a repeated placement is right.
LEMMA ReplayRight ==
  ASSUME BetsTypeOK, NEW r \in BetRequests, betReq[r] \in PlaceCalls, UNCHANGED bet,
         NEW b \in PlacedWith(betReq[r].wallet, betReq[r].key), Replay(r, b)
  PROVE  AnswerRight(r)'
<1>1. betReq[r].pc # "idle" /\ betReq[r].op = "PLACE"
  BY DEF PlaceCalls
<1>2. /\ betReq'[r].bet = b /\ betReq'[r].op = "PLACE" /\ betReq'[r].outcome = "ok"
      /\ betReq'[r].wallet = betReq[r].wallet /\ betReq'[r].key = betReq[r].key
      /\ betReq'[r].before = bet[b].placeBefore
      /\ betReq'[r].after = bet[b].placeBefore - bet[b].amount
  BY <1>1, ReplyEffect DEF Replay
<1>3. b \in BetIds /\ bet[b].wallet = betReq[r].wallet /\ bet[b].placeKey = betReq[r].key
  BY DEF PlacedWith
<1>4. QED  BY <1>2, <1>3 DEF AnswerRight

\* Nothing is answered initially.
LEMMA AnswersInit == BetsInit => AnswersAgree
BY DEF BetsInit, Idle, AnswersAgree

\* A call's own step answers rightly, if it answers.
LEMMA QuietAnswer ==
  ASSUME BetsTypeOK, RowsShaped, ClaimsPending, PendingCovered,
         NEW r \in BetRequests, Quiet(r)
  PROVE  AnswerRight(r)'
<1>1. UNCHANGED bet /\ betReq' \in [BetRequests -> {Idle} \cup PlaceCalls \cup SettleCalls]
  BY QuietStep
<1>2. ASSUME betReq'[r].pc # "done" PROVE AnswerRight(r)'
  BY <1>2 DEF AnswerRight
<1>3. CASE SubmitBet(r)
  <2>1. betReq'[r].pc \in {"lookup", "lock"}
    BY <1>3 DEF SubmitBet, PlaceCall, SettleCall, BetsTypeOK
  <2>2. QED  BY <1>2, <2>1
<1>4. CASE ReturnBet(r) \/ FailBet(r)
  <2>1. betReq'[r].pc = "idle"
    BY <1>4 DEF ReturnBet, FailBet, Idle, BetsTypeOK
  <2>2. QED  BY <1>2, <2>1
<1>5. CASE PlaceLookup(r)
  <2>1. betReq[r] \in PlaceCalls
    BY <1>5, CallTypes DEF PlaceLookup, BetAt
  <2>2. CASE betReq' = [betReq EXCEPT ![r].pc = "place"]
    <3>1. betReq'[r].pc = "place"
      BY <2>1, <2>2 DEF BetsTypeOK, PlaceCalls
    <3>2. QED  BY <1>2, <3>1
  <2>3. CASE \E b \in PlacedWith(betReq[r].wallet, betReq[r].key) : Replay(r, b)
    BY <1>1, <2>1, <2>3, ReplayRight
  <2>4. QED  BY <1>5, <2>2, <2>3 DEF PlaceLookup
<1>6. CASE PlaceInsufficient(r) \/ PlaceOverflow(r)
  BY <1>6, RefusalRight DEF PlaceInsufficient, PlaceOverflow, BetAt
<1>7. CASE PlaceDuplicate(r)
  <2>1. betReq[r] \in PlaceCalls /\ betReq[r].pc # "idle"
    BY <1>7, CallTypes DEF PlaceDuplicate, BetAt
  <2>2. CASE Refuse(r, "conflict")
    BY <2>1, <2>2, RefusalRight
  <2>3. CASE \E b \in PlacedWith(betReq[r].wallet, betReq[r].key) : Replay(r, b)
    BY <1>1, <2>1, <2>3, ReplayRight
  <2>4. QED  BY <1>7, <2>2, <2>3 DEF PlaceDuplicate
<1>8. CASE PlaceRestart(r)
  <2>1. betReq[r] \in PlaceCalls /\ betReq[r].pc # "idle"
    BY <1>8, CallTypes DEF PlaceRestart, BetAt
  <2>2. betReq'[r].pc = "place" \/ Refuse(r, "txConflict")
    BY <1>8, <2>1, RestartEffect DEF PlaceRestart
  <2>3. QED  BY <1>2, <2>1, <2>2, RefusalRight
<1>9. CASE SettleRefused(r)
  BY <1>9, RefusalRight DEF SettleRefused, BetAt
<1>10. CASE SettleAgain(r)
  <2>1. betReq[r] \in SettleCalls /\ betReq[r].pc # "idle"
    BY <1>10, CallTypes DEF SettleAgain, BetAt
  <2>2. PICK b \in BetIds : b = betReq[r].bet
    BY <2>1 DEF SettleCalls
  <2>3. bet[b].status \in Outcomes
    BY <1>10, <2>2 DEF SettleAgain
  <2>4. CASE Refuse(r, "alreadySettled")
    BY <2>1, <2>4, RefusalRight
  <2>5. CASE /\ bet[b].nonce = betReq[r].nonce
             /\ ReplyBet(r, "ok", b, bet[b].settleBefore, bet[b].settleAfter)
    <3>1. betReq[r].op = "SETTLE"
      BY <2>1 DEF SettleCalls
    <3>2. /\ betReq'[r].bet = b /\ betReq'[r].op = "SETTLE" /\ betReq'[r].outcome = "ok"
          /\ betReq'[r].nonce = betReq[r].nonce
          /\ betReq'[r].before = bet[b].settleBefore
          /\ betReq'[r].after = bet[b].settleAfter
      BY <2>1, <2>5, <3>1, ReplyEffect
    <3>3. bet[b].settleAfter = bet[b].settleBefore + bet[b].payout
      BY <2>3 DEF RowsShaped
    <3>4. QED  BY <1>1, <2>3, <2>5, <3>2, <3>3 DEF AnswerRight
  <2>6. QED  BY <1>10, <2>2, <2>4, <2>5 DEF SettleAgain
<1>11. CASE SettleAbort(r)
  <2>1. betReq[r] \in SettleCalls /\ betReq[r].pc = "wallet"
    BY <1>11, CallTypes DEF SettleAbort, BetAt
  <2>2. PICK b \in BetIds : b = betReq[r].bet
    BY <2>1 DEF SettleCalls
  <2>3. bet[b].status = "PENDING" /\ bet[b] \in BetRows /\ bet[b].wallet \in Wallets
    BY <2>1, <2>2 DEF ClaimsPending, Settling, BetsTypeOK, RowsShaped
  <2>4. /\ wallet[bet[b].wallet].locked \in Nat /\ bet[b].amount \in Nat
        /\ wallet[bet[b].wallet].locked >= bet[b].amount
    <3>1. wallet[bet[b].wallet].locked \in 0..BigintMax /\ bet[b].amount \in 0..BigintMax
      BY <2>3 DEF BetsTypeOK, WalletRows, BetRows
    <3>2. QED  BY <2>3, <3>1, Numbers DEF PendingCovered
  <2>5. ~(wallet[bet[b].wallet].locked < bet[b].amount)
    BY <2>4
  <2>6. Refuse(r, "replayDetected") \/ Refuse(r, "outOfRange")
    BY <1>11, <2>2, <2>5 DEF SettleAbort
  <2>7. QED  BY <2>1, <2>6, RefusalRight
<1>12. CASE SettleRestart(r)
  <2>1. betReq[r] \in SettleCalls /\ betReq[r].pc # "idle"
    BY <1>12, CallTypes DEF SettleRestart
  <2>2. betReq'[r].pc = "lock" \/ Refuse(r, "txConflict")
    BY <1>12, <2>1, RestartEffect DEF SettleRestart
  <2>3. QED  BY <1>2, <2>1, <2>2, RefusalRight
<1>13. QED
  BY <1>3, <1>4, <1>5, <1>6, <1>7, <1>8, <1>9, <1>10, <1>11, <1>12 DEF Quiet

\* No step makes an answer wrong: the bets answers speak of are placed, and a
\* settled one never changes.
LEMMA AnswersStep ==
  BetsTypeOK /\ RowsShaped /\ ClaimsPending /\ PendingCovered /\ AnswersAgree /\ [BetsNext]_betsVars
    => AnswersAgree'
<1> SUFFICES ASSUME BetsTypeOK, RowsShaped, ClaimsPending, PendingCovered, AnswersAgree,
                    [BetsNext]_betsVars, NEW q \in BetRequests
             PROVE  AnswerRight(q)'
  BY DEF AnswersAgree, AnswerRight
<1>1. AnswerRight(q)
  BY DEF AnswersAgree, AnswerRight
<1>2. CASE UNCHANGED <<bet, betReq>>
  BY <1>1, <1>2, AnswerKept
<1>3. ASSUME NEW r \in BetRequests, Quiet(r) PROVE AnswerRight(q)'
  <2>1. CASE q = r
    BY <1>3, <2>1, QuietAnswer
  <2>2. CASE q # r
    <3>1. UNCHANGED bet /\ betReq'[q] = betReq[q]
      BY <1>3, <2>2, QuietStep
    <3>2. QED  BY <1>1, <3>1, AnswerKept
  <2>3. QED  BY <2>1, <2>2
<1>4. ASSUME NEW r \in BetRequests, Advance(r) PROVE AnswerRight(q)'
  <2>1. UNCHANGED bet /\ \A p \in BetRequests \ {r} : betReq'[p] = betReq[p]
    BY <1>4, AdvanceStep
  <2>2. CASE q # r
    BY <1>1, <2>1, <2>2, AnswerKept
  <2>3. CASE q = r /\ betReq'[r].pc # "done"
    BY <2>3 DEF AnswerRight
  <2>4. CASE q = r /\ betReq'[r].pc = "done"
    <3>1. betReq[r].pc # "idle" /\ Refuse(r, "replayDetected")
      BY <1>4, <2>4, AdvanceStep DEF Advance, SettleLock, SettleResult, BetAt
    <3>2. QED  BY <2>4, <3>1, RefusalRight
  <2>5. QED  BY <2>2, <2>3, <2>4
<1>5. ASSUME NEW r \in BetRequests, PlaceCommit(r) PROVE AnswerRight(q)'
  <2>1. PICK b \in BetIds :
          /\ bet[b] = NoRow /\ bet'[b] = PlacedRow(r)
          /\ \A c \in BetIds \ {b} : bet'[c] = bet[c]
          /\ ReplyBet(r, "ok", b, wallet[betReq[r].wallet].balance,
                   wallet[betReq[r].wallet].balance - betReq[r].amount)
    BY <1>5, PlaceEffect
  <2>2. betReq[r] \in PlaceCalls /\ betReq[r].pc # "idle" /\ betReq[r].op = "PLACE"
    BY <1>5, PlaceEffect DEF PlaceCommit, BetAt, PlaceCalls
  <2>3. CASE q = r
    <3>1. /\ betReq'[r].bet = b /\ betReq'[r].op = "PLACE" /\ betReq'[r].outcome = "ok"
          /\ betReq'[r].wallet = betReq[r].wallet /\ betReq'[r].key = betReq[r].key
          /\ betReq'[r].before = wallet[betReq[r].wallet].balance
          /\ betReq'[r].after = wallet[betReq[r].wallet].balance - betReq[r].amount
      BY <2>1, <2>2, ReplyEffect
    <3>2. QED  BY <2>1, <2>3, <3>1 DEF AnswerRight, PlacedRow
  <2>4. CASE q # r
    <3>1. betReq'[q] = betReq[q]
      BY <2>1, <2>2, <2>4, ReplyEffect
    <3>2. ASSUME betReq[q].pc = "done", betReq[q].outcome = "ok"
          PROVE  bet'[betReq[q].bet] = bet[betReq[q].bet]
      <4>1. betReq[q] \in PlaceCalls \cup SettleCalls /\ betReq[q].bet \in BetIds
        BY <1>1, <3>2, CallTypes DEF AnswerRight
      <4>2. betReq[q].bet # b
        <5>1. CASE betReq[q].op = "PLACE"
          <6>1. betReq[q].wallet \in Wallets /\ bet[betReq[q].bet].wallet = betReq[q].wallet
            BY <1>1, <3>2, <4>1, <5>1 DEF AnswerRight, PlaceCalls, SettleCalls
          <6>2. bet[b].wallet \notin Wallets
            BY <2>1, BetAssumption, StakeAssumption DEF NoRow
          <6>3. QED  BY <6>1, <6>2
        <5>2. CASE betReq[q].op # "PLACE"
          <6>1. bet[betReq[q].bet].status \in Outcomes
            BY <1>1, <3>2, <5>2 DEF AnswerRight
          <6>2. bet[b].status \notin Outcomes
            BY <2>1 DEF NoRow, Outcomes
          <6>3. QED  BY <6>1, <6>2
        <5>3. QED  BY <5>1, <5>2
      <4>3. QED  BY <2>1, <4>1, <4>2
    <3>3. QED  BY <1>1, <3>1, <3>2, AnswerKept
  <2>5. QED  BY <2>3, <2>4
<1>6. ASSUME NEW r \in BetRequests, SettleCommit(r) PROVE AnswerRight(q)'
  <2>1. PICK b \in BetIds : b = betReq[r].bet
    BY <1>6, SettleFacts
  <2>2. /\ bet[b].status = "PENDING" /\ betReq[r].result \in Outcomes
        /\ betReq[r] \in SettleCalls
    BY <1>6, <2>1, SettleFacts
  <2>3. /\ bet'[b].status = betReq[r].result /\ bet'[b].nonce = betReq[r].nonce
        /\ bet'[b].payout = Pays(b, betReq[r].result)
        /\ bet'[b].settleBefore = wallet[bet[b].wallet].balance
        /\ bet'[b].wallet = bet[b].wallet /\ bet'[b].amount = bet[b].amount
        /\ bet'[b].placeKey = bet[b].placeKey
        /\ bet'[b].placeBefore = bet[b].placeBefore
        /\ \A c \in BetIds \ {b} : bet'[c] = bet[c]
        /\ ReplyBet(r, "ok", b, wallet[bet[b].wallet].balance,
                 wallet[bet[b].wallet].balance + Pays(b, betReq[r].result))
    BY <1>6, <2>1, SettleEffect
  <2>4. betReq[r].pc # "idle" /\ betReq[r].op = "SETTLE"
    BY <2>2 DEF SettleCalls
  <2>5. CASE q = r
    <3>1. /\ betReq'[r].bet = b /\ betReq'[r].op = "SETTLE" /\ betReq'[r].outcome = "ok"
          /\ betReq'[r].nonce = betReq[r].nonce
          /\ betReq'[r].before = wallet[bet[b].wallet].balance
          /\ betReq'[r].after = wallet[bet[b].wallet].balance + Pays(b, betReq[r].result)
      BY <2>3, <2>4, ReplyEffect
    <3>2. QED  BY <2>2, <2>3, <2>5, <3>1 DEF AnswerRight
  <2>6. CASE q # r
    <3>1. betReq'[q] = betReq[q]
      BY <2>3, <2>4, <2>6, ReplyEffect
    <3>2. CASE betReq[q].bet = b
      <4>1. ASSUME betReq[q].pc = "done", betReq[q].outcome = "ok" PROVE betReq[q].op = "PLACE"
        BY <1>1, <2>2, <3>2, <4>1 DEF AnswerRight, Outcomes
      <4>2. QED  BY <1>1, <2>3, <3>1, <3>2, <4>1, AnswerKept
    <3>3. CASE betReq[q].bet # b
      <4>1. ASSUME betReq[q].pc = "done", betReq[q].outcome = "ok"
            PROVE  betReq[q].bet \in BetIds
        BY <1>1, <4>1 DEF AnswerRight
      <4>2. QED  BY <1>1, <2>3, <3>1, <3>3, <4>1, AnswerKept
    <3>4. QED  BY <3>2, <3>3
  <2>7. QED  BY <2>5, <2>6
<1>7. QED
  BY <1>2, <1>3, <1>4, <1>5, <1>6, AdjustEffect, StepKinds DEF betsVars

-----------------------------------------------------------------------------
(***************************************************************************)
(* One hold, one capture and one payout.                                   *)
(***************************************************************************)

BetReasons == {"BET_HOLD", "BET_CAPTURE", "BET_PAYOUT"}

PostedRows(rows, b, reason) ==
  {i \in DOMAIN rows : rows[i].ref = b /\ rows[i].reason = reason}

NonePosted(rows, b, reason) == PostedRows(rows, b, reason) = {}

OnePosted(rows, b, reason, amount) ==
  \E i \in DOMAIN rows : PostedRows(rows, b, reason) = {i} /\ rows[i].amount = amount

\* The postings about a bet are in its wallet's ledger alone: its hold, and once
\* it is settled its capture and what it pays.
PostedRight(b) ==
  LET rows == ledger[bet[b].wallet]
      pays == Pays(b, bet[b].status)
  IN /\ \A w \in Wallets : bet[b].wallet # w =>
          \A reason \in BetReasons : NonePosted(ledger[w], b, reason)
     /\ bet[b].status # "NONE" => OnePosted(rows, b, "BET_HOLD", bet[b].amount)
     /\ bet[b].status = "PENDING" => /\ NonePosted(rows, b, "BET_CAPTURE")
                                     /\ NonePosted(rows, b, "BET_PAYOUT")
     /\ bet[b].status \in Outcomes =>
          /\ OnePosted(rows, b, "BET_CAPTURE", bet[b].amount)
          /\ pays > 0 => OnePosted(rows, b, "BET_PAYOUT", pays)
          /\ ~(pays > 0) => NonePosted(rows, b, "BET_PAYOUT")

PostingsRight == \A b \in BetIds : PostedRight(b)

\* A row about another bet or for another reason leaves the postings about a bet
\* as they are, the first of its kind becomes the one there is.
LEMMA PostedAppend ==
  ASSUME NEW S, NEW rows \in Seq(S), NEW e \in S, NEW b, NEW reason
  PROVE  /\ ~(e.ref = b /\ e.reason = reason) =>
              /\ NonePosted(rows, b, reason) => NonePosted(Append(rows, e), b, reason)
              /\ \A amount : OnePosted(rows, b, reason, amount) =>
                               OnePosted(Append(rows, e), b, reason, amount)
         /\ e.ref = b /\ e.reason = reason /\ NonePosted(rows, b, reason) =>
              OnePosted(Append(rows, e), b, reason, e.amount)
<1> DEFINE new == Append(rows, e)
           last == Len(rows) + 1
<1>1. /\ DOMAIN rows = 1..Len(rows) /\ DOMAIN new = 1..last /\ Len(rows) \in Nat
      /\ new[last] = e /\ \A i \in 1..Len(rows) : new[i] = rows[i]
  OBVIOUS
<1> HIDE DEF new
<1>2. DOMAIN new = DOMAIN rows \cup {last} /\ last \notin DOMAIN rows
  BY <1>1
<1> HIDE DEF last
<1>3. PostedRows(new, b, reason) =
        PostedRows(rows, b, reason) \cup
          (IF e.ref = b /\ e.reason = reason THEN {last} ELSE {})
  BY <1>1, <1>2 DEF PostedRows
<1>4. CASE ~(e.ref = b /\ e.reason = reason)
  <2>1. PostedRows(new, b, reason) = PostedRows(rows, b, reason)
    BY <1>3, <1>4
  <2>2. QED  BY <1>1, <1>2, <1>4, <2>1 DEF NonePosted, OnePosted, new
<1>5. CASE e.ref = b /\ e.reason = reason
  <2>1. ASSUME NonePosted(rows, b, reason)
        PROVE  PostedRows(new, b, reason) = {last}
    BY <1>3, <1>5, <2>1 DEF NonePosted
  <2>2. QED  BY <1>1, <1>2, <1>5, <2>1 DEF OnePosted, new
<1>6. QED  BY <1>4, <1>5

\* A bet that does not change keeps its postings right when every wallet's
\* ledger keeps what it says of the bet.
LEMMA PostingsKept ==
  ASSUME BetsTypeOK, RowsShaped, NEW b \in BetIds, PostedRight(b), bet'[b] = bet[b],
         \A w \in Wallets, reason \in BetReasons :
           /\ NonePosted(ledger[w], b, reason) => NonePosted(ledger'[w], b, reason)
           /\ \A amount : OnePosted(ledger[w], b, reason, amount) =>
                            OnePosted(ledger'[w], b, reason, amount)
  PROVE  PostedRight(b)'
<1>1. \A result : Pays(b, result)' = Pays(b, result)
  BY PaysKept
<1>2. bet[b].status # "NONE" => bet[b].wallet \in Wallets
  BY DEF RowsShaped
<1>3. bet[b].status \in Outcomes => bet[b].status # "NONE"
  BY DEF Outcomes
<1>4. QED  BY <1>1, <1>2, <1>3 DEF PostedRight, BetReasons

\* A posting about another bet, or about none, keeps a bet's postings right.
LEMMA OtherPosting ==
  ASSUME BetsTypeOK, RowsShaped, NEW b \in BetIds, PostedRight(b), bet'[b] = bet[b],
         NEW w \in Wallets, NEW e \in LedgerRows, Post(w, e),
         e.ref # b \/ e.reason \notin BetReasons
  PROVE  PostedRight(b)'
<1>1. ledger[w] \in Seq(LedgerRows)
  BY DEF BetsTypeOK
<1>2. /\ ledger'[w] = Append(ledger[w], e)
      /\ \A v \in Wallets \ {w} : ledger'[v] = ledger[v]
  BY DEF BetsTypeOK, Post
<1>3. \A reason \in BetReasons :
        /\ NonePosted(ledger[w], b, reason) => NonePosted(Append(ledger[w], e), b, reason)
        /\ \A amount : OnePosted(ledger[w], b, reason, amount) =>
                         OnePosted(Append(ledger[w], e), b, reason, amount)
  BY <1>1, PostedAppend
<1>4. \A v \in Wallets, reason \in BetReasons :
        /\ NonePosted(ledger[v], b, reason) => NonePosted(ledger'[v], b, reason)
        /\ \A amount : OnePosted(ledger[v], b, reason, amount) =>
                         OnePosted(ledger'[v], b, reason, amount)
  BY <1>2, <1>3
<1>5. QED  BY <1>4, PostingsKept

\* A placement posts the hold of its bet, which nothing was posted about.
LEMMA PlacePostings ==
  ASSUME BetsTypeOK, RowsShaped, PostingsRight, NEW r \in BetRequests, PlaceCommit(r)
  PROVE  PostingsRight'
<1> DEFINE w == betReq[r].wallet
<1>1. PICK b \in BetIds :
        /\ bet[b] = NoRow /\ bet'[b] = PlacedRow(r)
        /\ \A c \in BetIds \ {b} : bet'[c] = bet[c]
        /\ Post(w, HoldRow(r, b)) /\ HoldRow(r, b) \in LedgerRows
  BY PlaceEffect
<1>2. w \in Wallets
  BY PlaceEffect
<1>3. /\ HoldRow(r, b).ref = b /\ HoldRow(r, b).reason = "BET_HOLD"
      /\ HoldRow(r, b).amount = betReq[r].amount
  BY DEF HoldRow, Entry
<1>4. ASSUME NEW c \in BetIds, c # b PROVE PostedRight(c)'
  <2>1. PostedRight(c) /\ bet'[c] = bet[c]
    BY <1>1, <1>4 DEF PostingsRight
  <2> HIDE DEF w
  <2>2. QED  BY <1>1, <1>2, <1>3, <1>4, <2>1, OtherPosting
<1>5. PostedRight(b)'
  <2>1. \A v \in Wallets, reason \in BetReasons : NonePosted(ledger[v], b, reason)
    <3>1. \A v \in Wallets : bet[b].wallet # v
      BY <1>1, BetAssumption, StakeAssumption DEF NoRow
    <3>2. QED  BY <3>1 DEF PostingsRight, PostedRight
  <2>2. /\ ledger'[w] = Append(ledger[w], HoldRow(r, b)) /\ ledger[w] \in Seq(LedgerRows)
        /\ \A v \in Wallets \ {w} : ledger'[v] = ledger[v]
    BY <1>1, <1>2 DEF BetsTypeOK, Post
  <2>3. /\ OnePosted(ledger'[w], b, "BET_HOLD", betReq[r].amount)
        /\ NonePosted(ledger'[w], b, "BET_CAPTURE")
        /\ NonePosted(ledger'[w], b, "BET_PAYOUT")
    BY <1>1, <1>2, <1>3, <2>1, <2>2, PostedAppend DEF BetReasons
  <2>4. /\ bet'[b].status = "PENDING" /\ bet'[b].wallet = w
        /\ bet'[b].amount = betReq[r].amount
    BY <1>1 DEF PlacedRow
  <2> HIDE DEF w
  <2>5. QED  BY <1>2, <2>1, <2>2, <2>3, <2>4 DEF PostedRight, Outcomes
<1>6. QED  BY <1>4, <1>5 DEF PostingsRight

\* A settlement posts the capture of its bet, and its payout if it pays.
LEMMA SettlePostings ==
  ASSUME BetsTypeOK, RowsShaped, ClaimsPending, PostingsRight, NEW r \in BetRequests,
         SettleCommit(r)
  PROVE  PostingsRight'
<1>1. PICK b \in BetIds : b = betReq[r].bet
  BY SettleFacts
<1>2. PICK w \in Wallets : w = bet[b].wallet
  BY <1>1, SettleFacts
<1>3. PICK pays \in Nat : pays = Pays(b, betReq[r].result)
  BY <1>1, SettleFacts, PaysNat
<1> DEFINE captured == Append(ledger[w], CaptureRow(r))
           paid == Append(captured, PayoutRow(r))
<1>4. /\ CaptureRow(r) \in LedgerRows /\ PayoutRow(r) \in LedgerRows
      /\ ledger' = [ledger EXCEPT ![w] = IF pays > 0 THEN paid ELSE captured]
  BY <1>1, <1>2, <1>3, SettlePosts
<1>5. /\ bet[b].status = "PENDING" /\ betReq[r].result \in Outcomes
      /\ bet'[b].status = betReq[r].result /\ bet'[b].wallet = w
      /\ bet'[b].amount = bet[b].amount /\ bet'[b].multiplier = bet[b].multiplier
      /\ \A c \in BetIds \ {b} : bet'[c] = bet[c]
  BY <1>1, <1>2, SettleFacts, SettleEffect
<1>6. /\ CaptureRow(r).ref = b /\ CaptureRow(r).reason = "BET_CAPTURE"
      /\ CaptureRow(r).amount = bet[b].amount
      /\ PayoutRow(r).ref = b /\ PayoutRow(r).reason = "BET_PAYOUT"
      /\ PayoutRow(r).amount = pays
  BY <1>1, <1>3 DEF CaptureRow, PayoutRow, Entry
<1>7. /\ ledger[w] \in Seq(LedgerRows) /\ captured \in Seq(LedgerRows)
      /\ ledger'[w] = (IF pays > 0 THEN paid ELSE captured)
      /\ \A v \in Wallets \ {w} : ledger'[v] = ledger[v]
  <2>1. ledger[w] \in Seq(LedgerRows)
    BY DEF BetsTypeOK
  <2>2. captured \in Seq(LedgerRows)
    BY <1>4, <2>1
  <2> HIDE DEF captured, paid
  <2>3. QED  BY <1>4, <2>1, <2>2 DEF BetsTypeOK
<1>8. ASSUME NEW c, NEW reason
      PROVE  /\ ~(c = b /\ reason = "BET_CAPTURE") =>
                  /\ NonePosted(ledger[w], c, reason) => NonePosted(captured, c, reason)
                  /\ \A amount : OnePosted(ledger[w], c, reason, amount) =>
                                   OnePosted(captured, c, reason, amount)
             /\ c = b /\ reason = "BET_CAPTURE" /\ NonePosted(ledger[w], c, reason) =>
                  OnePosted(captured, c, reason, bet[b].amount)
  BY <1>4, <1>6, <1>7, PostedAppend
<1> HIDE DEF captured
<1>9. ASSUME NEW c, NEW reason
      PROVE  /\ ~(c = b /\ reason = "BET_PAYOUT") =>
                  /\ NonePosted(captured, c, reason) => NonePosted(paid, c, reason)
                  /\ \A amount : OnePosted(captured, c, reason, amount) =>
                                   OnePosted(paid, c, reason, amount)
             /\ c = b /\ reason = "BET_PAYOUT" /\ NonePosted(captured, c, reason) =>
                  OnePosted(paid, c, reason, pays)
  BY <1>4, <1>6, <1>7, PostedAppend
<1> HIDE DEF paid
<1>10. ASSUME NEW c \in BetIds, c # b PROVE PostedRight(c)'
  <2>1. PostedRight(c) /\ bet'[c] = bet[c]
    BY <1>5, <1>10 DEF PostingsRight
  <2>2. \A reason \in BetReasons :
          /\ NonePosted(ledger[w], c, reason) => NonePosted(ledger'[w], c, reason)
          /\ \A amount : OnePosted(ledger[w], c, reason, amount) =>
                           OnePosted(ledger'[w], c, reason, amount)
    BY <1>7, <1>8, <1>9, <1>10
  <2>3. \A v \in Wallets, reason \in BetReasons :
          /\ NonePosted(ledger[v], c, reason) => NonePosted(ledger'[v], c, reason)
          /\ \A amount : OnePosted(ledger[v], c, reason, amount) =>
                           OnePosted(ledger'[v], c, reason, amount)
    BY <1>7, <2>2
  <2>4. QED  BY <2>1, <2>3, PostingsKept
<1>11. PostedRight(b)'
  <2>1. PostedRight(b)
    BY DEF PostingsRight
  <2>2. /\ OnePosted(ledger[w], b, "BET_HOLD", bet[b].amount)
        /\ NonePosted(ledger[w], b, "BET_CAPTURE")
        /\ NonePosted(ledger[w], b, "BET_PAYOUT")
        /\ \A v \in Wallets \ {w} : \A reason \in BetReasons : NonePosted(ledger[v], b, reason)
    BY <1>2, <1>5, <2>1 DEF PostedRight
  <2>3. /\ OnePosted(ledger'[w], b, "BET_HOLD", bet[b].amount)
        /\ OnePosted(ledger'[w], b, "BET_CAPTURE", bet[b].amount)
        /\ pays > 0 => OnePosted(ledger'[w], b, "BET_PAYOUT", pays)
        /\ ~(pays > 0) => NonePosted(ledger'[w], b, "BET_PAYOUT")
    BY <1>7, <1>8, <1>9, <2>2
  <2>4. Pays(b, bet[b].status)' = pays
    BY <1>3, <1>5, PaysKept DEF Pays
  <2>5. QED  BY <1>5, <1>7, <2>2, <2>3, <2>4 DEF PostedRight, Outcomes
<1>12. QED  BY <1>10, <1>11 DEF PostingsRight

\* Every step leaves the right postings about every bet.
LEMMA PostingsStep ==
  BetsTypeOK /\ RowsShaped /\ ClaimsPending /\ PostingsRight /\ [BetsNext]_betsVars => PostingsRight'
<1> SUFFICES ASSUME BetsTypeOK, RowsShaped, ClaimsPending, PostingsRight, [BetsNext]_betsVars
             PROVE  PostingsRight'
  OBVIOUS
<1>1. CASE UNCHANGED <<ledger, bet>>
  BY <1>1 DEF PostingsRight, PostedRight, Pays
<1>2. ASSUME NEW w \in Wallets, NEW delta \in Deltas, NEW key \in Keys,
             BetsAdjust(w, delta, key)
      PROVE  PostingsRight'
  <2> DEFINE before == wallet[w].balance
             entry == Entry("ADJUST", IF delta > 0 THEN "CREDIT" ELSE "DEBIT",
                            IF delta > 0 THEN delta ELSE -delta,
                            before, before + delta, key, NoRef)
  <2>1. Post(w, entry) /\ UNCHANGED bet /\ entry.reason = "ADJUST"
    BY <1>2 DEF BetsAdjust, AdjustWalletBalance, Entry
  <2>2. entry \in LedgerRows
    BY <1>2, AdjustRow
  <2> HIDE DEF entry
  <2>3. ASSUME NEW b \in BetIds PROVE PostedRight(b)'
    BY <2>1, <2>2, OtherPosting DEF PostingsRight, BetReasons
  <2>4. QED  BY <2>3 DEF PostingsRight
<1>3. QED
  BY <1>1, <1>2, PlacePostings, SettlePostings, QuietStep, AdvanceStep, StepKinds DEF betsVars

\* Nothing is posted initially.
LEMMA PostingsInit == BetsInit => PostingsRight
<1> SUFFICES ASSUME BetsInit, NEW b \in BetIds PROVE PostedRight(b)
  BY DEF PostingsRight
<1>1. bet[b].status = "NONE" /\ \A w \in Wallets : DOMAIN ledger[w] = {}
  BY DEF BetsInit, MoneyInit, NoRow
<1>2. QED  BY <1>1 DEF PostedRight, NonePosted, PostedRows, Outcomes

\* The postings of the invariant are those of the property.
LEMMA PostingsCounted == BetsTypeOK /\ RowsShaped /\ PostingsRight => SettledOnce
<1> SUFFICES ASSUME BetsTypeOK, RowsShaped, PostingsRight, NEW b \in BetIds,
                    bet[b].status # "NONE"
             PROVE  LET rows == ledger[bet[b].wallet]
                        settled == bet[b].status \in Outcomes
                        pays == IF settled THEN Pays(b, bet[b].status) ELSE 0
                        Sums(reason, n, amount) ==
                          /\ Cardinality(PostedRows(rows, b, reason)) = n
                          /\ \A i \in PostedRows(rows, b, reason) : rows[i].amount = amount
                    IN  /\ Sums("BET_HOLD", 1, bet[b].amount)
                        /\ Sums("BET_CAPTURE", IF settled THEN 1 ELSE 0, bet[b].amount)
                        /\ Sums("BET_PAYOUT", IF pays > 0 THEN 1 ELSE 0, pays)
                        /\ bet[b].payout = pays
  BY DEF SettledOnce, PostedRows
<1> DEFINE rows == ledger[bet[b].wallet]
<1>1. ASSUME NEW reason, NEW amount, OnePosted(rows, b, reason, amount)
      PROVE  /\ Cardinality(PostedRows(rows, b, reason)) = 1
             /\ \A i \in PostedRows(rows, b, reason) : rows[i].amount = amount
  BY <1>1, FS_Singleton DEF OnePosted
<1>2. ASSUME NEW reason, NonePosted(rows, b, reason)
      PROVE  /\ Cardinality(PostedRows(rows, b, reason)) = 0
             /\ PostedRows(rows, b, reason) = {}
  BY <1>2, FS_EmptySet DEF NonePosted
<1>3. PostedRight(b)
  BY DEF PostingsRight
<1>4. CASE bet[b].status = "PENDING"
  <2>1. bet[b].status \notin Outcomes /\ bet[b].payout = 0
    BY <1>4 DEF Outcomes, RowsShaped
  <2>2. /\ OnePosted(rows, b, "BET_HOLD", bet[b].amount)
        /\ NonePosted(rows, b, "BET_CAPTURE") /\ NonePosted(rows, b, "BET_PAYOUT")
    BY <1>3, <1>4 DEF PostedRight
  <2>3. QED  BY <1>1, <1>2, <2>1, <2>2
<1>5. CASE bet[b].status \in Outcomes
  <2>1. bet[b].payout = Pays(b, bet[b].status)
    BY <1>5 DEF RowsShaped
  <2>2. /\ OnePosted(rows, b, "BET_HOLD", bet[b].amount)
        /\ OnePosted(rows, b, "BET_CAPTURE", bet[b].amount)
        /\ Pays(b, bet[b].status) > 0 =>
             OnePosted(rows, b, "BET_PAYOUT", Pays(b, bet[b].status))
        /\ ~(Pays(b, bet[b].status) > 0) => NonePosted(rows, b, "BET_PAYOUT")
    BY <1>3, <1>5 DEF PostedRight
  <2>3. QED  BY <1>1, <1>2, <1>5, <2>1, <2>2
<1>6. QED  BY <1>4, <1>5 DEF BetsTypeOK, BetRows

-----------------------------------------------------------------------------
(***************************************************************************)
(* The theorems.                                                           *)
(***************************************************************************)

\* The inductive invariant: the answers are right because the rows they report
\* are final, the locked funds cover every stake because claims are exclusive.
BetsInv == /\ BetsTypeOK /\ RowsShaped /\ ClaimsPending
        /\ LockedMatchesPending /\ LedgerContinuity
        /\ PlacedOnce /\ ResultIffSettled /\ PostingsRight
        /\ AnswersAgree

\* Every step of placeBet, settleBet and adjustWalletBalance, with any number of
\* concurrent calls, keeps the inductive invariant.
THEOREM BetsInvariance == BetsSpec => []BetsInv
<1>1. BetsInit => BetsInv
  BY BetsTypeInit, ShapeInit, LockedInit, ContinuityInit, OnceInit, PostingsInit, AnswersInit
     DEF BetsInv
<1>2. BetsInv /\ [BetsNext]_betsVars => BetsInv'
  BY BetsTypeStep, ShapeStep, ClaimsStep, LockedStep, ContinuityStep, PlacedStep, ResultStep,
     PostingsStep, AnswersStep, MatchCovers DEF BetsInv
<1>3. QED  BY <1>1, <1>2, PTL DEF BetsSpec

\* No interleaving of placements, settlements, restarts and adjustments loses or
\* doubles money: columns stay in range, locked funds are the pending stakes, and
\* each ledger is a chain that ends in the balance.
THEOREM MoneyAlwaysAddsUp == BetsSpec => []MoneyAddsUp
<1>1. BetsInv => MoneyAddsUp
  BY DEF BetsInv, MoneyAddsUp
<1>2. QED  BY <1>1, BetsInvariance, PTL

\* A place key makes one bet, a bet takes one result, posts one hold, one capture
\* and at most one payout, and no decision nonce settles two bets.
THEOREM BetsAlwaysSettleOnce == BetsSpec => []BetsSettleOnce
<1>1. BetsInv => BetsSettleOnce
  BY PostingsCounted DEF BetsInv, BetsSettleOnce
<1>2. QED  BY <1>1, BetsInvariance, PTL

\* Repeated placements and settlements answer what the first one did, and no
\* settlement ever finds its stake missing from the locked funds.
THEOREM AnswersAlwaysAgree == BetsSpec => []AnswersAgree
<1>1. BetsInv => AnswersAgree
  BY DEF BetsInv
<1>2. QED  BY <1>1, BetsInvariance, PTL

\* A settled bet never changes, and a placed one keeps its owner, stake and
\* multiplier until a settlement, and nothing else, finalizes it.
THEOREM SettledStaysFinal == BetsSpec => SettledIsFinal
<1> DEFINE KeptOnceSettled ==
      \A b \in BetIds :
        LET old == bet[b]
            new == bet'[b]
        IN /\ old.status \in Outcomes => new = old
           /\ old.status = "PENDING" =>
                /\ new.status # "NONE"
                /\ <<new.amount, new.multiplier, new.wallet>> =
                     <<old.amount, old.multiplier, old.wallet>>
           /\ old.status = "NONE" => new.status \in {"NONE", "PENDING"}
<1>1. BetsInv /\ [BetsNext]_betsVars => [KeptOnceSettled]_betsVars
  BY LawfulStep DEF BetsInv
<1>2. QED  BY <1>1, BetsInvariance, PTL DEF BetsSpec, SettledIsFinal

-----------------------------------------------------------------------------
(***************************************************************************)
(* The refinement.                                                         *)
(***************************************************************************)

\* A placement moves a stake aside under the terms its caller asked for.
LEMMA PlaceMove ==
  ASSUME BetsTypeOK, NEW r \in BetRequests, PlaceCommit(r)
  PROVE  Placed!Next
<1> DEFINE w == betReq[r].wallet
           amount == betReq[r].amount
           m == betReq[r].multiplier
<1>1. /\ w \in Wallets /\ amount \in Amounts /\ m \in Multipliers
      /\ amount \in Int /\ wallet[w].balance \in Int /\ amount <= wallet[w].balance
      /\ wallet'[w].balance = wallet[w].balance - amount
      /\ wallet'[w].locked = wallet[w].locked + amount
      /\ \A v \in Wallets \ {w} : wallet'[v] = wallet[v]
  <2>1. wallet[w] \in WalletRows /\ amount \in 0..BigintMax
    BY PlaceEffect DEF BetsTypeOK
  <2>2. amount \in Int /\ wallet[w].balance \in Int
    BY <2>1, BigintAssumption DEF WalletRows
  <2>3. QED  BY <2>2, PlaceEffect DEF PlaceCalls
<1>2. PICK b \in BetIds : /\ bet[b] = NoRow
                          /\ bet'[b] = PlacedRow(r)
                          /\ \A c \in BetIds \ {b} : bet'[c] = bet[c]
  BY PlaceEffect
<1>3. /\ bet'[b].status = "PENDING" /\ bet'[b].wallet = w
      /\ bet'[b].amount = amount /\ bet'[b].multiplier = m
  BY <1>2 DEF PlacedRow
<1> HIDE DEF w, amount, m
<1>4. PlacedRows[b] = Placed!NotPlaced
  BY <1>2 DEF PlacedRows, NoRow, Placed!NotPlaced
<1>5. PlayerFunds[w].available >= amount
  BY <1>1 DEF PlayerFunds
<1>6. PlayerFunds' = [PlayerFunds EXCEPT ![w] = [available |-> @.available - amount,
                                                 locked    |-> @.locked + amount]]
  BY <1>1 DEF PlayerFunds
<1>7. PlacedRows' = [PlacedRows EXCEPT ![b] = [status |-> "PENDING", account |-> w,
                                               stake |-> amount, multiplier |-> m]]
  BY <1>2, <1>3 DEF PlacedRows
<1>8. Placed!Place(w, b)
  BY <1>1, <1>4, <1>5, <1>6, <1>7 DEF Placed!Place
<1>9. QED  BY <1>1, <1>8 DEF Placed!Next

\* A settlement spends the stake, and pays a winner the prize of its terms.
LEMMA SettleMove ==
  ASSUME BetsTypeOK, RowsShaped, ClaimsPending, NEW r \in BetRequests, SettleCommit(r)
  PROVE  Placed!Next
<1>1. PICK b \in BetIds : b = betReq[r].bet
  BY SettleFacts
<1> DEFINE w == bet[b].wallet
           amount == bet[b].amount
           m == bet[b].multiplier
           pays == Pays(b, betReq[r].result)
           prize == FlooredPrize[PlacedRows[b].stake][PlacedRows[b].multiplier]
<1>2. /\ w \in Wallets /\ betReq[r].result \in Outcomes /\ bet[b].status = "PENDING"
      /\ wallet'[w].balance = wallet[w].balance + pays
      /\ wallet'[w].locked = wallet[w].locked - amount
      /\ \A v \in Wallets \ {w} : wallet'[v] = wallet[v]
      /\ wallet[w].balance \in Nat
  BY <1>1, SettleFacts, SettleEffect, Zenon
<1>3. /\ bet'[b].status = betReq[r].result /\ bet'[b].wallet = w
      /\ bet'[b].amount = amount /\ bet'[b].multiplier = m
      /\ \A c \in BetIds \ {b} : bet'[c] = bet[c]
  BY <1>1, SettleEffect, Zenon
<1>4. amount \in Amounts /\ m \in Multipliers
  BY <1>2 DEF RowsShaped
<1>5. prize = (amount * m) \div Scale
  <2>1. PlacedRows[b].stake = amount /\ PlacedRows[b].multiplier = m
    BY DEF PlacedRows
  <2>2. FlooredPrize[amount][m] = (amount * m) \div Scale
    BY <1>4 DEF FlooredPrize
  <2>3. QED  BY <2>1, <2>2
<1>6. PlacedRows[b].status = "PENDING" /\ PlacedRows[b].account = w /\ PlacedRows[b].stake = amount
  BY <1>2 DEF PlacedRows
<1>7. PlacedRows[b] = [status |-> "PENDING", account |-> w, stake |-> amount, multiplier |-> m]
  BY <1>2 DEF PlacedRows
<1>8. PlacedRows' = [PlacedRows EXCEPT ![b].status = betReq[r].result]
  <2>1. PlacedRows'[b] = [status |-> betReq[r].result, account |-> w, stake |-> amount,
                          multiplier |-> m]
    BY <1>3 DEF PlacedRows
  <2>2. [PlacedRows[b] EXCEPT !.status = betReq[r].result] = PlacedRows'[b]
    BY <1>7, <2>1
  <2>3. \A c \in BetIds \ {b} : PlacedRows'[c] = PlacedRows[c]
    BY <1>3 DEF PlacedRows
  <2>4. PlacedRows' = [PlacedRows EXCEPT ![b] = PlacedRows'[b]]
    BY <2>3 DEF PlacedRows
  <2>5. QED  BY <2>2, <2>4
<1>9. pays = IF betReq[r].result = "WON" THEN prize ELSE 0
  BY <1>5 DEF Pays
<1> HIDE DEF pays, prize
<1>10. CASE betReq[r].result = "WON"
  <2>1. PlayerFunds' = [PlayerFunds EXCEPT ![w] = [available |-> @.available + prize,
                                                   locked    |-> @.locked - amount]]
    BY <1>2, <1>9, <1>10 DEF PlayerFunds
  <2>2. Placed!Win(w, b)
    BY <1>6, <1>8, <1>10, <2>1, Zenon DEF Placed!Win, prize
  <2>3. QED  BY <1>2, <2>2 DEF Placed!Next
<1>11. CASE betReq[r].result = "LOST"
  <2>1. wallet'[w].balance = wallet[w].balance
    BY <1>2, <1>9, <1>11
  <2>2. PlayerFunds' = [PlayerFunds EXCEPT ![w].locked = @ - amount]
    BY <1>2, <2>1 DEF PlayerFunds
  <2>3. Placed!Lose(w, b)
    BY <1>6, <1>8, <1>11, <2>2, Zenon DEF Placed!Lose
  <2>4. QED  BY <1>2, <2>3 DEF Placed!Next
<1>12. QED  BY <1>2, <1>10, <1>11 DEF Outcomes

\* A commit of a placement is a Place, one of a settlement a Win or a Lose, an
\* adjustment an Adjust; every other step is invisible.
LEMMA BetsRefine ==
  BetsTypeOK /\ RowsShaped /\ ClaimsPending /\ [BetsNext]_betsVars
    => [Placed!Next]_(Placed!vars)
<1> SUFFICES ASSUME BetsTypeOK, RowsShaped, ClaimsPending, [BetsNext]_betsVars
             PROVE  Placed!Next \/ UNCHANGED Placed!vars
  OBVIOUS
<1>1. CASE UNCHANGED <<wallet, bet>>
  BY <1>1 DEF Placed!vars, PlayerFunds, PlacedRows
<1>2. ASSUME NEW w \in Wallets, NEW delta \in Deltas, NEW key \in Keys,
             BetsAdjust(w, delta, key)
      PROVE  Placed!Next
  <2> DEFINE after == wallet[w].balance + delta
  <2>1. wallet[w] \in WalletRows /\ after \in 0..BigintMax /\ after # wallet[w].balance
    BY <1>2, StakeAssumption, BigintAssumption
       DEF BetsAdjust, AdjustWalletBalance, Fits, BetsTypeOK, WalletRows
  <2>2. /\ \A v \in Wallets : wallet'[v].locked = wallet[v].locked
        /\ \A v \in Wallets \ {w} : wallet'[v] = wallet[v]
        /\ wallet'[w].balance = after /\ UNCHANGED bet
    BY <1>2, AdjustEffect
  <2> HIDE DEF after
  <2>3. PlayerFunds' = [PlayerFunds EXCEPT ![w].available = after]
    BY <2>2 DEF PlayerFunds
  <2>4. PlacedRows' = PlacedRows
    BY <2>2 DEF PlacedRows
  <2>5. after # PlayerFunds[w].available
    BY <2>1 DEF PlayerFunds
  <2>6. Placed!Adjust(w)
    BY <2>1, <2>3, <2>4, <2>5, Zenon DEF Placed!Adjust
  <2>7. QED  BY <2>6 DEF Placed!Next
<1>3. ASSUME NEW r \in BetRequests, Quiet(r) \/ Advance(r) PROVE UNCHANGED <<wallet, bet>>
  BY <1>3, QuietStep, AdvanceStep
<1>4. UNCHANGED betsVars => UNCHANGED <<wallet, bet>>
  BY DEF betsVars
<1>5. QED
  BY <1>1, <1>2, <1>3, <1>4, PlaceMove, SettleMove, StepKinds, Zenon

\* The bets module, with its retried transactions, repeated calls, failures and
\* ledger, implements PlacedBets.
THEOREM BetsImplementation == BetsSpec => ImplementsPlacedBets
<1>1. BetsInit => Placed!Init
  <2> SUFFICES ASSUME BetsInit PROVE Placed!Init
    OBVIOUS
  <2>1. PlayerFunds = [w \in Wallets |-> [available |-> 0, locked |-> 0]]
    BY DEF BetsInit, MoneyInit, PlayerFunds
  <2>2. PlacedRows = [b \in BetIds |-> [status |-> "NONE", account |-> NoWallet,
                                        stake |-> 0, multiplier |-> 0]]
    BY DEF BetsInit, NoRow, PlacedRows
  <2>3. QED  BY <2>1, <2>2 DEF Placed!Init, Placed!NotPlaced
<1>2. BetsInv /\ [BetsNext]_betsVars => [Placed!Next]_(Placed!vars)
  BY BetsRefine DEF BetsInv
<1>3. QED
  BY <1>1, <1>2, BetsInvariance, PTL DEF BetsSpec, ImplementsPlacedBets, Placed!Spec

-----------------------------------------------------------------------------
(***************************************************************************)
(* PART 2: the bets module and the reservation service.                    *)
(***************************************************************************)

-----------------------------------------------------------------------------
(***************************************************************************)
(* What a step of either client posts.                                     *)
(***************************************************************************)

\* A row that says what it does to the balance: a capture, which debits the
\* locked funds, leaves it, any other row adds or takes its amount.
Exact(row) ==
  /\ row.amount > 0
  /\ row.reason = "BET_CAPTURE" => row.direction = "DEBIT" /\ row.after = row.before
  /\ row.reason # "BET_CAPTURE" => row.after = row.before + Delta(row)

\* What a row does to the locked funds.
Locks(row) ==
  IF row.reason = "BET_HOLD" THEN row.amount
  ELSE IF row.reason \in {"BET_RELEASE", "BET_CAPTURE"} THEN -row.amount ELSE 0

\* One row is posted, and the wallet's locked funds follow it.
PostsExactly(w, e) ==
  /\ Post(w, e) /\ Exact(e)
  /\ wallet'[w].locked = wallet[w].locked + Locks(e)
  /\ \A v \in Wallets \ {w} : wallet'[v] = wallet[v]

\* Every reservation holds, or held, a stake a caller asked for.
StakesHeld == \A s \in Slots : reservation[s].status # "NONE" => reservation[s].amount \in Amounts

LEMMA StakesHeldStep ==
  ASSUME HoldsTypeOK, ClaimsHeld, StakesAsked, StakesHeld, [HoldsNext]_holdsVars
  PROVE  StakesHeld'
<1> SUFFICES ASSUME NEW s \in Slots, reservation'[s].status # "NONE"
             PROVE  reservation'[s].amount \in Amounts
  BY DEF StakesHeld
<1>1. CASE UNCHANGED reservation
  BY <1>1 DEF StakesHeld
<1>2. ASSUME NEW r \in HoldRequests, HoldCommit(r) PROVE reservation'[s].amount \in Amounts
  <2>1. holdReq[r].amount \in Amounts
    BY <1>2 DEF StakesAsked, HoldCommit, HoldAt
  <2>2. Slot(r) \in Slots
    BY <1>2, ActiveCall DEF HoldCommit, HoldAt
  <2>3. \/ s # Slot(r) /\ reservation'[s] = reservation[s]
        \/ reservation'[s].amount = holdReq[r].amount
    BY <1>2, <2>2 DEF HoldCommit, HoldsTypeOK
  <2>4. QED  BY <2>1, <2>3 DEF StakesHeld
<1>3. ASSUME NEW r \in HoldRequests, ReleaseCommit(r) \/ CaptureCommit(r)
      PROVE  reservation'[s].amount \in Amounts
  <2>1. holdReq[r].pc = "wallet" /\ Finalized(r)
    BY <1>3 DEF ReleaseCommit, CaptureCommit, HoldAt
  <2>2. Slot(r) \in Slots /\ reservation[Slot(r)].status = "HELD"
    BY <2>1, ActiveCall DEF ClaimsHeld
  <2>3. /\ reservation'[s].amount = reservation[s].amount
        /\ s # Slot(r) => reservation'[s] = reservation[s]
    BY <2>1, <2>2 DEF Finalized, HoldsTypeOK, ReservationRows
  <2>4. reservation[s].status # "NONE"
    BY <2>2, <2>3
  <2>5. QED  BY <2>3, <2>4 DEF StakesHeld
<1>4. QED
  BY <1>1, <1>2, <1>3
     DEF HoldsNext, ServeHold, holdsVars, SubmitHold, ReturnHold, FailHold, HoldLookup, HoldRefused, HoldConflict, HoldReread, FinalizeLookup, FinalizeClaim,
         FinalizeLate, FinalizeAbort, HoldsAdjust

\* An adjustment posts its row.
LEMMA AdjustPosts ==
  ASSUME wallet \in [Wallets -> WalletRows], NEW w \in Wallets, NEW delta \in Deltas,
         NEW key \in Keys, AdjustWalletBalance(w, delta, key)
  PROVE  \E e \in LedgerRows : PostsExactly(w, e) /\ e.reason = "ADJUST" /\ e.ref = NoRef
<1> DEFINE before == wallet[w].balance
           after == before + delta
           size == IF delta > 0 THEN delta ELSE -delta
           e == Entry("ADJUST", IF delta > 0 THEN "CREDIT" ELSE "DEBIT", size,
                      before, after, key, NoRef)
<1>1. before \in 0..BigintMax /\ after \in 0..BigintMax /\ delta \in Int /\ delta # 0
  BY StakeAssumption DEF WalletRows, AdjustWalletBalance, Fits
<1>2. size \in 0..BigintMax /\ size > 0
  BY <1>1, BigintAssumption
<1>3. /\ e \in LedgerRows /\ e.reason = "ADJUST" /\ e.ref = NoRef /\ e.amount = size
      /\ e.before = before /\ e.after = after
      /\ e.direction = IF delta > 0 THEN "CREDIT" ELSE "DEBIT"
  BY <1>1, <1>2, StakeAssumption DEF Entry, LedgerRows, Reasons
<1>4. Post(w, e) /\ wallet' = [wallet EXCEPT ![w].balance = after]
  BY DEF AdjustWalletBalance
<1>5. wallet'[w].locked = wallet[w].locked /\ \A v \in Wallets \ {w} : wallet'[v] = wallet[v]
  BY <1>4 DEF WalletRows
<1>6. wallet[w].locked \in Int
  BY BigintAssumption DEF WalletRows
<1> HIDE DEF e
<1>7. Exact(e)
  BY <1>1, <1>2, <1>3 DEF Exact, Delta
<1>8. Locks(e) = 0
  BY <1>3 DEF Locks
<1>9. QED  BY <1>3, <1>4, <1>5, <1>6, <1>7, <1>8 DEF PostsExactly

\* A step of the reservation service leaves the money, or posts one row, about a
\* stake of its own or about none.
LEMMA HoldPosts ==
  ASSUME HoldsTypeOK, ClaimsHeld, StakesAsked, StakesHeld, [HoldsNext]_holdsVars
  PROVE  \/ UNCHANGED <<wallet, ledger>>
         \/ \E w \in Wallets : \E e \in LedgerRows :
              PostsExactly(w, e) /\ (e.ref \in Refs \/ (e.reason = "ADJUST" /\ e.ref = NoRef))
<1> USE BigintAssumption
<1> DEFINE Posts == \E w \in Wallets : \E e \in LedgerRows :
                      PostsExactly(w, e) /\ (e.ref \in Refs \/ (e.reason = "ADJUST" /\ e.ref = NoRef))
<1>1. ASSUME NEW r \in HoldRequests, HoldCommit(r) PROVE Posts
  <2> DEFINE w == holdReq[r].wallet
             amount == holdReq[r].amount
             before == wallet[w].balance
             e == Entry("BET_HOLD", "DEBIT", amount, before, before - amount,
                        holdReq[r].key, holdReq[r].bet)
  <2>1. holdReq[r] \in Calls /\ amount \in Amounts
    BY <1>1, ActiveCall DEF HoldCommit, HoldAt, StakesAsked
  <2>2. /\ w \in Wallets /\ holdReq[r].bet \in Refs /\ holdReq[r].key \in Keys
        /\ amount \in 1..BigintMax
    BY <2>1, StakeAssumption DEF Calls
  <2>3. wallet[w] \in WalletRows
    BY <2>2 DEF HoldsTypeOK
  <2>4. before - amount \in 0..BigintMax /\ before \in 0..BigintMax /\ wallet[w].locked \in Int
    BY <1>1, <2>2, <2>3 DEF HoldCommit, DebitBalanceInTx, CanDebit, WalletRows
  <2>5. /\ e \in LedgerRows /\ e.reason = "BET_HOLD" /\ e.direction = "DEBIT"
        /\ e.amount = amount /\ e.before = before /\ e.after = before - amount
        /\ e.ref \in Refs
    BY <2>2, <2>4, StakeAssumption, RequestAssumption DEF Entry, LedgerRows, Reasons
  <2>6. /\ wallet'[w].locked = wallet[w].locked + amount
        /\ \A v \in Wallets \ {w} : wallet'[v] = wallet[v]
    BY <1>1, <2>2 DEF HoldCommit, DebitBalanceInTx, HoldsTypeOK
  <2>7. Post(w, e)
    BY <1>1 DEF HoldCommit
  <2> HIDE DEF e
  <2>8. Exact(e) /\ Locks(e) = amount
    BY <2>2, <2>4, <2>5 DEF Exact, Delta, Locks
  <2> HIDE DEF w, amount
  <2>9. QED  BY <2>2, <2>5, <2>6, <2>7, <2>8 DEF PostsExactly
<1>2. ASSUME NEW r \in HoldRequests, ReleaseCommit(r) \/ CaptureCommit(r) PROVE Posts
  <2> DEFINE w == holdReq[r].wallet
             amount == holdReq[r].amount
             balance == wallet[w].balance
  <2>1. holdReq[r].pc = "wallet" /\ holdReq[r].op \in Finalizers
    BY <1>2 DEF ReleaseCommit, CaptureCommit, HoldAt, Finalizers
  <2>2. holdReq[r] \in Calls /\ Slot(r) \in Slots
    BY <2>1, ActiveCall
  <2>3. amount \in Amounts
    BY <2>1, <2>2 DEF ClaimsHeld, StakesHeld
  <2>4. /\ w \in Wallets /\ holdReq[r].bet \in Refs /\ holdReq[r].key \in Keys
        /\ amount \in 1..BigintMax
    BY <2>2, <2>3, StakeAssumption DEF Calls
  <2>5. balance \in 0..BigintMax /\ wallet[w].locked \in Int
    BY <2>4 DEF HoldsTypeOK, WalletRows
  <2>6. CASE ReleaseCommit(r)
    <3> DEFINE after == balance + amount
               e == Entry("BET_RELEASE", "CREDIT", amount, after - amount, after,
                          holdReq[r].key, holdReq[r].bet)
    <3>1. after \in 0..BigintMax /\ after - amount = balance
      BY <2>4, <2>5, <2>6 DEF ReleaseCommit, Fits
    <3>2. /\ e \in LedgerRows /\ e.reason = "BET_RELEASE" /\ e.direction = "CREDIT"
          /\ e.amount = amount /\ e.before = balance /\ e.after = balance + amount
          /\ e.ref \in Refs
      BY <2>4, <2>5, <3>1, StakeAssumption, RequestAssumption DEF Entry, LedgerRows, Reasons
    <3>3. /\ wallet'[w].locked = wallet[w].locked - amount
          /\ \A v \in Wallets \ {w} : wallet'[v] = wallet[v]
      BY <2>4, <2>6 DEF ReleaseCommit, HoldsTypeOK, WalletRows
    <3>4. Post(w, e)
      BY <2>6 DEF ReleaseCommit
    <3> HIDE DEF e
    <3>5. Exact(e) /\ Locks(e) = -amount
      BY <2>4, <2>5, <3>2 DEF Exact, Delta, Locks
    <3>6. wallet'[w].locked = wallet[w].locked + Locks(e)
      BY <2>4, <2>5, <3>3, <3>5
    <3> HIDE DEF w, amount
    <3>7. QED  BY <2>4, <3>2, <3>3, <3>4, <3>5, <3>6 DEF PostsExactly
  <2>7. CASE CaptureCommit(r)
    <3> DEFINE e == Entry("BET_CAPTURE", "DEBIT", amount, balance, balance,
                          holdReq[r].key, holdReq[r].bet)
    <3>2. /\ e \in LedgerRows /\ e.reason = "BET_CAPTURE" /\ e.direction = "DEBIT"
          /\ e.amount = amount /\ e.before = balance /\ e.after = balance
          /\ e.ref \in Refs
      BY <2>4, <2>5, StakeAssumption, RequestAssumption DEF Entry, LedgerRows, Reasons
    <3>3. /\ wallet'[w].locked = wallet[w].locked - amount
          /\ \A v \in Wallets \ {w} : wallet'[v] = wallet[v]
      BY <2>4, <2>7 DEF CaptureCommit, HoldsTypeOK, WalletRows
    <3>4. Post(w, e)
      BY <2>7 DEF CaptureCommit
    <3> HIDE DEF e
    <3>5. Exact(e) /\ Locks(e) = -amount
      BY <2>4, <2>5, <3>2 DEF Exact, Delta, Locks
    <3>6. wallet'[w].locked = wallet[w].locked + Locks(e)
      BY <2>4, <2>5, <3>3, <3>5
    <3> HIDE DEF w, amount
    <3>7. QED  BY <2>4, <3>2, <3>3, <3>4, <3>5, <3>6 DEF PostsExactly
  <2>8. QED  BY <1>2, <2>6, <2>7
<1>3. ASSUME NEW w \in Wallets, NEW delta \in Deltas, NEW key \in Keys,
             HoldsAdjust(w, delta, key)
      PROVE  Posts
  BY <1>3, AdjustPosts DEF HoldsAdjust, HoldsTypeOK
<1>4. CASE UNCHANGED <<wallet, ledger>>
  BY <1>4
<1>5. QED
  BY <1>1, <1>2, <1>3, <1>4
     DEF HoldsNext, ServeHold, holdsVars, SubmitHold, ReturnHold, FailHold, HoldLookup, HoldRefused, HoldConflict, HoldReread, FinalizeLookup, FinalizeClaim,
         FinalizeLate, FinalizeAbort

\* Two rows are posted, one after the other.
PostsTwo(w, e, f) ==
  /\ ledger' = [ledger EXCEPT ![w] = Append(Append(@, e), f)]
  /\ Exact(e) /\ Exact(f)
  /\ wallet'[w].locked = wallet[w].locked + Locks(e) + Locks(f)
  /\ \A v \in Wallets \ {w} : wallet'[v] = wallet[v]

\* A step of the bets module leaves the money, or posts one or two rows about a bet,
\* or one about nothing.
LEMMA BetPosts ==
  ASSUME BetsTypeOK, RowsShaped, ClaimsPending, [BetsNext]_betsVars
  PROVE  \/ UNCHANGED <<wallet, ledger>>
         \/ \E w \in Wallets : \E e \in LedgerRows :
              PostsExactly(w, e) /\ (e.ref \in BetIds \/ (e.reason = "ADJUST" /\ e.ref = NoRef))
         \/ \E w \in Wallets : \E e, f \in LedgerRows :
              PostsTwo(w, e, f) /\ e.ref \in BetIds /\ f.ref \in BetIds
<1> USE BigintAssumption
<1> DEFINE Posts == \E w \in Wallets : \E e \in LedgerRows :
                      PostsExactly(w, e) /\ (e.ref \in BetIds \/ (e.reason = "ADJUST" /\ e.ref = NoRef))
           Posts2 == \E w \in Wallets : \E e, f \in LedgerRows :
                       PostsTwo(w, e, f) /\ e.ref \in BetIds /\ f.ref \in BetIds
<1>1. ASSUME NEW r \in BetRequests, PlaceCommit(r) PROVE Posts
  <2> DEFINE w == betReq[r].wallet
             amount == betReq[r].amount
  <2>1. /\ w \in Wallets /\ amount \in Amounts
        /\ wallet'[w].locked = wallet[w].locked + amount
        /\ \A v \in Wallets \ {w} : wallet'[v] = wallet[v]
    BY <1>1, PlaceEffect
  <2>2. PICK b \in BetIds : Post(w, HoldRow(r, b)) /\ HoldRow(r, b) \in LedgerRows
    BY <1>1, PlaceEffect
  <2> DEFINE e == HoldRow(r, b)
  <2>3. /\ e.reason = "BET_HOLD" /\ e.direction = "DEBIT" /\ e.amount = amount
        /\ e.before = wallet[w].balance /\ e.after = wallet[w].balance - amount /\ e.ref = b
    BY DEF HoldRow, Entry
  <2>4. amount \in Nat /\ amount > 0
    <3>1. amount \in 1..BigintMax
      BY <2>1, StakeAssumption, Zenon
    <3>2. QED  BY <3>1
  <2>5. wallet[w].balance \in Nat
    BY <2>1 DEF BetsTypeOK, WalletRows
  <2> HIDE DEF e
  <2>6. Exact(e) /\ Locks(e) = amount
    BY <2>3, <2>4, <2>5 DEF Exact, Delta, Locks
  <2>7. Post(w, e) /\ e \in LedgerRows
    BY <2>2 DEF e
  <2> HIDE DEF w, amount
  <2>8. QED  BY <2>1, <2>3, <2>6, <2>7 DEF PostsExactly
<1>2. ASSUME NEW r \in BetRequests, SettleCommit(r) PROVE Posts \/ Posts2
  <2> DEFINE b == betReq[r].bet
             w == bet[b].wallet
             amount == bet[b].amount
             pays == Pays(b, betReq[r].result)
             before == wallet[w].balance
             e == CaptureRow(r)
             f == PayoutRow(r)
  <2>1. /\ b \in BetIds /\ w \in Wallets /\ wallet[w] \in WalletRows
        /\ amount \in 1..BigintMax /\ before \in 0..BigintMax /\ pays \in 0..BigintMax
    BY <1>2, SettleFacts, Zenon
  <2>2. /\ wallet'[w].locked = wallet[w].locked - amount
        /\ \A v \in Wallets \ {w} : wallet'[v] = wallet[v]
    BY <1>2, SettleEffect, Zenon
  <2>3. /\ e \in LedgerRows /\ f \in LedgerRows
        /\ ledger' = [ledger EXCEPT ![w] =
                        IF pays > 0 THEN Append(Append(ledger[w], e), f) ELSE Append(ledger[w], e)]
    BY <1>2, SettlePosts, Zenon
  <2>4. /\ e.reason = "BET_CAPTURE" /\ e.direction = "DEBIT" /\ e.amount = amount
        /\ e.before = before /\ e.after = before /\ e.ref = b
        /\ f.reason = "BET_PAYOUT" /\ f.direction = "CREDIT" /\ f.amount = pays
        /\ f.before = before /\ f.after = before + pays /\ f.ref = b
    BY DEF CaptureRow, PayoutRow, Entry
  <2>5. wallet[w].locked \in Int
    BY <2>1 DEF WalletRows
  <2> HIDE DEF e, f, pays, before, amount, w, b
  <2>6. Exact(e) /\ Locks(e) = -amount /\ Locks(f) = 0
    BY <2>1, <2>4 DEF Exact, Delta, Locks
  <2>7. CASE pays > 0
    <3>1. Exact(f)
      BY <2>1, <2>4, <2>7 DEF Exact, Delta
    <3>2. ledger' = [ledger EXCEPT ![w] = Append(Append(@, e), f)]
      BY <2>1, <2>3, <2>7
    <3>3. wallet'[w].locked = wallet[w].locked + Locks(e) + Locks(f)
      BY <2>1, <2>2, <2>5, <2>6
    <3>4. PostsTwo(w, e, f) /\ e.ref \in BetIds /\ f.ref \in BetIds
      BY <2>1, <2>2, <2>4, <2>6, <3>1, <3>2, <3>3 DEF PostsTwo
    <3>5. QED  BY <2>1, <2>3, <3>4
  <2>8. CASE ~(pays > 0)
    <3>1. Post(w, e)
      BY <2>1, <2>3, <2>8 DEF Post
    <3>2. wallet'[w].locked = wallet[w].locked + Locks(e)
      BY <2>1, <2>2, <2>5, <2>6
    <3>3. PostsExactly(w, e) /\ e.ref \in BetIds
      BY <2>1, <2>2, <2>4, <2>6, <3>1, <3>2 DEF PostsExactly
    <3>4. QED  BY <2>1, <2>3, <3>3
  <2>9. QED  BY <2>7, <2>8
<1>3. ASSUME NEW w \in Wallets, NEW delta \in Deltas, NEW key \in Keys,
             BetsAdjust(w, delta, key)
      PROVE  Posts
  BY <1>3, AdjustPosts DEF BetsAdjust, BetsTypeOK
<1>4. CASE UNCHANGED <<wallet, ledger>>
  BY <1>4
<1>5. QED
  <2>1. ASSUME NEW r \in BetRequests, Quiet(r) \/ Advance(r) PROVE UNCHANGED <<wallet, ledger>>
    BY <2>1, QuietStep, AdvanceStep
  <2>2. UNCHANGED betsVars => UNCHANGED <<wallet, ledger>>
    BY DEF betsVars
  <2> HIDE DEF Posts, Posts2
  <2>3. ASSUME NEW r \in BetRequests, Quiet(r) \/ Advance(r) \/ PlaceCommit(r) \/ SettleCommit(r)
        PROVE  UNCHANGED <<wallet, ledger>> \/ Posts \/ Posts2
    BY <1>1, <1>2, <2>1, <2>3, Zenon
  <2>5. UNCHANGED <<wallet, ledger>> \/ Posts \/ Posts2
    BY <1>3, <2>2, <2>3, StepKinds, Zenon
  <2>6. QED  BY <2>5 DEF Posts, Posts2

-----------------------------------------------------------------------------
(***************************************************************************)
(* The two clients together.                                               *)
(***************************************************************************)

\* What the reservation service keeps of its own, ...
HoldsPart ==
  /\ HoldsTypeOK /\ ClaimsHeld /\ StakesAsked /\ StakesHeld
  /\ PostedOnce /\ FinalizeAnswersTrue

\* ... what the bets module does, ...
BetsPart ==
  /\ BetsTypeOK /\ RowsShaped /\ ClaimsPending
  /\ PlacedOnce /\ ResultIffSettled /\ PostingsRight /\ AnswersAgree

\* ... and what they keep together.
WalletsInv == HoldsPart /\ BetsPart /\ LockedMatchesStakes /\ LedgerContinuity

\* The locked funds cover the stakes of each client.
LEMMA EachCovered == WalletsInv => HeldCovered /\ PendingCovered
<1> SUFFICES ASSUME WalletsInv PROVE HeldCovered /\ PendingCovered
  OBVIOUS
<1>1. ASSUME NEW w \in Wallets
      PROVE  /\ wallet[w].locked >= Cardinality(HeldUnits(w))
             /\ wallet[w].locked >= Cardinality(PendingUnits(w))
  BY HeldNumbers, PendingNumbers DEF WalletsInv, HoldsPart, BetsPart, LockedMatchesStakes
<1>2. QED  BY <1>1, LockCoversHeld, StakeLocked DEF WalletsInv, HoldsPart, BetsPart

\* The bets module sees nothing of a step of the reservation service but a posting
\* that is about none of its bets.
LEMMA BetsLeftAlone ==
  ASSUME WalletsInv, [HoldsNext]_holdsVars, UNCHANGED betTables
  PROVE  BetsPart'
<1> USE DEF WalletsInv, HoldsPart, BetsPart
<1>1. UNCHANGED <<bet, gameResult, betReq>>
  BY DEF betTables
<1>2. HoldsTypeOK'
  BY HoldsTypeStep
<1>3. BetsTypeOK'
  BY <1>1, <1>2 DEF BetsTypeOK, HoldsTypeOK
<1>4. RowsShaped' /\ PlacedOnce' /\ ResultIffSettled'
  BY <1>1 DEF RowsShaped, Pays, PlacedOnce, ResultIffSettled
<1>5. ClaimsPending'
  BY <1>1 DEF ClaimsPending, Settling, Verified, BetAt, NonceTaken
<1>6. AnswersAgree'
  BY <1>1 DEF AnswersAgree
<1>7. PostingsRight'
  <2>1. CASE UNCHANGED <<wallet, ledger>>
    BY <1>1, <2>1 DEF PostingsRight, PostedRight, Pays
  <2>2. ASSUME NEW w \in Wallets, NEW e \in LedgerRows, PostsExactly(w, e),
               e.ref \in Refs \/ e.reason = "ADJUST"
        PROVE  PostingsRight'
    <3>1. ASSUME NEW b \in BetIds PROVE e.ref # b \/ e.reason \notin BetReasons
      BY <2>2, OwnReferences DEF BetReasons
    <3>2. ASSUME NEW b \in BetIds PROVE PostedRight(b)'
      BY <1>1, <2>2, <3>1, OtherPosting DEF PostingsRight, PostsExactly
    <3>3. QED  BY <3>2 DEF PostingsRight
  <2>3. QED  BY <2>1, <2>2, HoldPosts
<1>8. QED  BY <1>3, <1>4, <1>5, <1>6, <1>7

\* Nor does the reservation service see more of a step of the bets module.
LEMMA HoldsLeftAlone ==
  ASSUME WalletsInv, [BetsNext]_betsVars, UNCHANGED holdTables
  PROVE  HoldsPart'
<1> USE DEF WalletsInv, HoldsPart, BetsPart
<1>1. UNCHANGED <<reservation, rowLock, holdReq>>
  BY DEF holdTables
<1>2. BetsTypeOK'
  BY BetsTypeStep
<1>3. HoldsTypeOK'
  BY <1>1, <1>2 DEF BetsTypeOK, HoldsTypeOK
<1>4. ClaimsHeld' /\ StakesAsked' /\ StakesHeld' /\ FinalizeAnswersTrue'
  BY <1>1 DEF ClaimsHeld, StakesAsked, StakesHeld, FinalizeAnswersTrue, Slot
<1>5. PostedOnce'
  <2>1. CASE UNCHANGED <<wallet, ledger>>
    BY <1>1, <2>1 DEF PostedOnce
  <2>2. ASSUME NEW w \in Wallets, NEW e \in LedgerRows, PostsExactly(w, e),
               e.ref \in BetIds \/ e.ref = NoRef
        PROVE  PostedOnce'
    <3> SUFFICES ASSUME NEW v \in Wallets, NEW b \in Refs
                 PROVE  Told(reservation[<<v, b>>]', ledger'[v], b)
      BY PostedMeansTold DEF PostedOnce, Told
    <3>1. e.ref # b
      BY <2>2, OwnReferences, RequestAssumption, StakeAssumption
    <3>2. Told(reservation[<<v, b>>], ledger[v], b) /\ ledger[v] \in Seq(LedgerRows)
      BY PostedMeansTold DEF BetsTypeOK
    <3>3. ledger'[v] = IF v = w THEN Append(ledger[v], e) ELSE ledger[v]
      BY <2>2 DEF PostsExactly, Post, BetsTypeOK
    <3>4. QED  BY <1>1, <3>1, <3>2, <3>3, ToldElsewhere
  <2>3. ASSUME NEW w \in Wallets, NEW e \in LedgerRows, NEW f \in LedgerRows,
               PostsTwo(w, e, f), e.ref \in BetIds, f.ref \in BetIds
        PROVE  PostedOnce'
    <3> SUFFICES ASSUME NEW v \in Wallets, NEW b \in Refs
                 PROVE  Told(reservation[<<v, b>>]', ledger'[v], b)
      BY PostedMeansTold DEF PostedOnce, Told
    <3>1. e.ref # b /\ f.ref # b
      BY <2>3, OwnReferences
    <3>2. Told(reservation[<<v, b>>], ledger[v], b) /\ ledger[v] \in Seq(LedgerRows)
      BY PostedMeansTold DEF BetsTypeOK
    <3>3. ledger'[v] = IF v = w THEN Append(Append(ledger[v], e), f) ELSE ledger[v]
      BY <2>3 DEF PostsTwo, BetsTypeOK
    <3>4. Append(ledger[v], e) \in Seq(LedgerRows)
      BY <3>2
    <3>5. Told(reservation[<<v, b>>], Append(ledger[v], e), b)
      BY <3>1, <3>2, ToldElsewhere
    <3>6. Told(reservation[<<v, b>>], Append(Append(ledger[v], e), f), b)
      BY <3>1, <3>4, <3>5, ToldElsewhere
    <3>7. QED  BY <1>1, <3>2, <3>3, <3>6
  <2>4. QED  BY <2>1, <2>2, <2>3, BetPosts
<1>6. QED  BY <1>3, <1>4, <1>5

\* A step of one client keeps what the two keep together.
LEMMA HoldsKeepBoth ==
  ASSUME WalletsInv, [HoldsNext]_holdsVars, UNCHANGED betTables
  PROVE  WalletsInv'
<1> USE DEF WalletsInv, HoldsPart
<1>1. BetsPart'
  BY BetsLeftAlone
<1>2. HoldsPart'
  BY EachCovered, HoldsTypeStep, HoldClaimsStep, AskedStep, StakesHeldStep, PostedStep,
     HoldsAnswersStep
<1>3. LockedMatchesStakes'
  <2> SUFFICES ASSUME NEW w \in Wallets
               PROVE  wallet'[w].locked = Cardinality(HeldUnits(w)') + Cardinality(PendingUnits(w)')
    BY DEF LockedMatchesStakes
  <2>1. wallet'[w].locked \in Nat /\ Cardinality(HeldUnits(w)') \in Nat
    <3>1. reservation' \in [Slots -> ReservationRows] /\ wallet'[w] \in WalletRows
      BY <1>2 DEF HoldsTypeOK
    <3>2. QED  BY <3>1, UnitsCounted, BigintAssumption DEF WalletRows, HeldUnits
  <2>2. PendingUnits(w)' = PendingUnits(w)
    BY DEF betTables, PendingUnits, Units
  <2>3. wallet[w].locked = Cardinality(HeldUnits(w)) + Cardinality(PendingUnits(w))
    BY DEF LockedMatchesStakes
  <2>4. /\ wallet[w].locked \in Nat /\ Cardinality(HeldUnits(w)) \in Nat
        /\ Cardinality(PendingUnits(w)) \in Nat
    BY HeldNumbers, PendingNumbers DEF BetsPart
  <2>5. wallet'[w].locked - Cardinality(HeldUnits(w)') = wallet[w].locked - Cardinality(HeldUnits(w))
    BY BeyondHeldKept DEF BeyondHeld
  <2>6. QED  BY <1>2, <2>1, <2>2, <2>3, <2>4, <2>5
<1>4. LedgerContinuity'
  BY HoldsContinuityStep
<1>5. QED  BY <1>1, <1>2, <1>3, <1>4

LEMMA BetsKeepBoth ==
  ASSUME WalletsInv, [BetsNext]_betsVars, UNCHANGED holdTables
  PROVE  WalletsInv'
<1> USE DEF WalletsInv, BetsPart
<1>1. HoldsPart'
  BY HoldsLeftAlone
<1>2. BetsPart'
  BY EachCovered, BetsTypeStep, ShapeStep, ClaimsStep, PlacedStep, ResultStep, PostingsStep,
     AnswersStep
<1>3. LockedMatchesStakes'
  <2> SUFFICES ASSUME NEW w \in Wallets
               PROVE  wallet'[w].locked = Cardinality(HeldUnits(w)') + Cardinality(PendingUnits(w)')
    BY DEF LockedMatchesStakes
  <2>1. wallet'[w].locked \in Nat /\ Cardinality(PendingUnits(w)') \in Nat
    BY <1>2, PendingNumbersNext
  <2>2. HeldUnits(w)' = HeldUnits(w)
    BY DEF holdTables, HeldUnits, UnitsOf
  <2>3. wallet[w].locked = Cardinality(HeldUnits(w)) + Cardinality(PendingUnits(w))
    BY DEF LockedMatchesStakes
  <2>4. /\ wallet[w].locked \in Nat /\ Cardinality(HeldUnits(w)) \in Nat
        /\ Cardinality(PendingUnits(w)) \in Nat
    BY HeldNumbers, PendingNumbers DEF HoldsPart
  <2>5. wallet'[w].locked - Cardinality(PendingUnits(w)') = wallet[w].locked - Cardinality(PendingUnits(w))
    BY BeyondPendingKept DEF BeyondPending
  <2>6. QED  BY <1>2, <2>1, <2>2, <2>3, <2>4, <2>5
<1>4. LedgerContinuity'
  BY ContinuityStep
<1>5. QED  BY <1>1, <1>2, <1>3, <1>4

\* Every step is a step of one client that leaves the other's tables; a step of the
\* administrators is one of either.
LEMMA StepOfOne ==
  ASSUME [Next]_vars
  PROVE  \/ [HoldsNext]_holdsVars /\ UNCHANGED betTables
         \/ [BetsNext]_betsVars /\ UNCHANGED holdTables
<1>1. CASE UNCHANGED vars
  BY <1>1 DEF vars, holdsVars, betTables, holdTables
<1>2. ASSUME NEW r \in HoldRequests, SubmitHold(r) \/ ServeHold(r) \/ FailHold(r)
      PROVE  HoldsNext
  BY <1>2 DEF HoldsNext
<1>3. ASSUME NEW r \in BetRequests, SubmitBet(r) \/ ServeBet(r) \/ FailBet(r)
      PROVE  BetsNext
  BY <1>3 DEF BetsNext
<1>4. ASSUME NEW w \in Wallets, NEW delta \in Deltas, NEW key \in Keys,
             AdjustWalletBalance(w, delta, key), UNCHANGED holdTables
      PROVE  HoldsNext
  BY <1>4 DEF HoldsNext, HoldsAdjust, holdTables
<1>5. QED  BY <1>1, <1>2, <1>3, <1>4 DEF Next

\* Two clients with empty tables keep it.
LEMMA WalletsInit == Init => WalletsInv
<1> SUFFICES ASSUME Init PROVE WalletsInv
  OBVIOUS
<1>1. HoldsInit /\ BetsInit
  BY DEF Init
<1>2. StakesAsked /\ StakesHeld /\ FinalizeAnswersTrue
  BY <1>1 DEF HoldsInit, StakesAsked, StakesHeld, FinalizeAnswersTrue, Idle, NoReservation
<1>3. LockedMatchesHeld /\ LockedMatchesPending
  BY <1>1, HoldsLockedInit, LockedInit
<1>4. LockedMatchesStakes
  BY <1>1, <1>3 DEF LockedMatchesStakes, LockedMatchesHeld, LockedMatchesPending, HoldsInit, MoneyInit
<1>5. QED
  BY <1>1, <1>2, <1>4, HoldsTypeInit, HoldClaimsInit, PostedInit, HoldsContinuityInit,
     BetsTypeInit, ShapeInit, OnceInit, PostingsInit, AnswersInit
     DEF WalletsInv, HoldsPart, BetsPart

LEMMA WalletsStep == WalletsInv /\ [Next]_vars => WalletsInv'
BY StepOfOne, HoldsKeepBoth, BetsKeepBoth

\* Reservations and bets of the same wallets, any number of each at once, never spend
\* or return each other's stakes: the locked funds are the HELD reservations and the
\* PENDING bets together, every stake is posted and settled once, every ledger is a
\* chain that ends in the balance, and no answer is made untrue.
THEOREM StakesAlwaysAddUp == Spec => []StakesAddUp
<1>1. WalletsInv => StakesAddUp
  BY PostingsCounted DEF WalletsInv, HoldsPart, BetsPart, StakesAddUp, StakesPosted, AnswersStayTrue
<1>2. QED  BY <1>1, WalletsInit, WalletsStep, PTL DEF Spec

-----------------------------------------------------------------------------
(***************************************************************************)
(* Finality, with both clients at work.                                    *)
(***************************************************************************)

\* No step of either client reopens or flips a final reservation, changes a
\* settled bet, or changes the stake, the owner or the links of a live one.
THEOREM StakesStayFinal == Spec => FinalStatusIsFinal /\ SettledIsFinal
<1> DEFINE KeptOnceSettled ==
      \A b \in BetIds :
        LET old == bet[b]
            new == bet'[b]
        IN /\ old.status \in Outcomes => new = old
           /\ old.status = "PENDING" =>
                /\ new.status # "NONE"
                /\ <<new.amount, new.multiplier, new.wallet>> =
                     <<old.amount, old.multiplier, old.wallet>>
           /\ old.status = "NONE" => new.status \in {"NONE", "PENDING"}
<1>1. WalletsInv /\ [Next]_vars => [\A s \in Slots : Lawful(s)]_holdsVars
  <2> SUFFICES ASSUME WalletsInv, [Next]_vars, NEW s \in Slots PROVE Lawful(s)
    OBVIOUS
  <2>1. CASE UNCHANGED holdTables
    BY <2>1 DEF holdTables, Lawful
  <2>2. CASE [HoldsNext]_holdsVars
    BY <2>2, HoldsLawfulStep DEF WalletsInv, HoldsPart
  <2>3. QED  BY <2>1, <2>2, StepOfOne
<1>2. WalletsInv /\ [Next]_vars => [KeptOnceSettled]_betsVars
  <2> SUFFICES ASSUME WalletsInv, [Next]_vars PROVE KeptOnceSettled
    OBVIOUS
  <2>1. CASE UNCHANGED betTables
    BY <2>1 DEF betTables
  <2>2. CASE [BetsNext]_betsVars
    BY <2>2, LawfulStep DEF WalletsInv, BetsPart
  <2>3. QED  BY <2>1, <2>2, StepOfOne
<1> HIDE DEF KeptOnceSettled
<1>3. Spec => FinalStatusIsFinal
  BY <1>1, WalletsInit, WalletsStep, PTL DEF Spec, FinalStatusIsFinal, Lawful
<1>4. Spec => [][KeptOnceSettled]_betsVars
  BY <1>2, WalletsInit, WalletsStep, PTL DEF Spec
<1>5. QED  BY <1>3, <1>4, PTL DEF SettledIsFinal, KeptOnceSettled

-----------------------------------------------------------------------------
(***************************************************************************)
(* The promise of the reservation service, beside the bets module.         *)
(***************************************************************************)

\* The stakes of the bets stand between the two views of the locked funds.
LEMMA BesideBetsView ==
  ASSUME BetsTypeOK, NEW w \in Wallets
  PROVE  /\ FundsBesideBets[w].available = Funds[w].available
         /\ FundsBesideBets[w].locked = Funds[w].locked - Cardinality(PendingUnits(w))
         /\ Funds[w].locked \in Int /\ Cardinality(PendingUnits(w)) \in Nat
BY PendingNumbers DEF Funds, FundsBesideBets

\* While the bets stay, a step that moves the funds of one account in one view
\* moves them in the other.
LEMMA BesideBetsMove ==
  ASSUME UNCHANGED bet, NEW w \in Wallets, NEW available, NEW locked,
         Funds' = [Funds EXCEPT ![w] = [available |-> available, locked |-> locked]]
  PROVE  FundsBesideBets' =
           [FundsBesideBets EXCEPT ![w] = [available |-> available,
                                           locked    |-> locked - Cardinality(PendingUnits(w))]]
<1> DEFINE P(v) == Cardinality(PendingUnits(v))
<1>1. \A v \in Wallets : PendingUnits(v)' = PendingUnits(v)
  BY DEF PendingUnits, Units
<1>2. FundsBesideBets' = [v \in Wallets |-> [available |-> wallet'[v].balance,
                                             locked    |-> wallet'[v].locked - P(v)]]
  BY <1>1 DEF FundsBesideBets
<1>3. Funds' = [v \in Wallets |-> [available |-> wallet'[v].balance, locked |-> wallet'[v].locked]]
  BY DEF Funds
<1>4. wallet'[w].balance = available /\ wallet'[w].locked = locked
  <2>1. Funds'[w] = [available |-> available, locked |-> locked]
    BY DEF Funds
  <2>2. Funds'[w] = [available |-> wallet'[w].balance, locked |-> wallet'[w].locked]
    BY <1>3
  <2>3. QED  BY <2>1, <2>2
<1>5. ASSUME NEW v \in Wallets \ {w}
      PROVE  wallet'[v].balance = wallet[v].balance /\ wallet'[v].locked = wallet[v].locked
  <2>1. Funds'[v] = Funds[v]
    BY DEF Funds
  <2>2. /\ Funds'[v] = [available |-> wallet'[v].balance, locked |-> wallet'[v].locked]
        /\ Funds[v] = [available |-> wallet[v].balance, locked |-> wallet[v].locked]
    BY <1>3 DEF Funds
  <2>3. QED  BY <2>1, <2>2
<1> HIDE DEF P
<1>6. FundsBesideBets = [v \in Wallets |-> [available |-> wallet[v].balance,
                                            locked    |-> wallet[v].locked - P(v)]]
  BY DEF FundsBesideBets, P
<1>7. FundsBesideBets' =
        [FundsBesideBets EXCEPT ![w] = [available |-> available, locked |-> locked - P(w)]]
  BY <1>2, <1>4, <1>5, <1>6
<1>8. QED  BY <1>7 DEF P

\* What is promised of a step of the reservation service holds in the other view.
LEMMA BesideBetsHold ==
  ASSUME HoldsTypeOK, BetsTypeOK, UNCHANGED bet, Held!Next
  PROVE  BesideBets!Next
<1> DEFINE P(v) == Cardinality(PendingUnits(v))
           F == FundsBesideBets
<1> USE BigintAssumption
<1>1. PICK w \in Wallets : Held!Adjust(w) \/ \E b \in Refs :
                             Held!Hold(w, b) \/ Held!Release(w, b) \/ Held!Capture(w, b)
  BY Zenon DEF Held!Next
<1>2. /\ F[w].available = Funds[w].available /\ F[w].locked = Funds[w].locked - P(w)
      /\ Funds[w].locked \in Int /\ P(w) \in Nat
  BY BesideBetsView
<1>3. F[w] = [available |-> F[w].available, locked |-> F[w].locked]
      /\ Funds[w] = [available |-> Funds[w].available, locked |-> Funds[w].locked]
  BY DEF FundsBesideBets, Funds
<1>4. ASSUME NEW available, NEW locked,
             Funds' = [Funds EXCEPT ![w] = [available |-> available, locked |-> locked]]
      PROVE  F' = [F EXCEPT ![w] = [available |-> available, locked |-> locked - P(w)]]
  BY <1>4, BesideBetsMove
<1>5. ASSUME NEW b \in Refs PROVE Stake[<<w, b>>].amount \in Int
  BY DEF HoldsTypeOK, ReservationRows, Slots, Stake
<1> HIDE DEF P, F
<1>6. CASE Held!Adjust(w)
  <2>1. PICK after \in 0..BigintMax :
          /\ after # Funds[w].available
          /\ Funds' = [Funds EXCEPT ![w].available = after]
          /\ Stake' = Stake
    BY <1>6, Zenon DEF Held!Adjust
  <2>2. Funds' = [Funds EXCEPT ![w] = [available |-> after, locked |-> Funds[w].locked]]
    <3>1. [Funds[w] EXCEPT !.available = after] =
          [available |-> after, locked |-> Funds[w].locked]
      BY <1>3
    <3>2. QED  BY <2>1, <3>1
  <2>3. F' = [F EXCEPT ![w] = [available |-> after, locked |-> F[w].locked]]
    BY <1>2, <1>4, <2>2
  <2>4. F' = [F EXCEPT ![w].available = after] /\ after # F[w].available
    BY <1>2, <1>3, <2>1, <2>3
  <2>5. BesideBets!Adjust(w)
    BY <2>1, <2>4, Zenon DEF BesideBets!Adjust, F
  <2>6. QED  BY <2>5 DEF BesideBets!Next
<1>7. ASSUME NEW b \in Refs, Held!Hold(w, b) PROVE BesideBets!Next
  <2>1. PICK amount \in 1..BigintMax :
          /\ Stake[<<w, b>>].status = "NONE"
          /\ Funds[w].available >= amount
          /\ Funds' = [Funds EXCEPT ![w] = [available |-> Funds[w].available - amount,
                                            locked    |-> Funds[w].locked + amount]]
          /\ Stake' = [Stake EXCEPT ![<<w, b>>] = [status |-> "HELD", amount |-> amount]]
    BY <1>7 DEF Held!Hold
  <2>2. F' = [F EXCEPT ![w] = [available |-> Funds[w].available - amount,
                               locked    |-> (Funds[w].locked + amount) - P(w)]]
    BY <1>4, <2>1
  <2>3. (Funds[w].locked + amount) - P(w) = F[w].locked + amount
    BY <1>2
  <2>4. F' = [F EXCEPT ![w] = [available |-> F[w].available - amount,
                               locked    |-> F[w].locked + amount]]
    BY <1>2, <2>2, <2>3
  <2>5. BesideBets!Hold(w, b)
    BY <1>2, <2>1, <2>4 DEF BesideBets!Hold, F
  <2>6. QED  BY <2>5 DEF BesideBets!Next
<1>8. ASSUME NEW b \in Refs, Held!Release(w, b) PROVE BesideBets!Next
  <2> DEFINE amount == Stake[<<w, b>>].amount
  <2>1. /\ Stake[<<w, b>>].status = "HELD"
        /\ Funds' = [Funds EXCEPT ![w] = [available |-> Funds[w].available + amount,
                                          locked    |-> Funds[w].locked - amount]]
        /\ Stake' = [Stake EXCEPT ![<<w, b>>].status = "RELEASED"]
    BY <1>8, Zenon DEF Held!Release
  <2>2. F' = [F EXCEPT ![w] = [available |-> Funds[w].available + amount,
                               locked    |-> (Funds[w].locked - amount) - P(w)]]
    BY <1>4, <2>1
  <2>3. (Funds[w].locked - amount) - P(w) = F[w].locked - amount
    BY <1>2, <1>5
  <2>4. F' = [F EXCEPT ![w] = [available |-> F[w].available + amount,
                               locked    |-> F[w].locked - amount]]
    BY <1>2, <2>2, <2>3
  <2>5. BesideBets!Release(w, b)
    BY <2>1, <2>4, Zenon DEF BesideBets!Release, F
  <2>6. QED  BY <2>5 DEF BesideBets!Next
<1>9. ASSUME NEW b \in Refs, Held!Capture(w, b) PROVE BesideBets!Next
  <2> DEFINE amount == Stake[<<w, b>>].amount
  <2>1. /\ Stake[<<w, b>>].status = "HELD"
        /\ Funds' = [Funds EXCEPT ![w].locked = Funds[w].locked - amount]
        /\ Stake' = [Stake EXCEPT ![<<w, b>>].status = "CAPTURED"]
    BY <1>9, Zenon DEF Held!Capture
  <2>2. Funds' = [Funds EXCEPT ![w] = [available |-> Funds[w].available,
                                       locked    |-> Funds[w].locked - amount]]
    <3>1. [Funds[w] EXCEPT !.locked = Funds[w].locked - amount] =
          [available |-> Funds[w].available, locked |-> Funds[w].locked - amount]
      BY <1>3
    <3>2. QED  BY <2>1, <3>1
  <2>3. F' = [F EXCEPT ![w] = [available |-> Funds[w].available,
                               locked    |-> (Funds[w].locked - amount) - P(w)]]
    BY <1>4, <2>2
  <2>4. (Funds[w].locked - amount) - P(w) = F[w].locked - amount
    BY <1>2, <1>5
  <2>5. F' = [F EXCEPT ![w].locked = F[w].locked - amount]
    BY <1>2, <1>3, <2>3, <2>4
  <2>6. BesideBets!Capture(w, b)
    BY <2>1, <2>5, Zenon DEF BesideBets!Capture, F
  <2>7. QED  BY <2>6 DEF BesideBets!Next
<1>10. QED  BY <1>1, <1>6, <1>7, <1>8, <1>9, Zenon

\* A step of the bets module leaves this view, or moves available funds of one account.
LEMMA BesideBetsBet ==
  ASSUME WalletsInv, [BetsNext]_betsVars, UNCHANGED holdTables
  PROVE  [BesideBets!Next]_(BesideBets!vars)
<1> USE BigintAssumption
<1> DEFINE F == FundsBesideBets
<1>1. BetsTypeOK /\ BetsTypeOK'
  BY BetsTypeStep DEF WalletsInv, BetsPart
<1>2. Stake' = Stake
  BY DEF holdTables, Stake
<1>3. ASSUME NEW v \in Wallets PROVE F'[v].locked = F[v].locked
  BY BeyondPendingKept DEF WalletsInv, BetsPart, BeyondPending, FundsBesideBets
<1>4. F = [v \in Wallets |-> [available |-> F[v].available, locked |-> F[v].locked]]
  BY DEF FundsBesideBets
<1>5. F' = [v \in Wallets |-> [available |-> F'[v].available, locked |-> F'[v].locked]]
  BY DEF FundsBesideBets
<1>6. ASSUME NEW v \in Wallets
      PROVE  F[v].available = wallet[v].balance /\ F'[v].available = wallet'[v].balance
  BY DEF FundsBesideBets
<1>7. CASE \A v \in Wallets : wallet'[v].balance = wallet[v].balance
  <2>1. F' = F
    BY <1>3, <1>4, <1>5, <1>6, <1>7
  <2>2. QED  BY <1>2, <2>1, Zenon DEF BesideBets!vars, F
<1>8. ASSUME NEW w \in Wallets, \A v \in Wallets \ {w} : wallet'[v] = wallet[v],
             wallet'[w].balance # wallet[w].balance
      PROVE  BesideBets!Next
  <2> DEFINE after == wallet'[w].balance
  <2>1. after \in 0..BigintMax
    BY <1>1 DEF BetsTypeOK, WalletRows
  <2>2. after # F[w].available
    BY <1>6, <1>8
  <2>3. \A v \in Wallets \ {w} : F'[v].available = F[v].available
    BY <1>6, <1>8
  <2>4. F'[w].available = after
    BY <1>6
  <2> HIDE DEF F, after
  <2>5. F' = [F EXCEPT ![w].available = after]
    BY <1>3, <1>4, <1>5, <2>3, <2>4
  <2>6. BesideBets!Adjust(w)
    BY <1>2, <2>1, <2>2, <2>5, Zenon DEF BesideBets!Adjust, F
  <2>7. QED  BY <2>6 DEF BesideBets!Next
<1>9. \/ \A v \in Wallets : wallet'[v].balance = wallet[v].balance
      \/ \E w \in Wallets : \A v \in Wallets \ {w} : wallet'[v] = wallet[v]
  BY BetPosts DEF WalletsInv, BetsPart, PostsExactly, PostsTwo
<1>10. QED  BY <1>7, <1>8, <1>9

\* The reservation service implements HeldFunds for its callers while any number of
\* bets on the same wallets are placed and settled beside it.
THEOREM PromiseKeptBesideBets == Spec => HeldFundsBesideBets
<1>1. Init => BesideBets!Init
  <2> SUFFICES ASSUME Init PROVE BesideBets!Init
    OBVIOUS
  <2>1. HoldsInit /\ LockedMatchesPending
    BY LockedInit DEF Init
  <2>2. FundsBesideBets = [w \in Wallets |-> [available |-> 0, locked |-> 0]]
    BY <2>1 DEF HoldsInit, MoneyInit, LockedMatchesPending, FundsBesideBets
  <2>3. Stake = [s \in Slots |-> [status |-> "NONE", amount |-> 0]]
    BY <2>1 DEF HoldsInit, NoReservation, Stake
  <2>4. QED  BY <2>2, <2>3 DEF BesideBets!Init, BesideBets!NoStake, Slots
<1>2. WalletsInv /\ [Next]_vars => [BesideBets!Next]_(BesideBets!vars)
  <2> SUFFICES ASSUME WalletsInv, [Next]_vars PROVE [BesideBets!Next]_(BesideBets!vars)
    OBVIOUS
  <2>1. CASE [HoldsNext]_holdsVars /\ UNCHANGED betTables
    <3>1. HoldsTypeOK /\ ClaimsHeld /\ StakesAsked /\ BetsTypeOK /\ UNCHANGED bet
      BY <2>1 DEF WalletsInv, HoldsPart, BetsPart, betTables
    <3>2. Held!Next \/ UNCHANGED Held!vars
      BY <2>1, <3>1, RefinesStep
    <3>3. CASE Held!Next
      BY <3>1, <3>3, BesideBetsHold
    <3>4. CASE UNCHANGED Held!vars
      <4>1. Funds' = Funds /\ Stake' = Stake
        BY <3>4 DEF Held!vars
      <4>2. \A v \in Wallets : wallet'[v].balance = wallet[v].balance /\ wallet'[v].locked = wallet[v].locked
        <5>1. ASSUME NEW v \in Wallets
              PROVE  /\ Funds'[v].available = wallet'[v].balance
                     /\ Funds[v].available = wallet[v].balance
                     /\ Funds'[v].locked = wallet'[v].locked
                     /\ Funds[v].locked = wallet[v].locked
          BY DEF Funds
        <5>2. QED  BY <4>1, <5>1
      <4>3. \A v \in Wallets : PendingUnits(v)' = PendingUnits(v)
        BY <3>1 DEF PendingUnits, Units
      <4>4. FundsBesideBets' = FundsBesideBets
        BY <4>2, <4>3 DEF FundsBesideBets
      <4>5. QED  BY <4>1, <4>4 DEF BesideBets!vars
    <3>5. QED  BY <3>2, <3>3, <3>4
  <2>2. CASE [BetsNext]_betsVars /\ UNCHANGED holdTables
    BY <2>2, BesideBetsBet
  <2>3. QED  BY <2>1, <2>2, StepOfOne
<1>3. QED
  BY <1>1, <1>2, WalletsInit, WalletsStep, PTL DEF Spec, HeldFundsBesideBets, BesideBets!Spec

-----------------------------------------------------------------------------
(***************************************************************************)
(* The promise of the bets module, beside the reservation service.         *)
(***************************************************************************)

\* The HELD stakes stand between the two views of the locked funds.
LEMMA BesideHoldsView ==
  ASSUME HoldsTypeOK, NEW w \in Wallets
  PROVE  /\ FundsBesideHolds[w].available = PlayerFunds[w].available
         /\ FundsBesideHolds[w].locked = PlayerFunds[w].locked - Cardinality(HeldUnits(w))
         /\ PlayerFunds[w].locked \in Int /\ Cardinality(HeldUnits(w)) \in Nat
BY HeldNumbers DEF PlayerFunds, FundsBesideHolds

\* While the reservations stay, a step that moves the funds of one account in one
\* view moves them in the other.
LEMMA BesideHoldsMove ==
  ASSUME UNCHANGED reservation, NEW w \in Wallets, NEW available, NEW locked,
         PlayerFunds' = [PlayerFunds EXCEPT ![w] = [available |-> available, locked |-> locked]]
  PROVE  FundsBesideHolds' =
           [FundsBesideHolds EXCEPT ![w] = [available |-> available,
                                            locked    |-> locked - Cardinality(HeldUnits(w))]]
<1> DEFINE P(v) == Cardinality(HeldUnits(v))
<1>1. \A v \in Wallets : HeldUnits(v)' = HeldUnits(v)
  BY DEF HeldUnits, UnitsOf
<1>2. FundsBesideHolds' = [v \in Wallets |-> [available |-> wallet'[v].balance,
                                              locked    |-> wallet'[v].locked - P(v)]]
  BY <1>1 DEF FundsBesideHolds
<1>3. ASSUME NEW v \in Wallets
      PROVE  /\ PlayerFunds[v].available = wallet[v].balance
             /\ PlayerFunds[v].locked = wallet[v].locked
             /\ PlayerFunds'[v].available = wallet'[v].balance
             /\ PlayerFunds'[v].locked = wallet'[v].locked
  BY DEF PlayerFunds
<1>4. wallet'[w].balance = available /\ wallet'[w].locked = locked
  <2>1. PlayerFunds'[w] = [available |-> available, locked |-> locked]
    BY DEF PlayerFunds
  <2>2. QED  BY <1>3, <2>1
<1>5. ASSUME NEW v \in Wallets \ {w}
      PROVE  wallet'[v].balance = wallet[v].balance /\ wallet'[v].locked = wallet[v].locked
  <2>1. PlayerFunds'[v] = PlayerFunds[v]
    BY DEF PlayerFunds
  <2>2. QED  BY <1>3, <2>1
<1> HIDE DEF P
<1>6. FundsBesideHolds = [v \in Wallets |-> [available |-> wallet[v].balance,
                                             locked    |-> wallet[v].locked - P(v)]]
  BY DEF FundsBesideHolds, P
<1>7. FundsBesideHolds' =
        [FundsBesideHolds EXCEPT ![w] = [available |-> available, locked |-> locked - P(w)]]
  BY <1>2, <1>4, <1>5, <1>6
<1>8. QED  BY <1>7 DEF P

\* What is promised of a step of the bets module holds in the other view.
LEMMA BesideHoldsBet ==
  ASSUME HoldsTypeOK, BetsTypeOK, UNCHANGED reservation, Placed!Next
  PROVE  BesideHolds!Next
<1> DEFINE P(v) == Cardinality(HeldUnits(v))
           F == FundsBesideHolds
<1> USE BigintAssumption
<1>1. PICK w \in Wallets : Placed!Adjust(w) \/ \E b \in BetIds :
                             Placed!Place(w, b) \/ Placed!Win(w, b) \/ Placed!Lose(w, b)
  BY Zenon DEF Placed!Next
<1>2. /\ F[w].available = PlayerFunds[w].available /\ F[w].locked = PlayerFunds[w].locked - P(w)
      /\ PlayerFunds[w].locked \in Int /\ P(w) \in Nat
  BY BesideHoldsView
<1>3. /\ F[w] = [available |-> F[w].available, locked |-> F[w].locked]
      /\ PlayerFunds[w] = [available |-> PlayerFunds[w].available,
                           locked    |-> PlayerFunds[w].locked]
  BY DEF FundsBesideHolds, PlayerFunds
<1>4. ASSUME NEW available, NEW locked,
             PlayerFunds' = [PlayerFunds EXCEPT ![w] = [available |-> available,
                                                        locked    |-> locked]]
      PROVE  F' = [F EXCEPT ![w] = [available |-> available, locked |-> locked - P(w)]]
  BY <1>4, BesideHoldsMove
<1>5. ASSUME NEW b \in BetIds PROVE PlacedRows[b].stake \in Int
  <2>1. bet[b].amount \in 0..BigintMax
    BY DEF BetsTypeOK, BetRows
  <2>2. QED  BY <2>1 DEF PlacedRows
<1> HIDE DEF P, F
<1>6. CASE Placed!Adjust(w)
  <2>1. PICK after \in 0..BigintMax :
          /\ after # PlayerFunds[w].available
          /\ PlayerFunds' = [PlayerFunds EXCEPT ![w].available = after]
          /\ PlacedRows' = PlacedRows
    BY <1>6, Zenon DEF Placed!Adjust
  <2>2. PlayerFunds' = [PlayerFunds EXCEPT ![w] = [available |-> after,
                                                   locked    |-> PlayerFunds[w].locked]]
    <3>1. [PlayerFunds[w] EXCEPT !.available = after] =
          [available |-> after, locked |-> PlayerFunds[w].locked]
      BY <1>3
    <3>2. QED  BY <2>1, <3>1
  <2>3. F' = [F EXCEPT ![w] = [available |-> after, locked |-> F[w].locked]]
    BY <1>2, <1>4, <2>2
  <2>4. F' = [F EXCEPT ![w].available = after] /\ after # F[w].available
    BY <1>2, <1>3, <2>1, <2>3
  <2>5. BesideHolds!Adjust(w)
    BY <2>1, <2>4, Zenon DEF BesideHolds!Adjust, F
  <2>6. QED  BY <2>5 DEF BesideHolds!Next
<1>7. ASSUME NEW b \in BetIds, Placed!Place(w, b) PROVE BesideHolds!Next
  <2>1. PICK stake \in Amounts, m \in Multipliers :
          /\ PlacedRows[b] = Placed!NotPlaced
          /\ PlayerFunds[w].available >= stake
          /\ PlayerFunds' = [PlayerFunds EXCEPT
                               ![w] = [available |-> PlayerFunds[w].available - stake,
                                       locked    |-> PlayerFunds[w].locked + stake]]
          /\ PlacedRows' = [PlacedRows EXCEPT ![b] = [status |-> "PENDING", account |-> w,
                                                      stake |-> stake, multiplier |-> m]]
    BY <1>7 DEF Placed!Place
  <2>2. F' = [F EXCEPT ![w] = [available |-> PlayerFunds[w].available - stake,
                               locked    |-> (PlayerFunds[w].locked + stake) - P(w)]]
    BY <1>4, <2>1
  <2>3. (PlayerFunds[w].locked + stake) - P(w) = F[w].locked + stake
    <3>1. stake \in Int
      BY StakeAssumption
    <3>2. QED  BY <1>2, <3>1
  <2>4. F' = [F EXCEPT ![w] = [available |-> F[w].available - stake,
                               locked    |-> F[w].locked + stake]]
    BY <1>2, <2>2, <2>3
  <2>5. PlacedRows[b] = BesideHolds!NotPlaced
    BY <2>1 DEF Placed!NotPlaced, BesideHolds!NotPlaced
  <2>6. BesideHolds!Place(w, b)
    BY <1>2, <2>1, <2>4, <2>5 DEF BesideHolds!Place, F
  <2>7. QED  BY <2>6 DEF BesideHolds!Next
<1>8. ASSUME NEW b \in BetIds, Placed!Win(w, b) PROVE BesideHolds!Next
  <2> DEFINE stake == PlacedRows[b].stake
             prize == FlooredPrize[PlacedRows[b].stake][PlacedRows[b].multiplier]
  <2>1. /\ PlacedRows[b].status = "PENDING" /\ PlacedRows[b].account = w
        /\ PlayerFunds' = [PlayerFunds EXCEPT
                             ![w] = [available |-> PlayerFunds[w].available + prize,
                                     locked    |-> PlayerFunds[w].locked - stake]]
        /\ PlacedRows' = [PlacedRows EXCEPT ![b].status = "WON"]
    BY <1>8, Zenon DEF Placed!Win
  <2> HIDE DEF prize
  <2>2. F' = [F EXCEPT ![w] = [available |-> PlayerFunds[w].available + prize,
                               locked    |-> (PlayerFunds[w].locked - stake) - P(w)]]
    BY <1>4, <2>1
  <2>3. (PlayerFunds[w].locked - stake) - P(w) = F[w].locked - stake
    BY <1>2, <1>5
  <2>4. F' = [F EXCEPT ![w] = [available |-> F[w].available + prize,
                               locked    |-> F[w].locked - stake]]
    BY <1>2, <2>2, <2>3
  <2>5. BesideHolds!Win(w, b)
    BY <2>1, <2>4, Zenon DEF BesideHolds!Win, F, prize
  <2>6. QED  BY <2>5 DEF BesideHolds!Next
<1>9. ASSUME NEW b \in BetIds, Placed!Lose(w, b) PROVE BesideHolds!Next
  <2> DEFINE stake == PlacedRows[b].stake
  <2>1. /\ PlacedRows[b].status = "PENDING" /\ PlacedRows[b].account = w
        /\ PlayerFunds' = [PlayerFunds EXCEPT ![w].locked = PlayerFunds[w].locked - stake]
        /\ PlacedRows' = [PlacedRows EXCEPT ![b].status = "LOST"]
    BY <1>9, Zenon DEF Placed!Lose
  <2>2. PlayerFunds' = [PlayerFunds EXCEPT ![w] = [available |-> PlayerFunds[w].available,
                                                   locked    |-> PlayerFunds[w].locked - stake]]
    <3>1. [PlayerFunds[w] EXCEPT !.locked = PlayerFunds[w].locked - stake] =
          [available |-> PlayerFunds[w].available, locked |-> PlayerFunds[w].locked - stake]
      BY <1>3
    <3>2. QED  BY <2>1, <3>1
  <2>3. F' = [F EXCEPT ![w] = [available |-> PlayerFunds[w].available,
                               locked    |-> (PlayerFunds[w].locked - stake) - P(w)]]
    BY <1>4, <2>2
  <2>4. (PlayerFunds[w].locked - stake) - P(w) = F[w].locked - stake
    BY <1>2, <1>5
  <2>5. F' = [F EXCEPT ![w].locked = F[w].locked - stake]
    BY <1>2, <1>3, <2>3, <2>4
  <2>6. BesideHolds!Lose(w, b)
    BY <2>1, <2>5, Zenon DEF BesideHolds!Lose, F
  <2>7. QED  BY <2>6 DEF BesideHolds!Next
<1>10. QED  BY <1>1, <1>6, <1>7, <1>8, <1>9, Zenon

\* A step of the reservation service leaves this view, or moves available funds of
\* one account.
LEMMA BesideHoldsHold ==
  ASSUME WalletsInv, [HoldsNext]_holdsVars, UNCHANGED betTables
  PROVE  [BesideHolds!Next]_(BesideHolds!vars)
<1> USE BigintAssumption
<1> DEFINE F == FundsBesideHolds
<1>1. HoldsTypeOK /\ HoldsTypeOK'
  BY HoldsTypeStep DEF WalletsInv, HoldsPart
<1>2. PlacedRows' = PlacedRows
  BY DEF betTables, PlacedRows
<1>3. ASSUME NEW v \in Wallets PROVE F'[v].locked = F[v].locked
  BY BeyondHeldKept DEF WalletsInv, HoldsPart, BeyondHeld, FundsBesideHolds
<1>4. F = [v \in Wallets |-> [available |-> F[v].available, locked |-> F[v].locked]]
  BY DEF FundsBesideHolds
<1>5. F' = [v \in Wallets |-> [available |-> F'[v].available, locked |-> F'[v].locked]]
  BY DEF FundsBesideHolds
<1>6. ASSUME NEW v \in Wallets
      PROVE  F[v].available = wallet[v].balance /\ F'[v].available = wallet'[v].balance
  BY DEF FundsBesideHolds
<1>7. CASE \A v \in Wallets : wallet'[v].balance = wallet[v].balance
  <2>1. F' = F
    BY <1>3, <1>4, <1>5, <1>6, <1>7
  <2>2. QED  BY <1>2, <2>1, Zenon DEF BesideHolds!vars, F
<1>8. ASSUME NEW w \in Wallets, \A v \in Wallets \ {w} : wallet'[v] = wallet[v],
             wallet'[w].balance # wallet[w].balance
      PROVE  BesideHolds!Next
  <2> DEFINE after == wallet'[w].balance
  <2>1. after \in 0..BigintMax
    BY <1>1 DEF HoldsTypeOK, WalletRows
  <2>2. after # F[w].available
    BY <1>6, <1>8
  <2>3. \A v \in Wallets \ {w} : F'[v].available = F[v].available
    BY <1>6, <1>8
  <2>4. F'[w].available = after
    BY <1>6
  <2> HIDE DEF F, after
  <2>5. F' = [F EXCEPT ![w].available = after]
    BY <1>3, <1>4, <1>5, <2>3, <2>4
  <2>6. BesideHolds!Adjust(w)
    BY <1>2, <2>1, <2>2, <2>5, Zenon DEF BesideHolds!Adjust, F
  <2>7. QED  BY <2>6 DEF BesideHolds!Next
<1>9. \/ \A v \in Wallets : wallet'[v].balance = wallet[v].balance
      \/ \E w \in Wallets : \A v \in Wallets \ {w} : wallet'[v] = wallet[v]
  BY HoldPosts DEF WalletsInv, HoldsPart, PostsExactly
<1>10. QED  BY <1>7, <1>8, <1>9

\* The bets module implements PlacedBets for its callers while any number of stakes
\* are held, released and captured on the same wallets beside it.
THEOREM PromiseKeptBesideHolds == Spec => PlacedBetsBesideHolds
<1>1. Init => BesideHolds!Init
  <2> SUFFICES ASSUME Init PROVE BesideHolds!Init
    OBVIOUS
  <2>1. BetsInit /\ LockedMatchesHeld
    BY HoldsLockedInit DEF Init
  <2>2. FundsBesideHolds = [w \in Wallets |-> [available |-> 0, locked |-> 0]]
    BY <2>1 DEF BetsInit, MoneyInit, LockedMatchesHeld, FundsBesideHolds
  <2>3. PlacedRows = [b \in BetIds |-> [status |-> "NONE", account |-> NoWallet,
                                        stake |-> 0, multiplier |-> 0]]
    BY <2>1 DEF BetsInit, NoRow, PlacedRows
  <2>4. QED  BY <2>2, <2>3 DEF BesideHolds!Init, BesideHolds!NotPlaced
<1>2. WalletsInv /\ [Next]_vars => [BesideHolds!Next]_(BesideHolds!vars)
  <2> SUFFICES ASSUME WalletsInv, [Next]_vars PROVE [BesideHolds!Next]_(BesideHolds!vars)
    OBVIOUS
  <2>1. CASE [BetsNext]_betsVars /\ UNCHANGED holdTables
    <3>1. /\ HoldsTypeOK /\ BetsTypeOK /\ RowsShaped /\ ClaimsPending
          /\ UNCHANGED reservation
      BY <2>1 DEF WalletsInv, HoldsPart, BetsPart, holdTables
    <3>2. Placed!Next \/ UNCHANGED Placed!vars
      BY <2>1, <3>1, BetsRefine
    <3>3. CASE Placed!Next
      BY <3>1, <3>3, BesideHoldsBet
    <3>4. CASE UNCHANGED Placed!vars
      <4>1. PlayerFunds' = PlayerFunds /\ PlacedRows' = PlacedRows
        BY <3>4 DEF Placed!vars
      <4>2. \A v \in Wallets : /\ wallet'[v].balance = wallet[v].balance
                               /\ wallet'[v].locked = wallet[v].locked
        <5>1. ASSUME NEW v \in Wallets
              PROVE  /\ PlayerFunds'[v].available = wallet'[v].balance
                     /\ PlayerFunds[v].available = wallet[v].balance
                     /\ PlayerFunds'[v].locked = wallet'[v].locked
                     /\ PlayerFunds[v].locked = wallet[v].locked
          BY DEF PlayerFunds
        <5>2. QED  BY <4>1, <5>1
      <4>3. \A v \in Wallets : HeldUnits(v)' = HeldUnits(v)
        BY <3>1 DEF HeldUnits, UnitsOf
      <4>4. FundsBesideHolds' = FundsBesideHolds
        BY <4>2, <4>3 DEF FundsBesideHolds
      <4>5. QED  BY <4>1, <4>4 DEF BesideHolds!vars
    <3>5. QED  BY <3>2, <3>3, <3>4
  <2>2. CASE [HoldsNext]_holdsVars /\ UNCHANGED betTables
    BY <2>2, BesideHoldsHold
  <2>3. QED  BY <2>1, <2>2, StepOfOne
<1>3. QED
  BY <1>1, <1>2, WalletsInit, WalletsStep, PTL DEF Spec, PlacedBetsBesideHolds, BesideHolds!Spec

\* The two clients share wallet rows and ledgers, and each implements its abstract
\* specification all the same.
THEOREM BothPromisesKept == Spec => PromisesKept
BY PromiseKeptBesideBets, PromiseKeptBesideHolds DEF PromisesKept

-----------------------------------------------------------------------------
(***************************************************************************)
(* PART 3: the integrity audit.                                            *)
(***************************************************************************)

-----------------------------------------------------------------------------
(***************************************************************************)
(* What the ledger says of the locked funds.                               *)
(***************************************************************************)

\* A row adds its amount to the sum of the reasons its own is among.
LEMMA PostedSumAppend ==
  ASSUME NEW rows \in Seq(LedgerRows), NEW e \in LedgerRows, NEW reasons
  PROVE  /\ PostedSum(rows, reasons) \in Nat
         /\ PostedSum(Append(rows, e), reasons) =
              PostedSum(rows, reasons) + IF e.reason \in reasons THEN e.amount ELSE 0
<1> USE BigintAssumption
<1> DEFINE new == Append(rows, e)
           last == Len(rows) + 1
           S == {i \in DOMAIN rows : rows[i].reason \in reasons}
           T == {i \in DOMAIN new : new[i].reason \in reasons}
           f == [i \in DOMAIN rows |-> rows[i].amount]
           g == [i \in DOMAIN new |-> new[i].amount]
<1>1. /\ DOMAIN new = DOMAIN rows \cup {last} /\ last \notin DOMAIN rows
      /\ new[last] = e /\ \A i \in DOMAIN rows : new[i] = rows[i]
  BY RowsAfterAppend
<1>2. IsFiniteSet(S)
  <2>1. IsFiniteSet(1..Len(rows))
    BY FS_Interval
  <2>2. S \subseteq 1..Len(rows)
    OBVIOUS
  <2>3. QED  BY <2>1, <2>2, FS_Subset
<1>3. ASSUME NEW i \in DOMAIN rows PROVE rows[i].amount \in Nat
  <2>1. rows[i] \in LedgerRows
    OBVIOUS
  <2>2. QED  BY <2>1 DEF LedgerRows
<1>4. e.amount \in Nat
  BY DEF LedgerRows
<1> HIDE DEF new, last
<1>5. T = S \cup (IF e.reason \in reasons THEN {last} ELSE {})
  BY <1>1
<1>6. \A i \in S : f[i] \in Nat /\ f[i] = g[i]
  BY <1>1, <1>3
<1>7. g[last] = e.amount
  BY <1>1
<1>8. last \notin S
  BY <1>1
<1> HIDE DEF S, T, f, g
<1>9. Total(f, S) = Total(g, S) /\ Total(f, S) \in Nat
  BY <1>2, <1>6, TotalSame, TotalType
<1>10. CASE e.reason \in reasons
  <2>1. T = S \cup {last}
    BY <1>5, <1>10
  <2>2. \A i \in S \cup {last} : g[i] \in Nat
    BY <1>4, <1>6, <1>7
  <2>3. Total(g, T) = Total(g, S) + g[last]
    BY <1>2, <1>8, <2>1, <2>2, TotalAdd
  <2>4. QED  BY <1>7, <1>9, <1>10, <2>3 DEF PostedSum, S, T, f, g, new
<1>11. CASE e.reason \notin reasons
  <2>1. T = S
    BY <1>5, <1>11
  <2>2. PostedSum(rows, reasons) = Total(f, S) /\ PostedSum(new, reasons) = Total(g, T)
    BY DEF PostedSum, S, T, f, g
  <2>3. PostedSum(new, reasons) = PostedSum(rows, reasons) /\ PostedSum(rows, reasons) \in Nat
    BY <1>9, <2>1, <2>2
  <2>4. QED  BY <1>11, <2>3 DEF new
<1>12. QED  BY <1>10, <1>11

\* So it moves the recomputed locked funds by what it does to them.
LEMMA LockedAppend ==
  ASSUME NEW rows \in Seq(LedgerRows), NEW e \in LedgerRows
  PROVE  /\ LockedFromLedger(rows) \in Int
         /\ LockedFromLedger(Append(rows, e)) = LockedFromLedger(rows) + Locks(e)
<1>1. e.amount \in Nat
  BY BigintAssumption DEF LedgerRows
<1>2. /\ PostedSum(rows, {"BET_HOLD"}) \in Nat
      /\ PostedSum(rows, {"BET_RELEASE", "BET_CAPTURE"}) \in Nat
  BY PostedSumAppend
<1>3. /\ PostedSum(Append(rows, e), {"BET_HOLD"}) =
           PostedSum(rows, {"BET_HOLD"}) + IF e.reason \in {"BET_HOLD"} THEN e.amount ELSE 0
      /\ PostedSum(Append(rows, e), {"BET_RELEASE", "BET_CAPTURE"}) =
           PostedSum(rows, {"BET_RELEASE", "BET_CAPTURE"})
             + IF e.reason \in {"BET_RELEASE", "BET_CAPTURE"} THEN e.amount ELSE 0
  BY PostedSumAppend
<1>4. QED  BY <1>1, <1>2, <1>3 DEF LockedFromLedger, Locks

\* Every ledger says of the locked funds what they are, in rows that say what they
\* did to the balance.
LedgerTells ==
  \A w \in Wallets : /\ LockedFromLedger(ledger[w]) = wallet[w].locked
                     /\ \A i \in DOMAIN ledger[w] : Exact(ledger[w][i])

\* The invariant of the audit that reads a database nothing moves.
MoneyInv == WalletsInv /\ LedgerTells

LEMMA TellsInit == Init => LedgerTells
<1> SUFFICES ASSUME Init, NEW w \in Wallets
             PROVE  /\ LockedFromLedger(ledger[w]) = wallet[w].locked
                    /\ \A i \in DOMAIN ledger[w] : Exact(ledger[w][i])
  BY DEF LedgerTells
<1>1. ledger[w] = <<>> /\ wallet[w].locked = 0
  BY DEF Init, HoldsInit, MoneyInit
<1>2. DOMAIN ledger[w] = {}
  BY <1>1
<1>3. ASSUME NEW reasons PROVE PostedSum(ledger[w], reasons) = 0
  <2>1. {i \in DOMAIN ledger[w] : ledger[w][i].reason \in reasons} = {}
    BY <1>2
  <2>2. Total([i \in DOMAIN ledger[w] |-> ledger[w][i].amount], {}) = 0
    BY TotalOfNothing
  <2>3. QED  BY <2>1, <2>2 DEF PostedSum
<1>4. QED  BY <1>1, <1>2, <1>3 DEF LockedFromLedger

\* One exact row keeps it.
LEMMA RowTells ==
  ASSUME NEW rows \in Seq(LedgerRows), NEW e \in LedgerRows, Exact(e),
         NEW locked, LockedFromLedger(rows) = locked, \A i \in DOMAIN rows : Exact(rows[i])
  PROVE  /\ LockedFromLedger(Append(rows, e)) = locked + Locks(e)
         /\ \A i \in DOMAIN Append(rows, e) : Exact(Append(rows, e)[i])
         /\ Append(rows, e) \in Seq(LedgerRows)
<1>1. \A i \in DOMAIN Append(rows, e) :
        Append(rows, e)[i] = e \/ \E j \in DOMAIN rows : Append(rows, e)[i] = rows[j]
  BY AppendRows
<1>2. QED  BY <1>1, LockedAppend

LEMMA TellsStep == WalletsInv /\ LedgerTells /\ [Next]_vars => LedgerTells'
<1> SUFFICES ASSUME WalletsInv, LedgerTells, [Next]_vars PROVE LedgerTells'
  OBVIOUS
<1> USE DEF WalletsInv, HoldsPart, BetsPart
<1>1. CASE UNCHANGED <<wallet, ledger>>
  BY <1>1 DEF LedgerTells
<1>2. ASSUME NEW w \in Wallets, NEW e \in LedgerRows, PostsExactly(w, e) PROVE LedgerTells'
  <2>1. /\ ledger[w] \in Seq(LedgerRows) /\ ledger'[w] = Append(ledger[w], e)
        /\ \A v \in Wallets \ {w} : ledger'[v] = ledger[v] /\ wallet'[v] = wallet[v]
    BY <1>2 DEF PostsExactly, Post, HoldsTypeOK
  <2>2. /\ LockedFromLedger(ledger'[w]) = wallet'[w].locked
        /\ \A i \in DOMAIN ledger'[w] : Exact(ledger'[w][i])
    BY <1>2, <2>1, RowTells DEF LedgerTells, PostsExactly
  <2>3. QED  BY <2>1, <2>2 DEF LedgerTells
<1>3. ASSUME NEW w \in Wallets, NEW e \in LedgerRows, NEW f \in LedgerRows, PostsTwo(w, e, f)
      PROVE  LedgerTells'
  <2>1. /\ ledger[w] \in Seq(LedgerRows) /\ ledger'[w] = Append(Append(ledger[w], e), f)
        /\ \A v \in Wallets \ {w} : ledger'[v] = ledger[v] /\ wallet'[v] = wallet[v]
    BY <1>3 DEF PostsTwo, HoldsTypeOK
  <2> DEFINE one == Append(ledger[w], e)
             locked == wallet[w].locked + Locks(e)
  <2>2. /\ LockedFromLedger(one) = locked
        /\ \A i \in DOMAIN one : Exact(one[i])
        /\ one \in Seq(LedgerRows)
    BY <1>3, <2>1, RowTells DEF LedgerTells, PostsTwo
  <2>3. ledger'[w] = Append(one, f) /\ wallet'[w].locked = locked + Locks(f)
    BY <1>3, <2>1 DEF PostsTwo
  <2> HIDE DEF one, locked
  <2>4. Exact(f)
    BY <1>3 DEF PostsTwo
  <2>5. /\ LockedFromLedger(ledger'[w]) = wallet'[w].locked
        /\ \A i \in DOMAIN ledger'[w] : Exact(ledger'[w][i])
    BY <2>2, <2>3, <2>4, RowTells
  <2>6. QED  BY <2>1, <2>5 DEF LedgerTells
<1>4. CASE [HoldsNext]_holdsVars
  BY <1>1, <1>2, <1>4, HoldPosts
<1>5. CASE [BetsNext]_betsVars
  BY <1>1, <1>2, <1>3, <1>5, BetPosts
<1>6. QED  BY <1>4, <1>5, StepOfOne

-----------------------------------------------------------------------------
(***************************************************************************)
(* The checks of one wallet.                                               *)
(***************************************************************************)

\* The sums of the stakes are the units the invariants count.
LEMMA SumsCounted ==
  ASSUME NEW w \in Wallets
  PROVE  /\ PendingSum(w) = Cardinality(PendingUnits(w))
         /\ HeldSum(w) = Cardinality(HeldUnits(w))
<1>1. Pieces([b \in BetIds |-> bet[b].amount],
             {b \in BetIds : bet[b].status = "PENDING" /\ bet[b].wallet = w}) = PendingUnits(w)
  BY DEF Pieces, PendingUnits, Units
<1>2. Pieces([b \in Refs |-> reservation[<<w, b>>].amount],
             {b \in Refs : reservation[<<w, b>>].status = "HELD"}) = HeldUnits(w)
  BY DEF Pieces, HeldUnits, UnitsOf, StakeUnits
<1>3. QED  BY <1>1, <1>2 DEF PendingSum, HeldSum, Total

\* Whatever wallet row and expectation the audit has, a ledger that is a chain of
\* exact rows passes the check of the balances before, and fails the one of the
\* balances after at its captures.
LEMMA LedgerChecks ==
  ASSUME MoneyInv, NEW w \in Wallets, NEW row, NEW expected
  PROVE  LET rows == ledger[w]
         IN  /\ ~Reports("LEDGER_BALANCE_BEFORE_MISMATCH", row, rows, expected)
             /\ ~Reports("NEGATIVE_RECOMPUTED_LOCKED", row, rows, expected)
             /\ Reports("LEDGER_BALANCE_AFTER_MISMATCH", row, rows, expected) <=> CapturePosted(w)
<1> USE BigintAssumption DEF MoneyInv, WalletsInv, HoldsPart
<1> DEFINE rows == ledger[w]
<1>1. /\ rows \in Seq(LedgerRows) /\ DOMAIN rows = 1..Len(rows) /\ Len(rows) \in Nat
      /\ ChainFrom(rows, wallet[w].balance)
      /\ LockedFromLedger(rows) = wallet[w].locked
      /\ \A i \in DOMAIN rows : Exact(rows[i])
  BY DEF HoldsTypeOK, LedgerContinuity, LedgerTells
<1>2. wallet[w].locked \in Nat
  BY DEF HoldsTypeOK, WalletRows
<1> HIDE DEF rows
<1>3. ASSUME NEW i \in DOMAIN rows PROVE rows[i].before = Running(rows, i)
  <2>1. CASE i = 1
    BY <2>1 DEF Running
  <2>2. CASE i # 1
    <3>1. i - 1 \in 1..(Len(rows) - 1) /\ i - 1 + 1 = i
      BY <1>1, <2>2
    <3>2. QED  BY <1>1, <2>2, <3>1 DEF Running, ChainFrom
  <2>3. QED  BY <2>1, <2>2
<1>4. ASSUME NEW i \in DOMAIN rows
      PROVE  rows[i].after # Running(rows, i) + Delta(rows[i]) <=> rows[i].reason = "BET_CAPTURE"
  <2> DEFINE e == rows[i]
  <2>1. e \in LedgerRows
    BY <1>1
  <2>2. e.before \in Nat /\ e.after \in Nat /\ e.amount \in Nat
    BY <2>1 DEF LedgerRows
  <2>3. Exact(e) /\ Running(rows, i) = e.before
    BY <1>1, <1>3
  <2> HIDE DEF e
  <2>4. e.after # e.before + Delta(e) <=> e.reason = "BET_CAPTURE"
    BY <2>2, <2>3 DEF Exact, Delta
  <2>5. QED  BY <2>3, <2>4 DEF e
<1>5. ~Reports("LEDGER_BALANCE_BEFORE_MISMATCH", row, rows, expected)
  BY <1>3 DEF Reports
<1>6. ~Reports("NEGATIVE_RECOMPUTED_LOCKED", row, rows, expected)
  BY <1>1, <1>2 DEF Reports
<1>7. Reports("LEDGER_BALANCE_AFTER_MISMATCH", row, rows, expected) <=>
        \E i \in DOMAIN rows : rows[i].reason = "BET_CAPTURE"
  BY <1>4 DEF Reports
<1>8. QED  BY <1>5, <1>6, <1>7 DEF rows, CapturePosted

\* Nothing else is reported of a wallet nothing moves.
LEMMA QuietWallet ==
  ASSUME MoneyInv, NEW w \in Wallets
  PROVE  WalletIssues(wallet[w], ledger[w], PendingSum(w) + HeldSum(w)) =
           IF CapturePosted(w) THEN {"LEDGER_BALANCE_AFTER_MISMATCH"} ELSE {}
<1> USE DEF MoneyInv, WalletsInv, HoldsPart, BetsPart
<1> DEFINE row == wallet[w]
           rows == ledger[w]
           expected == PendingSum(w) + HeldSum(w)
<1>1. ChainFrom(rows, row.balance) /\ LockedFromLedger(rows) = row.locked
  BY DEF LedgerContinuity, LedgerTells
<1>2. expected = row.locked
  <2>1. Cardinality(HeldUnits(w)) \in Nat /\ Cardinality(PendingUnits(w)) \in Nat
    BY HeldNumbers, PendingNumbers
  <2>2. row.locked = Cardinality(HeldUnits(w)) + Cardinality(PendingUnits(w))
    BY DEF LockedMatchesStakes
  <2>3. QED  BY <2>1, <2>2, SumsCounted
<1>3. /\ ~Reports("LEDGER_BALANCE_BEFORE_MISMATCH", row, rows, expected)
      /\ ~Reports("NEGATIVE_RECOMPUTED_LOCKED", row, rows, expected)
      /\ Reports("LEDGER_BALANCE_AFTER_MISMATCH", row, rows, expected) <=> CapturePosted(w)
  BY LedgerChecks
<1> HIDE DEF row, rows, expected
<1>4. /\ ~Reports("NON_ZERO_BALANCE_WITHOUT_LEDGER", row, rows, expected)
      /\ ~Reports("WALLET_BALANCE_MISMATCH_WITH_LEDGER", row, rows, expected)
      /\ ~Reports("WALLET_LOCKED_MISMATCH_WITH_LEDGER", row, rows, expected)
      /\ ~Reports("WALLET_LOCKED_MISMATCH_WITH_BET_STATE", row, rows, expected)
  BY <1>1, <1>2 DEF Reports, ChainFrom
<1>5. WalletIssues(row, rows, expected) =
        IF CapturePosted(w) THEN {"LEDGER_BALANCE_AFTER_MISMATCH"} ELSE {}
  BY <1>3, <1>4 DEF WalletIssues, WalletCodes
<1>6. QED  BY <1>5 DEF row, rows, expected

-----------------------------------------------------------------------------
(***************************************************************************)
(* The checks of the settlements.                                          *)
(***************************************************************************)

\* The postings of a reference are its rows in the ledgers.
LEMMA PostingsAreRows ==
  ASSUME NEW reason, NEW ref
  PROVE  /\ \A p \in Postings(reason, ref) :
              \E w \in Wallets : \E i \in PostedRows(ledger[w], ref, reason) : p = <<w, i>>
         /\ \A w \in Wallets : \A i \in PostedRows(ledger[w], ref, reason) :
              <<w, i>> \in Postings(reason, ref)
<1>1. ASSUME NEW p \in Postings(reason, ref)
      PROVE  \E w \in Wallets : \E i \in PostedRows(ledger[w], ref, reason) : p = <<w, i>>
  <2>1. PICK w \in Wallets : p \in {w} \X DOMAIN ledger[w]
    BY DEF Postings
  <2>2. p = <<w, p[2]>> /\ p[1] = w /\ p[2] \in DOMAIN ledger[w]
    BY <2>1
  <2>3. ledger[p[1]][p[2]].reason = reason /\ ledger[p[1]][p[2]].ref = ref
    BY DEF Postings
  <2>4. p[2] \in PostedRows(ledger[w], ref, reason)
    BY <2>2, <2>3 DEF PostedRows
  <2>5. QED  BY <2>2, <2>4
<1>2. ASSUME NEW w \in Wallets, NEW i \in PostedRows(ledger[w], ref, reason)
      PROVE  <<w, i>> \in Postings(reason, ref)
  <2>1. i \in DOMAIN ledger[w] /\ ledger[w][i].reason = reason /\ ledger[w][i].ref = ref
    BY DEF PostedRows
  <2>2. <<w, i>> \in {w} \X DOMAIN ledger[w]
    BY <2>1
  <2>3. QED  BY <2>1, <2>2 DEF Postings
<1>3. QED  BY <1>1, <1>2

\* No capture and no payout of a bet is posted twice.
LEMMA BetPostedOnce ==
  ASSUME BetsPart, NEW b \in BetIds, NEW reason \in {"BET_CAPTURE", "BET_PAYOUT"},
         NEW p \in Postings(reason, b), NEW q \in Postings(reason, b)
  PROVE  p = q
<1>1. PICK v \in Wallets, w \in Wallets :
        /\ \E i \in PostedRows(ledger[v], b, reason) : p = <<v, i>>
        /\ \E j \in PostedRows(ledger[w], b, reason) : q = <<w, j>>
  BY PostingsAreRows
<1>2. PICK i \in PostedRows(ledger[v], b, reason) : p = <<v, i>>
  BY <1>1
<1>3. PICK j \in PostedRows(ledger[w], b, reason) : q = <<w, j>>
  BY <1>1
<1>4. PostedRight(b) /\ reason \in BetReasons
  BY DEF BetsPart, PostingsRight, BetReasons
<1>5. bet[b].wallet = v /\ bet[b].wallet = w
  BY <1>2, <1>3, <1>4 DEF PostedRight, NonePosted
<1>6. bet[b].status # "NONE"
  BY <1>5, BetAssumption DEF BetsPart, RowsShaped, NoRow
<1>7. bet[b].status \in {"PENDING"} \cup Outcomes
  BY <1>6 DEF BetsPart, BetsTypeOK, BetRows
<1>8. NonePosted(ledger[v], b, reason) \/ \E amount : OnePosted(ledger[v], b, reason, amount)
  BY <1>4, <1>5, <1>7 DEF PostedRight
<1>9. i = j
  BY <1>2, <1>3, <1>5, <1>8 DEF NonePosted, OnePosted
<1>10. QED  BY <1>2, <1>3, <1>5, <1>9

\* The one capture of a reservation is the row it links to, and it has no payout.
LEMMA HoldPostings ==
  ASSUME HoldsPart, NEW b \in Refs, NEW w \in Wallets
  PROVE  LET row == reservation[<<w, b>>]
         IN  /\ PostedRows(ledger[w], b, "BET_PAYOUT") = {}
             /\ PostedRows(ledger[w], b, "BET_CAPTURE") =
                  IF row.status = "CAPTURED" THEN {row.finalTx} ELSE {}
<1> DEFINE row == reservation[<<w, b>>]
           rows == ledger[w]
<1>1. Told(row, rows, b)
  BY PostedMeansTold DEF HoldsPart
<1>2. row.status \in Statuses
  BY DEF HoldsPart, HoldsTypeOK, Slots, ReservationRows
<1> HIDE DEF row, rows
<1> DEFINE posted == {i \in DOMAIN rows : rows[i].ref = b}
<1>3. \A reason : PostedRows(rows, b, reason) = {i \in posted : rows[i].reason = reason}
  BY DEF PostedRows
<1>4. CASE row.status = "NONE"
  <2>1. posted = {}
    BY <1>1, <1>4 DEF Told
  <2>2. QED  BY <1>3, <1>4, <2>1 DEF row, rows
<1>5. CASE row.status = "HELD"
  <2>1. posted = {row.holdTx} /\ rows[row.holdTx].reason = "BET_HOLD"
    BY <1>1, <1>5 DEF Told
  <2>2. QED  BY <1>3, <1>5, <2>1 DEF row, rows
<1>6. CASE row.status \in {"RELEASED", "CAPTURED"}
  <2>1. /\ posted = {row.holdTx, row.finalTx} /\ rows[row.holdTx].reason = "BET_HOLD"
        /\ rows[row.finalTx].reason = IF row.status = "RELEASED"
                                      THEN "BET_RELEASE" ELSE "BET_CAPTURE"
    BY <1>1, <1>6 DEF Told
  <2> HIDE DEF posted
  <2>2. PostedRows(rows, b, "BET_PAYOUT") = {}
    BY <1>3, <1>6, <2>1
  <2>3. CASE row.status = "RELEASED"
    <3>1. PostedRows(rows, b, "BET_CAPTURE") = {}
      BY <1>3, <2>1, <2>3
    <3>2. QED  BY <2>2, <2>3, <3>1 DEF row, rows
  <2>4. CASE row.status = "CAPTURED"
    <3>1. PostedRows(rows, b, "BET_CAPTURE") = {row.finalTx}
      BY <1>3, <2>1, <2>4
    <3>2. QED  BY <2>2, <2>4, <3>1 DEF row, rows
  <2>5. QED  BY <1>6, <2>3, <2>4
<1>7. QED  BY <1>2, <1>4, <1>5, <1>6 DEF Statuses

\* Captures share a reference only where captured reservations of two wallets do.
LEMMA CapturesShared ==
  ASSUME HoldsPart, BetsPart
  PROVE  Duplicated("BET_CAPTURE") <=> SharedReference
<1>1. ASSUME Duplicated("BET_CAPTURE") PROVE SharedReference
  <2>1. PICK ref \in Refs \cup BetIds :
          \E p, q \in Postings("BET_CAPTURE", ref) : p # q
    BY <1>1 DEF Duplicated
  <2>2. PICK p \in Postings("BET_CAPTURE", ref), q \in Postings("BET_CAPTURE", ref) : p # q
    BY <2>1
  <2>3. ref \in Refs
    BY <2>2, BetPostedOnce
  <2>4. PICK v \in Wallets : \E i \in PostedRows(ledger[v], ref, "BET_CAPTURE") : p = <<v, i>>
    BY PostingsAreRows
  <2>5. PICK w \in Wallets : \E j \in PostedRows(ledger[w], ref, "BET_CAPTURE") : q = <<w, j>>
    BY PostingsAreRows
  <2>6. /\ reservation[<<v, ref>>].status = "CAPTURED" /\ p = <<v, reservation[<<v, ref>>].finalTx>>
        /\ reservation[<<w, ref>>].status = "CAPTURED" /\ q = <<w, reservation[<<w, ref>>].finalTx>>
    BY <2>3, <2>4, <2>5, HoldPostings
  <2>7. v # w
    BY <2>2, <2>6
  <2>8. QED  BY <2>3, <2>6, <2>7 DEF SharedReference
<1>2. ASSUME SharedReference PROVE Duplicated("BET_CAPTURE")
  <2>1. PICK v \in Wallets, w \in Wallets, b \in Refs :
          /\ v # w
          /\ reservation[<<v, b>>].status = "CAPTURED"
          /\ reservation[<<w, b>>].status = "CAPTURED"
    BY <1>2 DEF SharedReference
  <2>2. /\ reservation[<<v, b>>].finalTx \in PostedRows(ledger[v], b, "BET_CAPTURE")
        /\ reservation[<<w, b>>].finalTx \in PostedRows(ledger[w], b, "BET_CAPTURE")
    BY <2>1, HoldPostings
  <2>3. /\ <<v, reservation[<<v, b>>].finalTx>> \in Postings("BET_CAPTURE", b)
        /\ <<w, reservation[<<w, b>>].finalTx>> \in Postings("BET_CAPTURE", b)
    BY <2>2, PostingsAreRows
  <2>4. QED  BY <2>1, <2>3 DEF Duplicated
<1>3. QED  BY <1>1, <1>2

LEMMA PayoutsDistinct ==
  ASSUME HoldsPart, BetsPart
  PROVE  ~Duplicated("BET_PAYOUT")
<1> SUFFICES ASSUME NEW ref \in Refs \cup BetIds,
                    NEW p \in Postings("BET_PAYOUT", ref), NEW q \in Postings("BET_PAYOUT", ref),
                    p # q
             PROVE  FALSE
  BY DEF Duplicated
<1>1. CASE ref \in BetIds
  BY <1>1, BetPostedOnce
<1>2. CASE ref \in Refs
  <2>1. PICK v \in Wallets : \E i \in PostedRows(ledger[v], ref, "BET_PAYOUT") : p = <<v, i>>
    BY PostingsAreRows
  <2>2. QED  BY <1>2, <2>1, HoldPostings
<1>3. QED  BY <1>1, <1>2

\* The payouts posted for a settled bet are what it says it paid.
LEMMA PayoutsMatch ==
  ASSUME BetsPart, NEW b \in Settled
  PROVE  LET paid == Postings("BET_PAYOUT", b)
         IN bet[b].payout = Total([p \in paid |-> ledger[p[1]][p[2]].amount], paid)
<1> USE DEF BetsPart
<1> DEFINE paid == Postings("BET_PAYOUT", b)
           amount == [p \in paid |-> ledger[p[1]][p[2]].amount]
           w == bet[b].wallet
           pays == Pays(b, bet[b].status)
<1>1. b \in BetIds /\ bet[b].status \in Outcomes /\ bet[b].status # "NONE"
  BY DEF Settled, Outcomes
<1>2. w \in Wallets /\ bet[b].payout = pays /\ pays \in Nat
  BY <1>1, PaysNat DEF RowsShaped
<1>3. PostedRight(b)
  BY <1>1 DEF PostingsRight
<1>4. ASSUME NEW p \in paid
      PROVE  \E i \in PostedRows(ledger[w], b, "BET_PAYOUT") : p = <<w, i>>
  <2>1. PICK v \in Wallets : \E i \in PostedRows(ledger[v], b, "BET_PAYOUT") : p = <<v, i>>
    BY PostingsAreRows
  <2>2. v = w
    BY <1>3, <2>1 DEF PostedRight, NonePosted, BetReasons
  <2>3. QED  BY <2>1, <2>2
<1>5. CASE pays > 0
  <2>1. PICK i \in DOMAIN ledger[w] :
          PostedRows(ledger[w], b, "BET_PAYOUT") = {i} /\ ledger[w][i].amount = pays
    BY <1>1, <1>3, <1>5 DEF PostedRight, OnePosted
  <2>2. <<w, i>> \in paid
    BY <1>2, <2>1, PostingsAreRows
  <2>3. paid = {<<w, i>>}
    BY <1>4, <2>1, <2>2
  <2>4. amount[<<w, i>>] = pays
    BY <2>1, <2>2
  <2>5. \A p \in {} \cup {<<w, i>>} : amount[p] \in Nat
    BY <1>2, <2>4
  <2> HIDE DEF amount, paid
  <2>6. /\ IsFiniteSet({}) /\ Total(amount, {}) = 0
        /\ Total(amount, {} \cup {<<w, i>>}) = Total(amount, {}) + amount[<<w, i>>]
    BY <2>5, TotalAdd, TotalOfNothing, FS_EmptySet
  <2>7. Total(amount, paid) = pays
    BY <1>2, <2>3, <2>4, <2>6
  <2>8. QED  BY <1>2, <2>7 DEF amount, paid
<1>6. CASE ~(pays > 0)
  <2>1. paid = {}
    BY <1>1, <1>3, <1>4, <1>6 DEF PostedRight, NonePosted
  <2>2. Total(amount, paid) = 0
    BY <2>1, TotalOfNothing
  <2>3. QED  BY <1>2, <1>6, <2>2
<1>7. QED  BY <1>5, <1>6

\* No nonce settled two bets or made two results.
LEMMA NoncesDistinct ==
  ASSUME BetsPart
  PROVE  /\ \A b, c \in Settled : bet[b].nonce = bet[c].nonce => b = c
         /\ \A g, h \in gameResult : g.nonce = h.nonce => g = h
<1>1. \A g, h \in gameResult : g.nonce = h.nonce => g = h
  BY DEF BetsPart, ResultIffSettled
<1>2. ASSUME NEW b \in Settled
      PROVE  [bet |-> b, outcome |-> bet[b].status, nonce |-> bet[b].nonce] \in gameResult
  <2>1. b \in BetIds /\ bet[b].status \in Outcomes
    BY DEF Settled, Outcomes
  <2>2. {g \in gameResult : g.bet = b} =
          {[bet |-> b, outcome |-> bet[b].status, nonce |-> bet[b].nonce]}
    BY <2>1 DEF BetsPart, ResultIffSettled
  <2>3. QED  BY <2>2
<1>3. ASSUME NEW b \in Settled, NEW c \in Settled, bet[b].nonce = bet[c].nonce PROVE b = c
  <2> DEFINE g == [bet |-> b, outcome |-> bet[b].status, nonce |-> bet[b].nonce]
             h == [bet |-> c, outcome |-> bet[c].status, nonce |-> bet[c].nonce]
  <2>1. g \in gameResult /\ h \in gameResult /\ g.nonce = h.nonce
    BY <1>2, <1>3
  <2>2. g = h
    BY <1>1, <2>1
  <2>3. g.bet = b /\ h.bet = c
    OBVIOUS
  <2>4. QED  BY <2>2, <2>3
<1>4. QED  BY <1>1, <1>3

LEMMA QuietSettlements ==
  ASSUME HoldsPart, BetsPart
  PROVE  SettlementIssues = FalseDuplicate
<1>1. ~(\E b, c \in Settled : b # c /\ bet[b].nonce = bet[c].nonce)
  BY NoncesDistinct
<1>2. ~(\E g, h \in gameResult : g # h /\ g.nonce = h.nonce)
  BY NoncesDistinct
<1>3. ~(\E b \in Settled :
          LET paid == Postings("BET_PAYOUT", b)
          IN bet[b].payout # Total([p \in paid |-> ledger[p[1]][p[2]].amount], paid))
  BY PayoutsMatch
<1>4. (Duplicated("BET_CAPTURE") <=> SharedReference) /\ ~Duplicated("BET_PAYOUT")
  BY CapturesShared, PayoutsDistinct
<1>5. QED  BY <1>1, <1>2, <1>3, <1>4 DEF SettlementIssues, FalseDuplicate

-----------------------------------------------------------------------------
(***************************************************************************)
(* The audit beside live requests.                                         *)
(***************************************************************************)

AuditCodes ==
  WalletCodes \cup {"DUPLICATE_SETTLEMENT_CAPTURE_LEDGER", "DUPLICATE_SETTLEMENT_PAYOUT_LEDGER",
                    "DUPLICATE_SETTLE_IDEMPOTENCY_KEY", "DUPLICATE_DECISION_NONCE",
                    "PAYOUT_LEDGER_MISMATCH"}

Audits ==
  [pc : {"start", "held", "page", "entries", "report"}, expected : [Wallets -> Nat],
   page : [Wallets -> WalletRows], todo : SUBSET Wallets, issues : SUBSET AuditCodes]

\* A balance the audit has read was posted before, and what is posted stays.
PageKnown == \A w \in Wallets : audit.page[w].balance # 0 => ledger[w] # <<>>

AuditInv == MoneyInv /\ audit \in Audits /\ PageKnown /\ LiveAuditReliable

LEMMA AppendedSomething ==
  ASSUME NEW rows \in Seq(LedgerRows), NEW e \in LedgerRows
  PROVE  Append(rows, e) \in Seq(LedgerRows) /\ Append(rows, e) # <<>>
<1>1. Append(rows, e) \in Seq(LedgerRows) /\ Len(Append(rows, e)) = Len(rows) + 1 /\ Len(rows) \in Nat
  OBVIOUS
<1>2. Len(<<>>) = 0
  OBVIOUS
<1> DEFINE new == Append(rows, e)
<1> HIDE DEF new
<1>3. Len(new) # Len(<<>>)
  BY <1>1, <1>2 DEF new
<1>4. QED  BY <1>1, <1>3, Zenon DEF new

\* No step empties a ledger or reopens a captured reservation.
LEMMA OnlyMore ==
  ASSUME WalletsInv, [Next]_vars
  PROVE  /\ \A w \in Wallets : ledger[w] # <<>> => ledger'[w] # <<>>
         /\ SharedReference => SharedReference'
<1> USE DEF WalletsInv, HoldsPart, BetsPart
<1>1. ASSUME NEW w \in Wallets, ledger[w] # <<>> PROVE ledger'[w] # <<>>
  <2>1. ledger[w] \in Seq(LedgerRows)
    BY DEF HoldsTypeOK
  <2>2. ASSUME NEW e \in LedgerRows
        PROVE  Append(ledger[w], e) \in Seq(LedgerRows) /\ Append(ledger[w], e) # <<>>
    BY <2>1, AppendedSomething
  <2>3. \A v \in Wallets, e \in LedgerRows :
          PostsExactly(v, e) => ledger'[w] = IF v = w THEN Append(ledger[w], e) ELSE ledger[w]
    BY DEF PostsExactly, Post, HoldsTypeOK
  <2>4. ASSUME NEW v \in Wallets, NEW e \in LedgerRows, NEW f \in LedgerRows, PostsTwo(v, e, f)
        PROVE  ledger'[w] # <<>>
    <3> DEFINE one == Append(ledger[w], e)
    <3>1. ledger'[w] = IF v = w THEN Append(one, f) ELSE ledger[w]
      BY <2>4 DEF PostsTwo, HoldsTypeOK
    <3>2. one \in Seq(LedgerRows)
      BY <2>2
    <3> HIDE DEF one
    <3>3. Append(one, f) # <<>>
      BY <3>2, AppendedSomething
    <3>4. QED  BY <1>1, <3>1, <3>3
  <2>5. CASE [HoldsNext]_holdsVars
    BY <1>1, <2>2, <2>3, <2>5, HoldPosts
  <2>6. CASE [BetsNext]_betsVars
    <3>1. CASE UNCHANGED <<wallet, ledger>>
      BY <1>1, <3>1
    <3>2. ASSUME NEW v \in Wallets, NEW e \in LedgerRows, PostsExactly(v, e)
          PROVE  ledger'[w] # <<>>
      BY <1>1, <2>2, <2>3, <3>2
    <3>3. QED  BY <2>4, <2>6, <3>1, <3>2, BetPosts
  <2>7. QED  BY <2>5, <2>6, StepOfOne
<1>2. \A s \in Slots : reservation[s].status = "CAPTURED" => reservation'[s].status = "CAPTURED"
  <2>1. CASE [HoldsNext]_holdsVars
    BY <2>1, HoldsLawfulStep DEF Lawful
  <2>2. CASE UNCHANGED holdTables
    BY <2>2 DEF holdTables
  <2>3. QED  BY <2>1, <2>2, StepOfOne
<1>3. SharedReference => SharedReference'
  <2> SUFFICES ASSUME SharedReference PROVE SharedReference'
    OBVIOUS
  <2>1. PICK v \in Wallets, w \in Wallets, b \in Refs :
          /\ v # w
          /\ reservation[<<v, b>>].status = "CAPTURED"
          /\ reservation[<<w, b>>].status = "CAPTURED"
    BY DEF SharedReference
  <2>2. /\ reservation'[<<v, b>>].status = "CAPTURED"
        /\ reservation'[<<w, b>>].status = "CAPTURED"
    BY <1>2, <2>1 DEF Slots
  <2>3. QED  BY <2>1, <2>2 DEF SharedReference
<1>4. QED  BY <1>1, <1>3

\* What the audit may report of a wallet it read before its ledger.
LEMMA LiveWallet ==
  ASSUME MoneyInv, PageKnown, NEW w \in Wallets, NEW expected
  PROVE  WalletIssues(audit.page[w], ledger[w], expected) \subseteq
           {"LEDGER_BALANCE_AFTER_MISMATCH", "WALLET_BALANCE_MISMATCH_WITH_LEDGER",
            "WALLET_LOCKED_MISMATCH_WITH_LEDGER", "WALLET_LOCKED_MISMATCH_WITH_BET_STATE"}
<1>1. ~Reports("NON_ZERO_BALANCE_WITHOUT_LEDGER", audit.page[w], ledger[w], expected)
  BY DEF Reports, PageKnown
<1>2. QED  BY <1>1, LedgerChecks DEF WalletIssues, WalletCodes

LEMMA AuditInvInit == AuditInit => AuditInv
<1> SUFFICES ASSUME AuditInit PROVE AuditInv
  OBVIOUS
<1>1. MoneyInv
  BY WalletsInit, TellsInit DEF AuditInit, MoneyInv
<1>2. audit = [pc |-> "start", expected |-> [w \in Wallets |-> 0], page |-> wallet,
               todo |-> Wallets, issues |-> {}]
  BY DEF AuditInit
<1>3. wallet \in [Wallets -> WalletRows]
  BY <1>1 DEF MoneyInv, WalletsInv, HoldsPart, HoldsTypeOK
<1>4. audit \in Audits
  BY <1>2, <1>3 DEF Audits
<1>5. \A w \in Wallets : wallet[w].balance = 0
  BY DEF AuditInit, Init, HoldsInit, MoneyInit
<1>6. QED  BY <1>1, <1>2, <1>4, <1>5 DEF AuditInv, PageKnown, LiveAuditReliable

\* A step of the audit leaves the money.
LEMMA AuditReads ==
  ASSUME AuditInv, AuditStep, UNCHANGED vars
  PROVE  AuditInv'
<1> USE DEF AuditInv
<1>1. UNCHANGED <<wallet, ledger, reservation, rowLock, holdReq, bet, gameResult, betReq>>
  BY DEF vars, holdTables, betTables
<1>2. MoneyInv'
  BY WalletsStep, TellsStep DEF MoneyInv
<1>3. SharedReference' = SharedReference
  BY <1>1 DEF SharedReference
<1>4. wallet \in [Wallets -> WalletRows]
  BY DEF MoneyInv, WalletsInv, HoldsPart, HoldsTypeOK
<1>5. ASSUME NEW w \in Wallets
      PROVE  /\ PendingSum(w) \in Nat /\ HeldSum(w) \in Nat
             /\ audit.expected[w] + HeldSum(w) \in Nat
  <2>1. PendingSum(w) \in Nat /\ HeldSum(w) \in Nat
    BY SumsCounted, HeldNumbers, PendingNumbers DEF MoneyInv, WalletsInv, HoldsPart, BetsPart
  <2>2. audit.expected[w] \in Nat
    BY DEF Audits
  <2>3. QED  BY <2>1, <2>2
<1>6. CASE AuditPending
  <2>1. audit' = [audit EXCEPT !.pc = "held", !.expected = [w \in Wallets |-> PendingSum(w)]]
    BY <1>6 DEF AuditPending
  <2>2. audit' \in Audits /\ audit'.page = audit.page /\ audit'.issues = audit.issues
    BY <1>5, <2>1 DEF Audits
  <2>3. QED  BY <1>1, <1>2, <1>3, <2>2 DEF PageKnown, LiveAuditReliable, FalseDuplicate
<1>7. CASE AuditHeld
  <2>1. audit' = [audit EXCEPT !.pc = "page",
                               !.expected = [w \in Wallets |-> audit.expected[w] + HeldSum(w)]]
    BY <1>7 DEF AuditHeld
  <2>2. audit' \in Audits /\ audit'.page = audit.page /\ audit'.issues = audit.issues
    BY <1>5, <2>1 DEF Audits
  <2>3. QED  BY <1>1, <1>2, <1>3, <2>2 DEF PageKnown, LiveAuditReliable, FalseDuplicate
<1>8. CASE AuditPage
  <2>1. audit' \in Audits /\ audit'.page = wallet /\ audit'.issues = audit.issues
    BY <1>4, <1>8 DEF AuditPage, Audits
  <2>2. \A w \in Wallets : wallet[w].balance # 0 => ledger[w] # <<>>
    BY DEF MoneyInv, WalletsInv, LedgerContinuity, ChainFrom
  <2>3. QED  BY <1>1, <1>2, <1>3, <2>1, <2>2 DEF PageKnown, LiveAuditReliable, FalseDuplicate
<1>9. ASSUME NEW w \in Wallets, AuditWallet(w) PROVE AuditInv'
  <2> DEFINE found == WalletIssues(audit.page[w], ledger[w], audit.expected[w])
  <2>1. audit' = [audit EXCEPT !.todo = @ \ {w}, !.issues = @ \cup found]
    BY <1>9 DEF AuditWallet
  <2>2. found \subseteq WalletCodes
    BY DEF WalletIssues
  <2>3. found \subseteq {"LEDGER_BALANCE_AFTER_MISMATCH", "WALLET_BALANCE_MISMATCH_WITH_LEDGER",
                         "WALLET_LOCKED_MISMATCH_WITH_LEDGER",
                         "WALLET_LOCKED_MISMATCH_WITH_BET_STATE"}
    BY LiveWallet
  <2> HIDE DEF found
  <2>4. /\ audit' \in Audits /\ audit'.page = audit.page
        /\ audit'.issues = audit.issues \cup found
    BY <2>1, <2>2 DEF Audits, AuditCodes
  <2>5. QED  BY <1>1, <1>2, <1>3, <2>3, <2>4 DEF PageKnown, LiveAuditReliable, FalseDuplicate
<1>10. CASE AuditSettlements
  <2>1. audit' = [audit EXCEPT !.pc = "report", !.issues = @ \cup SettlementIssues]
    BY <1>10 DEF AuditSettlements
  <2>2. SettlementIssues = FalseDuplicate /\ FalseDuplicate \subseteq AuditCodes
    BY QuietSettlements DEF MoneyInv, WalletsInv, FalseDuplicate, AuditCodes
  <2>3. /\ audit' \in Audits /\ audit'.page = audit.page
        /\ audit'.issues = audit.issues \cup FalseDuplicate
    BY <2>1, <2>2 DEF Audits
  <2>4. QED  BY <1>1, <1>2, <1>3, <2>3 DEF PageKnown, LiveAuditReliable, FalseDuplicate
<1>11. QED  BY <1>6, <1>7, <1>8, <1>9, <1>10 DEF AuditStep

\* A step of a request leaves what the audit has read and reported.
LEMMA RequestsBesideAudit ==
  ASSUME AuditInv, [Next]_vars, UNCHANGED audit
  PROVE  AuditInv'
<1> USE DEF AuditInv
<1>1. MoneyInv'
  BY WalletsStep, TellsStep DEF MoneyInv
<1>2. /\ \A w \in Wallets : ledger[w] # <<>> => ledger'[w] # <<>>
      /\ SharedReference => SharedReference'
  BY OnlyMore DEF MoneyInv
<1>3. PageKnown'
  BY <1>2 DEF PageKnown
<1>4. LiveAuditReliable'
  BY <1>2 DEF LiveAuditReliable, FalseDuplicate
<1>5. QED  BY <1>1, <1>3, <1>4

LEMMA AuditStepKeeps == AuditInv /\ [AuditNext]_auditVars => AuditInv'
<1> SUFFICES ASSUME AuditInv, [AuditNext]_auditVars PROVE AuditInv'
  OBVIOUS
<1>1. CASE AuditStep /\ UNCHANGED vars
  BY <1>1, AuditReads
<1>2. CASE Next /\ UNCHANGED audit
  BY <1>2, RequestsBesideAudit
<1>3. CASE UNCHANGED auditVars
  BY <1>3, RequestsBesideAudit DEF auditVars
<1>4. QED  BY <1>1, <1>2, <1>3 DEF AuditNext

\* Run while nothing moves, the audit reports captures, and captures of two wallets
\* that share a reference, and nothing else, in every state of every number of
\* concurrent requests.
THEOREM QuietAuditAlwaysClean == AuditSpec => []QuietAuditClean
<1>1. AuditInv => QuietAuditClean
  BY QuietWallet, QuietSettlements DEF AuditInv, MoneyInv, WalletsInv, QuietAuditClean
<1>2. QED  BY <1>1, AuditInvInit, AuditStepKeeps, PTL DEF AuditSpec

\* Run beside any number of live requests, it raises no false alarm but those the
\* order of its reads explains.
THEOREM LiveAuditAlwaysReliable == AuditSpec => []LiveAuditReliable
<1>1. AuditInv => LiveAuditReliable
  BY DEF AuditInv
<1>2. QED  BY <1>1, AuditInvInit, AuditStepKeeps, PTL DEF AuditSpec

\* The audit only reads: with it beside them, the clients do what they do without.
THEOREM AuditOnlyReads == AuditSpec => Spec
<1>1. AuditInit => Init
  BY DEF AuditInit
<1>2. [AuditNext]_auditVars => [Next]_vars
  BY DEF AuditNext, auditVars, vars
<1>3. QED  BY <1>1, <1>2, PTL DEF AuditSpec, Spec

\* With the audit beside them, too, the clients' stakes and answers add up, and each
\* keeps its promise.
THEOREM AuditedStakesAddUp == AuditSpec => []StakesAddUp /\ PromisesKept
BY AuditOnlyReads, StakesAlwaysAddUp, BothPromisesKept, PTL
=============================================================================
