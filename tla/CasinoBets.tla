----------------------------- MODULE CasinoBets -----------------------------
(***************************************************************************)
(* The bets module: placeBet and settleBet, called concurrently by players *)
(* and by the game engine, next to adjustWalletBalance.                    *)
(*                                                                         *)
(* Both run SERIALIZABLE transactions.  PostgreSQL aborts one whenever a   *)
(* row it locks was changed after its snapshot, and may abort one for a    *)
(* read-write dependency; runSerializable then starts over, at most        *)
(* MaxAttempts times.  placeBet locks the wallet row with its first        *)
(* statement, so its transaction is one step.  settleBet locks the bet,    *)
(* inserts the validated result and only then locks the wallet: three      *)
(* steps, between which the transactions of other requests run.            *)
(***************************************************************************)
EXTENDS Stakes

CONSTANTS
  BetIds,      \* ids casino_bets rows get
  Multipliers, \* multipliers of bets, in units of 1 / Scale
  Scale,       \* a multiplier of Scale pays the stake back
  Nonces,      \* decision nonces of the game engine
  Signed,      \* the results the game engine has signed, each for one bet
  BetRequests, \* concurrently running calls
  MaxAttempts, \* MAX_SERIALIZABLE_RETRIES
  NoNonce, NoWallet, NoBet

Outcomes == {"WON", "LOST"}

Results == [bet : BetIds, outcome : Outcomes, nonce : Nonces]

ASSUME BetAssumption == /\ Multipliers \subseteq Nat \ {0}
                        /\ Scale \in Nat \ {0}
                        /\ Signed \subseteq Results
                        /\ MaxAttempts \in Nat \ {0}
                        /\ IsFiniteSet(BetIds)
                        /\ BetIds \subseteq References
                        /\ Nonces \X {"capture", "payout"} \subseteq PostingKeys
                        /\ NoWallet \notin Wallets

VARIABLES
  bet,         \* [BetIds -> row of casino_bets]
  gameResult,  \* rows of bet_game_results
  betReq       \* [BetRequests -> Idle or the state of the call]

betsVars == <<wallet, ledger, bet, gameResult, betReq>>

NoRow ==
  [status |-> "NONE", wallet |-> NoWallet, amount |-> 0, multiplier |-> 0,
   placeKey |-> NoKey, placeBefore |-> 0, nonce |-> NoNonce, payout |-> 0,
   settleBefore |-> 0, settleAfter |-> 0]

BetsInit ==
  /\ MoneyInit
  /\ bet = [b \in BetIds |-> NoRow]
  /\ gameResult = {}
  /\ betReq = [r \in BetRequests |-> Idle]

-----------------------------------------------------------------------------
(***************************************************************************)
(* The life of a request.                                                  *)
(***************************************************************************)

BetAt(r, pc) == betReq[r].pc = pc

\* The call answers; an "ok" carries the bet and the balances it is to report.
ReplyBet(r, outcome, b, before, after) ==
  betReq' = [betReq EXCEPT ![r].pc = "done", ![r].outcome = outcome, ![r].bet = b,
                     ![r].before = before, ![r].after = after]

Refuse(r, outcome) == ReplyBet(r, outcome, betReq[r].bet, 0, 0)

PlaceCall(w, key, amount, multiplier) ==
  [pc |-> "lookup", op |-> "PLACE", wallet |-> w, key |-> key, amount |-> amount,
   multiplier |-> multiplier, bet |-> NoBet, attempt |-> 1,
   outcome |-> "none", before |-> 0, after |-> 0]

SettleCall(b, result, nonce) ==
  [pc |-> "lock", op |-> "SETTLE", result |-> result, nonce |-> nonce, bet |-> b,
   snapshot |-> 0, attempt |-> 1, outcome |-> "none", before |-> 0, after |-> 0]

SubmitBet(r) ==
  /\ betReq[r] = Idle
  /\ \/ \E w \in Wallets, key \in Keys, amount \in Amounts, m \in Multipliers :
          betReq' = [betReq EXCEPT ![r] = PlaceCall(w, key, amount, m)]
     \/ \E b \in BetIds, result \in Outcomes, nonce \in Nonces :
          betReq' = [betReq EXCEPT ![r] = SettleCall(b, result, nonce)]
  /\ UNCHANGED <<wallet, ledger, bet, gameResult>>

ReturnBet(r) ==
  /\ BetAt(r, "done")
  /\ betReq' = [betReq EXCEPT ![r] = Idle]
  /\ UNCHANGED <<wallet, ledger, bet, gameResult>>

\* The call ends without an answer: the access guard refuses the user, a
\* statement fails, the signature is too old, or the process dies.
FailBet(r) ==
  /\ betReq[r].pc \notin {"idle", "done"}
  /\ betReq' = [betReq EXCEPT ![r] = Idle]
  /\ UNCHANGED <<wallet, ledger, bet, gameResult>>

\* runSerializable: the transaction was aborted; start over or give up.
Restart(r, pc) ==
  IF betReq[r].attempt < MaxAttempts
  THEN betReq' = [betReq EXCEPT ![r].pc = pc, ![r].attempt = @ + 1]
  ELSE Refuse(r, "txConflict")

-----------------------------------------------------------------------------
(***************************************************************************)
(* placeBet                                                                *)
(***************************************************************************)

PlacedWith(w, key) == {b \in BetIds : bet[b].wallet = w /\ bet[b].placeKey = key}

\* Mutant: a repeated placement reports the balances of now.
ReplayNow(r, b) ==
  LET balance == wallet[betReq[r].wallet].balance
  IN ReplyBet(r, "ok", b, balance + bet[b].amount, balance)

\* A bet this user placed with this key is the answer, with the balances of then.
Replay(r, b) == ReplyBet(r, "ok", b, bet[b].placeBefore, bet[b].placeBefore - bet[b].amount)

PlaceLookup(r) ==
  /\ BetAt(r, "lookup")
  /\ LET placed == PlacedWith(betReq[r].wallet, betReq[r].key)
     IN \/ placed = {} /\ betReq' = [betReq EXCEPT ![r].pc = "place"]
        \/ \E b \in placed : Replay(r, b)
  /\ UNCHANGED <<wallet, ledger, bet, gameResult>>

PlaceInsufficient(r) ==
  /\ BetAt(r, "place")
  /\ ~CanDebit(betReq[r].wallet, betReq[r].amount)
  /\ Refuse(r, "insufficient")
  /\ UNCHANGED <<wallet, ledger, bet, gameResult>>

\* The unique constraints (userId, placeIdempotencyKey) and (walletId, key).
PlaceUnique(r) ==
  /\ PlacedWith(betReq[r].wallet, betReq[r].key) = {}
  /\ ~KeyUsed(betReq[r].wallet, betReq[r].key)

\* Debit and lock the stake, insert the bet, post BET_HOLD under the place key.
PlaceCommit(r) ==
  /\ BetAt(r, "place")
  /\ LET w == betReq[r].wallet
         amount == betReq[r].amount
         before == wallet[w].balance
     IN /\ PlaceUnique(r)
        /\ DebitBalanceInTx(w, amount)
        /\ \E b \in BetIds :
             /\ bet[b] = NoRow
             /\ bet' = [bet EXCEPT ![b] =
                          [status |-> "PENDING", wallet |-> w, amount |-> amount,
                           multiplier |-> betReq[r].multiplier, placeKey |-> betReq[r].key,
                           placeBefore |-> before, nonce |-> NoNonce, payout |-> 0,
                           settleBefore |-> 0, settleAfter |-> 0]]
             /\ Post(w, Entry("BET_HOLD", "DEBIT", amount, before, before - amount,
                              betReq[r].key, b))
             /\ ReplyBet(r, "ok", b, before, before - amount)
  /\ UNCHANGED gameResult

\* P2002: a bet of this user has the key, and is the answer; or only another
\* ledger row has it, and the call fails.
PlaceDuplicate(r) ==
  /\ BetAt(r, "place")
  /\ CanDebit(betReq[r].wallet, betReq[r].amount)
  /\ Fits(wallet[betReq[r].wallet].locked + betReq[r].amount)
  /\ ~PlaceUnique(r)
  /\ LET placed == PlacedWith(betReq[r].wallet, betReq[r].key)
     IN \/ placed = {} /\ Refuse(r, "conflict")
        \/ \E b \in placed : Replay(r, b)
  /\ UNCHANGED <<wallet, ledger, bet, gameResult>>

PlaceOverflow(r) ==
  /\ BetAt(r, "place")
  /\ CanDebit(betReq[r].wallet, betReq[r].amount)
  /\ ~Fits(wallet[betReq[r].wallet].locked + betReq[r].amount)
  /\ Refuse(r, "outOfRange")
  /\ UNCHANGED <<wallet, ledger, bet, gameResult>>

PlaceRestart(r) ==
  /\ BetAt(r, "place")
  /\ Restart(r, "place")
  /\ UNCHANGED <<wallet, ledger, bet, gameResult>>

-----------------------------------------------------------------------------
(***************************************************************************)
(* settleBet                                                               *)
(***************************************************************************)

\* A settlement in progress holds the lock of its bet's row.
BetLocked(b) == \E q \in BetRequests : betReq[q].pc \in {"result", "wallet"} /\ betReq[q].bet = b

\* Mutant: the signature does not cover the bet.
VerifiedAnyBet(r) == \E s \in Signed : s.outcome = betReq[r].result /\ s.nonce = betReq[r].nonce

\* The role of the caller and the Ed25519 signature over bet id, result and nonce.
Verified(r) ==
  \E s \in Signed : /\ s.bet = betReq[r].bet
                    /\ s.outcome = betReq[r].result
                    /\ s.nonce = betReq[r].nonce

\* Mutant: the fraction of a unit is paid too.
PaysRoundedUp(b, result) ==
  IF result = "WON" THEN (bet[b].amount * bet[b].multiplier + Scale - 1) \div Scale ELSE 0

Pays(b, result) ==
  IF result = "WON" THEN (bet[b].amount * bet[b].multiplier) \div Scale ELSE 0

SettleRefused(r) ==
  /\ BetAt(r, "lock")
  /\ ~BetLocked(betReq[r].bet)
  /\ \/ bet[betReq[r].bet].status = "NONE" /\ Refuse(r, "notFound")
     \/ bet[betReq[r].bet].status # "NONE" /\ ~Verified(r) /\ Refuse(r, "forbidden")
  /\ UNCHANGED <<wallet, ledger, bet, gameResult>>

\* The bet is settled: the same decision is answered again, another is refused.
SettleAgain(r) ==
  /\ BetAt(r, "lock")
  /\ ~BetLocked(betReq[r].bet)
  /\ Verified(r)
  /\ LET b == betReq[r].bet
     IN /\ bet[b].status \in Outcomes
        /\ IF bet[b].nonce = betReq[r].nonce
           THEN ReplyBet(r, "ok", b, bet[b].settleBefore, bet[b].settleAfter)
           ELSE Refuse(r, "alreadySettled")
  /\ UNCHANGED <<wallet, ledger, bet, gameResult>>

\* Mutant: the status of the locked bet is not looked at.
SettleLockAny(r) ==
  /\ BetAt(r, "lock")
  /\ ~BetLocked(betReq[r].bet)
  /\ bet[betReq[r].bet].status # "NONE"
  /\ Verified(r)
  /\ betReq' = [betReq EXCEPT ![r].pc = "result",
                        ![r].snapshot = Len(ledger[bet[betReq[r].bet].wallet])]
  /\ UNCHANGED <<wallet, ledger, bet, gameResult>>

\* The snapshot is taken and the row of the pending bet is locked.
SettleLock(r) ==
  /\ BetAt(r, "lock")
  /\ ~BetLocked(betReq[r].bet)
  /\ bet[betReq[r].bet].status = "PENDING"
  /\ Verified(r)
  /\ betReq' = [betReq EXCEPT ![r].pc = "result",
                        ![r].snapshot = Len(ledger[bet[betReq[r].bet].wallet])]
  /\ UNCHANGED <<wallet, ledger, bet, gameResult>>

\* The unique decisionNonce (a pending bet never has a validated result of its
\* own, as ResultIffSettled shows): an insert waits for an open transaction that
\* inserted the same nonce, and fails if a committed row has it.
NonceClaimed(n) == \E q \in BetRequests : betReq[q].pc = "wallet" /\ betReq[q].nonce = n

NonceTaken(n) == \E g \in gameResult : g.nonce = n

SettleResult(r) ==
  /\ BetAt(r, "result")
  /\ ~NonceClaimed(betReq[r].nonce)
  /\ IF NonceTaken(betReq[r].nonce)
     THEN Refuse(r, "replayDetected")
     ELSE betReq' = [betReq EXCEPT ![r].pc = "wallet"]
  /\ UNCHANGED <<wallet, ledger, bet, gameResult>>

\* Serializable: the wallet row was not changed since the snapshot.
SnapshotValid(r) == betReq[r].snapshot = Len(ledger[bet[betReq[r].bet].wallet])

\* The keys of its rows are the engine's, but a caller may have used the same.
SettleKeysFree(r) ==
  LET b == betReq[r].bet
      n == betReq[r].nonce
  IN /\ ~KeyUsed(bet[b].wallet, <<n, "capture">>)
     /\ Pays(b, betReq[r].result) > 0 => ~KeyUsed(bet[b].wallet, <<n, "payout">>)

\* The payout and the credited balance are in range, the locked funds cover the stake.
SettleCovered(r) ==
  LET b == betReq[r].bet
      w == bet[b].wallet
      pays == Pays(b, betReq[r].result)
  IN /\ pays <= BigintMax
     /\ wallet[w].locked >= bet[b].amount
     /\ wallet[w].balance <= BigintMax - pays

\* Capture the stake, pay a winner, finalize the bet, and store the result.
SettleCommit(r) ==
  /\ BetAt(r, "wallet")
  /\ SnapshotValid(r)
  /\ SettleCovered(r)
  /\ SettleKeysFree(r)
  /\ LET b == betReq[r].bet
         w == bet[b].wallet
         n == betReq[r].nonce
         amount == bet[b].amount
         pays == Pays(b, betReq[r].result)
         before == wallet[w].balance
         capture == Entry("BET_CAPTURE", "DEBIT", amount, before, before,
                          <<n, "capture">>, b)
         payout == Entry("BET_PAYOUT", "CREDIT", pays, before, before + pays,
                         <<n, "payout">>, b)
     IN /\ wallet' = [wallet EXCEPT ![w].balance = before + pays, ![w].locked = @ - amount]
        /\ ledger' = [ledger EXCEPT ![w] =
                        @ \o IF pays > 0 THEN <<capture, payout>> ELSE <<capture>>]
        /\ bet' = [bet EXCEPT ![b].status = betReq[r].result, ![b].nonce = n,
                              ![b].payout = pays,
                              ![b].settleBefore = before,
                              ![b].settleAfter = before + pays]
        /\ gameResult' = gameResult \cup
                           {[bet |-> b, outcome |-> betReq[r].result, nonce |-> n]}
        /\ ReplyBet(r, "ok", b, before, before + pays)

SettleAbort(r) ==
  /\ BetAt(r, "wallet")
  /\ SnapshotValid(r)
  /\ ~(SettleCovered(r) /\ SettleKeysFree(r))
  /\ LET b == betReq[r].bet
     IN Refuse(r, IF wallet[bet[b].wallet].locked < bet[b].amount THEN "lockViolated"
                  ELSE IF SettleCovered(r) THEN "replayDetected" ELSE "outOfRange")
  /\ UNCHANGED <<wallet, ledger, bet, gameResult>>

SettleRestart(r) ==
  /\ betReq[r].pc \in {"lock", "result", "wallet"}
  /\ Restart(r, "lock")
  /\ UNCHANGED <<wallet, ledger, bet, gameResult>>

-----------------------------------------------------------------------------

BetsAdjust(w, delta, key) ==
  /\ AdjustWalletBalance(w, delta, key)
  /\ UNCHANGED <<bet, gameResult, betReq>>

\* The steps the server takes for a request it has accepted.
ServeBet(r) ==
  \/ PlaceLookup(r) \/ PlaceInsufficient(r) \/ PlaceOverflow(r)
  \/ PlaceCommit(r) \/ PlaceDuplicate(r) \/ PlaceRestart(r)
  \/ SettleRefused(r) \/ SettleAgain(r) \/ SettleLock(r) \/ SettleResult(r)
  \/ SettleCommit(r) \/ SettleAbort(r) \/ SettleRestart(r)
  \/ ReturnBet(r)

BetsNext ==
  \/ \E r \in BetRequests : SubmitBet(r) \/ ServeBet(r) \/ FailBet(r)
  \/ \E w \in Wallets, delta \in Deltas, key \in Keys : BetsAdjust(w, delta, key)

BetsSpec == BetsInit /\ [][BetsNext]_betsVars

-----------------------------------------------------------------------------
(***************************************************************************)
(* Properties.                                                             *)
(***************************************************************************)

BetRows ==
  [status : {"NONE", "PENDING"} \cup Outcomes, wallet : Wallets \cup {NoWallet},
   amount : 0..BigintMax, multiplier : Nat, placeKey : Keys \cup {NoKey},
   placeBefore : 0..BigintMax, nonce : Nonces \cup {NoNonce},
   payout : 0..BigintMax, settleBefore : 0..BigintMax, settleAfter : 0..BigintMax]

Answers == {"none", "ok", "insufficient", "outOfRange", "conflict", "txConflict",
            "notFound", "forbidden", "alreadySettled", "replayDetected", "lockViolated"}

PlaceCalls ==
  [pc : {"lookup", "place", "done"}, op : {"PLACE"}, wallet : Wallets, key : Keys,
   amount : Amounts, multiplier : Multipliers, bet : BetIds \cup {NoBet},
   attempt : 1..MaxAttempts, outcome : Answers, before : Nat, after : Nat]

SettleCalls ==
  [pc : {"lock", "result", "wallet", "done"}, op : {"SETTLE"}, result : Outcomes,
   nonce : Nonces, bet : BetIds, snapshot : Nat, attempt : 1..MaxAttempts,
   outcome : Answers, before : Nat, after : Nat]

\* Types: balances, locked funds and payouts stay in the range of their columns.
BetsTypeOK ==
  /\ wallet \in [Wallets -> WalletRows]
  /\ ledger \in [Wallets -> Seq(LedgerRows)]
  /\ bet \in [BetIds -> BetRows]
  /\ gameResult \subseteq Results
  /\ betReq \in [BetRequests -> {Idle} \cup PlaceCalls \cup SettleCalls]

Units(b) ==
  IF bet[b].status = "PENDING" THEN {b} \X (1..bet[b].amount) ELSE {}

PendingUnits(w) == UNION {Units(b) : b \in {x \in BetIds : bet[x].wallet = w}}

\* The locked funds of a wallet are exactly the stakes of its pending bets.
LockedMatchesPending ==
  \A w \in Wallets : wallet[w].locked = Cardinality(PendingUnits(w))

\* No overlap of placements, settlements and restarts loses or doubles a stake:
\* the locked funds are those of the pending bets, the balances stay in their
\* columns' range, and the ledger explains every balance by one posting per key.
MoneyAddsUp == BetsTypeOK /\ LockedMatchesPending /\ LedgerContinuity

\* A player's place key makes one bet, however often and however concurrently
\* the placement is sent.
PlacedOnce ==
  \A b, c \in BetIds :
    (/\ bet[b].status # "NONE"
     /\ bet[b].wallet = bet[c].wallet
     /\ bet[b].placeKey = bet[c].placeKey) => b = c

\* A bet has a validated result exactly when it is settled, the result is the
\* one it was settled with, the game engine signed it for this bet, and no
\* decision nonce settled two bets.
ResultIffSettled ==
  /\ \A b \in BetIds :
       {g \in gameResult : g.bet = b} =
         IF bet[b].status \in Outcomes
         THEN {[bet |-> b, outcome |-> bet[b].status, nonce |-> bet[b].nonce]}
         ELSE {}
  /\ gameResult \subseteq Signed
  /\ \A g, h \in gameResult : g.nonce = h.nonce => g = h

\* "One capture and one payout": the ledger shows one hold of every bet and,
\* exactly when it is settled, one capture of the whole stake and one payout of
\* floor(stake * multiplier) if it was won and that is positive.
SettledOnce ==
  \A b \in BetIds :
    bet[b].status # "NONE" =>
      LET rows == ledger[bet[b].wallet]
          Posted(reason) == {i \in DOMAIN rows : rows[i].ref = b /\ rows[i].reason = reason}
          settled == bet[b].status \in Outcomes
          pays == IF settled THEN Pays(b, bet[b].status) ELSE 0
          Sums(reason, n, amount) ==
            /\ Cardinality(Posted(reason)) = n
            /\ \A i \in Posted(reason) : rows[i].amount = amount
      IN /\ Sums("BET_HOLD", 1, bet[b].amount)
         /\ Sums("BET_CAPTURE", IF settled THEN 1 ELSE 0, bet[b].amount)
         /\ Sums("BET_PAYOUT", IF pays > 0 THEN 1 ELSE 0, pays)
         /\ bet[b].payout = pays

\* However often and concurrently a placement and the two results of a bet are
\* sent, one bet is made, one result settles it, one capture and one payout are
\* posted, and no decision nonce serves twice.
BetsSettleOnce == PlacedOnce /\ ResultIffSettled /\ SettledOnce

\* All successful answers about a bet agree: a placement reports the bet its
\* player and key made, a settlement (first, repeated or retried) the status,
\* payout and balances of the one transaction that settled it.
AnswersAgree ==
  \A r \in BetRequests :
    betReq[r].pc = "done" =>
      /\ betReq[r].outcome # "lockViolated"
      /\ betReq[r].outcome = "ok" =>
           LET b == betReq[r].bet
           IN /\ b \in BetIds
              /\ IF betReq[r].op = "PLACE"
                 THEN /\ bet[b].wallet = betReq[r].wallet /\ bet[b].placeKey = betReq[r].key
                      /\ betReq[r].before = bet[b].placeBefore
                      /\ betReq[r].after = betReq[r].before - bet[b].amount
                 ELSE /\ bet[b].status \in Outcomes /\ bet[b].nonce = betReq[r].nonce
                      /\ betReq[r].before = bet[b].settleBefore
                      /\ betReq[r].after = betReq[r].before + bet[b].payout

\* A step settles only a pending bet and never changes a settled one, nor the
\* stake, the multiplier or the owner of a placed one.
SettledIsFinal ==
  [][\A b \in BetIds :
       LET old == bet[b]
           new == bet'[b]
       IN /\ old.status \in Outcomes => new = old
          /\ old.status = "PENDING" =>
               /\ new.status # "NONE"
               /\ <<new.amount, new.multiplier, new.wallet>> =
                    <<old.amount, old.multiplier, old.wallet>>
          /\ old.status = "NONE" => new.status \in {"NONE", "PENDING"}]_betsVars

\* The funds of a player and the rows of bets, as PlacedBets sees them.
PlayerFunds ==
  [w \in Wallets |-> [available |-> wallet[w].balance, locked |-> wallet[w].locked]]

PlacedRows ==
  [b \in BetIds |-> [status |-> bet[b].status, account |-> bet[b].wallet,
                     stake |-> bet[b].amount, multiplier |-> bet[b].multiplier]]

\* floor(stake * multiplier)
FlooredPrize == [stake \in Amounts |-> [m \in Multipliers |-> (stake * m) \div Scale]]

Placed == INSTANCE PlacedBets WITH Accounts <- Wallets, Bets <- BetIds,
                                   NoAccount <- NoWallet, Stakes <- Amounts,
                                   Prize <- FlooredPrize, MaxFunds <- BigintMax,
                                   funds <- PlayerFunds, placed <- PlacedRows

\* The bets module implements PlacedBets: whatever placements and settlements
\* overlap, are retried, repeated or lost, a bet takes its stake once and pays
\* once what its stake and multiplier said when it was placed.
ImplementsPlacedBets == Placed!Spec
=============================================================================
