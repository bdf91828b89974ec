# Verification of the casino backend

TLA+ models, model-checking runs and machine-checked proofs for the money-moving core of
`src/casino-crypto-backend`, the TypeScript program of this repository: a wallet and betting
server on Fastify, Prisma, PostgreSQL and Redis. Paths below are relative to
`src/casino-crypto-backend/src/` unless they say otherwise.

Contents: [the system](#1-the-system), [plan](#2-plan), [modules and code](#3-modules-and-the-code-they-model),
[modelling decisions](#4-modelling-decisions), [runs](#5-what-the-runs-check),
[fairness](#6-fairness), [proofs](#7-what-is-proved), [findings](#8-where-code-and-documentation-disagree),
[limits](#9-what-is-not-covered).

## 1. The system

Every user owns one wallet row per currency. A wallet has spendable funds (`balanceAtomic`) and
locked funds (`lockedAtomic`), both BIGINT columns with a `CHECK (... >= 0)`, and an append-only
ledger (`wallet_transactions`) with the balance before and after each posting and a unique
(wallet, idempotency key). Games move stakes from the balance to the locked funds, and later
return or spend them. Several replicas of the server run against one database; every request is a
Node coroutine that interleaves with all others at each `await`, and every transaction is an
interactive PostgreSQL transaction, READ COMMITTED unless it asks for SERIALIZABLE.

| Component | State it keeps | Operations | Interacts with | Hard behaviours | What makes it correct |
|---|---|---|---|---|---|
| Wallets and ledger (`modules/wallets/service.ts`, `modules/ledger/service.ts`) | wallet rows, ledger rows, withdrawal wager requirement | create, debit a stake, adjust | called by every game and by the cashier | concurrent read-modify-write of one row, repeated keys, column range | balances never negative; the ledger is an unbroken chain that ends at the balance; a key posts once |
| Bet reservations (`modules/wallets/bet-reservation.service.ts`) | `bet_reservations` | hold, release, capture | battles, blackjack, roulette, admin routes, internal API | unlocked read before the transaction, two finalizers of one row, lost answers and retries | locked funds = held stakes; a stake is returned or spent, once; finality; true answers; no starvation |
| Bets (`modules/bets/service.ts`) | `bets`, `game_results` | place, settle with a signed result | game engine (external), wallets | SERIALIZABLE aborts and restarts, repeated nonces, concurrent settlements, rounding | one bet per key, one capture and one payout per bet, one result per nonce |
| Integrity audit (`scripts/integrity-audit.ts`) | none; reads all tables | one run | everything that posts to a ledger | reads that are not one snapshot, rules that must agree with what services post | no false alarm, no missed damage |
| Roulette (`modules/roulette`) | rounds, bets, their reservations | place, close, spin, settle, open, read current | reservations, wallets, admin routes | several workers, SKIP LOCKED, stale clock, round numbers read then inserted | rounds go forward, totals add up, nobody bets in a closed round, every round settles |
| Mines (`modules/mines`) | seeds, games, reveals | start, reveal, cash out, rotate seeds | wallets, reservations | seed revealed while a game starts; reveal against cashout | no board is played twice, one end per game, the wallet is what the games left |
| Blackjack (`modules/blackjack`) | games, hands | start, hit, stand, double, split, insure | wallets, reservations | stakes that grow inside a game, two starts at once, an action sent twice | the stake is captured once and paid by the cards, every card is dealt once, a game can always go on |
| Cases (`modules/cases`) | cases, items, openings | open; edit and switch off a case | wallets, the seeds and nonces of Mines | a case read before the transaction that an administrator edits | no nonce is used twice, an opening takes one price and pays one item |
| Battles (`modules/battles`) | battles, slots, drops | create, join, bots, settle | reservations | chains of transactions undone by hand, bot against joiner, several settlements | stakes are captured or released, no seat is paid twice to a player, a full battle settles |
| Cashier (`modules/cashier`) | deposits, withdrawals | withdraw, payment and payout webhooks | payment provider (external), promotions | partial failure, lost answers, duplicate and reordered webhooks | a withdrawal is paid once, from money debited and not returned; a payment is credited once, and in the end |
| Vault (`modules/vault`) | vault balance, lock | deposit, withdraw | wallets | crash between debit and credit, locks renewed | no deposit shortens a lock |
| Tips and rain (`modules/chat-tips-rain`) | tips, rain rounds | tip, join, rain tip, settle | wallets | two wallets locked in caller order, many settlers of a round | tips arrive once, a pot is not overspent, no deadlock lasts |
| Promotions (`modules/promotions`) | codes, redemptions, wager requirement, bonus | redeem, bonus of a deposit, consume | wallets, cashier | use limits under concurrency | a code pays each user once and no more users than its limit |
| Affiliates (`modules/affiliates`) | commissions | accrue, claim | bets, wallets | accrual while claiming | each commission is claimable or claimed, and what is claimed is paid once |
| Sessions and 2FA (`modules/auth`, `modules/security-2fa`) | refresh tokens, secrets | login, refresh, revoke | - | two refreshes of one token | the token stored last is the one that refreshes |
| Access guard, progression, pricing, anchor, HTTP wiring, user and admin routes | small tables or none | reads, single-row updates | all of the above | - | - |

The repository also carries the C# tree it was forked from (`src/ArchiSteamFarm`), which the
backend neither calls nor shares state with, and React front ends and assets, which only present
what the backend returns. `PROJECT.json` lists every component with its status, and every hazard
at its line with the properties that would catch it.

## 2. Plan

Order: what all money passes through first, then its clients by how much they interleave.

| # | Modules | Abstract specification or composition | Status |
|---|---|---|---|
| 1 | `Ledgers`, `WalletLedger`, `BetReservations` | implements `HeldFunds` | done, with proofs |
| 2 | `Stakes`, `CasinoBets` | implements `PlacedBets`; composed with 1 in `CasinoWallets` | done, with proofs |
| 3 | `IntegrityAudit` | runs beside `CasinoWallets` | done, with proofs |
| 4 | `RouletteRules`, `RouletteRounds` | on `WalletLedger` | done, with proofs |
| 5 | `Mines`, `Cases` | share one player's wallet, keys and nonces | done, with proofs |
| 6 | `Cashier` with `Promotions` | provider external | done, with proofs |
| 7 | `WalletLocks`, `Tips`, `Rain`, `Vault`, `Affiliates`, `Promotions` | composed in `Transfers` | done, with proofs |
| 8 | `Battles` | on the abstract `HeldFunds` | done, with proofs |
| 9 | `Blackjack` | - | done, with proofs |
| 10 | `Ledgers_proofs`, `CasinoWallets_proofs` part 1 | lemmas on ledgers and sums for every client; the bets module proved | done |
| 11 | `Cashier_proofs` | withdrawals, payments and their ledger | done |
| 12 | `RouletteRounds_proofs`, `Blackjack_proofs`, the rest of `BetReservations_proofs` | every safety property of these | done |
| 13 | `Games_proofs` | Mines and Cases together; battles | done |
| 14 | `Transfers_proofs` | every safety property of tips, rain, vault, commissions and codes | done |
| 15 | `CasinoWallets_proofs` parts 2 and 3 | both clients together, each keeping its abstract specification beside the other; the audit on them | done |
| 16 | `Sessions` | - | planned, not about money |

One run per group of components that meet at the same rows, with safety and, where the instance
allows, liveness and refinement together; one run for the statement of the documentation that the
code turns out to break. Theorems in the order of what the money rests on: reservations, their
abstract specification, bets, then the games. No module declares a RECURSIVE operator, so each can be
proved about.

## 3. Modules and the code they model

`PROJECT.json` maps every definition to its lines. In short:

**`Ledgers`** says what an unbroken ledger is (`ChainFrom`, `KeysDistinct`) and what a sum is: `Total(amount, rows)`
is the number of pieces of all rows, one piece for each unit of an amount. **`WalletLedger`** is the part the
clients of the wallet service extend: `wallet[w]` is a wallet row (`balance`, `locked`, and
the outstanding wager requirement of its owner), `ledger[w]` its rows in `chainIndex` order.
`DebitBalanceInTx` is `debitBalanceInTx` with `consumeWithdrawWagerRequirementInTx` inside;
`AdjustWalletBalance` is `adjustWalletBalance`; `Fits` is the range check of the columns; `KeyUsed` is
the unique constraint on keys. **`Stakes`** has what the two clients that hold stakes share: amounts, references, the
shape of their ledger rows and `LedgerContinuity`.

**`BetReservations`** is `holdFundsForBet`, `releaseHeldFunds` and `captureHeldFunds`. `reservation` has one
row per (wallet, reference); `holdReq[r]` is a running call and the point it has reached; `rowLock` is
the transaction that has updated a reservation row and not yet committed. `HoldLookup` and
`FinalizeLookup` are the reads before the transaction, `FinalizeClaim`/`FinalizeLate` the conditional
`updateMany` (count 1 / count 0), `HoldCommit`, `ReleaseCommit` and `CaptureCommit` the rest of each
transaction, `HoldConflict` and `HoldReread` the catch block for P2002, `FinalizeAbort` a rollback,
`FailHold` a call that dies anywhere.

**`HeldFunds`** is what that service promises, without calls, keys, locks or a ledger: an account has
available and locked funds, a stake of a reference is set aside once and returned or spent once.

**`CasinoBets`** is `placeBet` and `settleBet`. A settlement goes through three points at which others may
run: it locks the bet row (`SettleLock`), inserts the result (`SettleResult`, which waits for an
open transaction that inserted the same nonce), and updates wallet, ledger and bet (`SettleCommit`).
`snapshot` is the length of the wallet's ledger when the SERIALIZABLE transaction started: if it
has grown, the wallet row has a newer version and the transaction is aborted and restarted, at most
`MaxAttempts` times. `Signed` is the set of results the game engine has signed. **`PlacedBets`** is what the module
promises: a bet takes its stake and fixes its terms once, and is won for the prize of those terms or lost, once;
`ImplementsPlacedBets` maps the columns of a bet row to it.

**`CasinoWallets`** runs both services on the same wallets: it extends both, which share `wallet` and `ledger`,
and have tables and calls of their own (`reservation`, `rowLock`, `holdReq`; `bet`, `gameResult`, `betReq`).
`HeldFundsBesideBets` and `PlacedBetsBesideHolds` are the two abstract specifications again, stated of the
composition; `PromisesKept` is both. **`IntegrityAudit`** extends it with one run of the audit script, one step per statement it
sends; its checks are operators over the rows read.

**`RouletteRules`** is `rules.ts`. **`RouletteRounds`** is `service.ts` of roulette for one currency: `worker[p]` is the
phase of a replica's tick (`CloseRoundOnce`, `StartSpinningRoundOnce`, `SettleRound`, then the
statements of `ensureOpenRounds`) or of a call of `getCurrentRouletteRound` it serves, which runs
`ensureOpenRounds` too; `req[r]` is a placement
(`PlaceLookup` ... `PlaceCommit`); `AdminRelease` and `AdminCapture` are the reservation service as the
admin routes reach it.

**`WalletLocks`** is the shared part of the calls that lock several rows or run several transactions:
`walletLock[w]` is who holds a wallet row, `req[r]` a running call with the time it started, `DeadlockVictim`
PostgreSQL's choice among transactions that wait for each other. On it stand **`Tips`** (`sendTip`),
**`Rain`** (`RainCall`: look at, join or tip a round, each settling the round before from a snapshot),
**`Vault`** (`depositToVault` and `withdrawFromVault`, each two transactions) and **`Affiliates`** (commissions
that accrue, claims that sum, pay and mark them). **`Promotions`** has promo codes, the deposit bonus and the
wager requirement. **`Transfers`** runs them all on the same wallets.

**`Cashier`** is `createWithdrawal` statement by statement (`CheckWager`, `Lookup`, `Create`, `Debit`, `Approve`,
`RequestPayout`, `StoreTrack`, and `Revert`/`MarkFailed` when the payout request fails) and the two webhooks
(`FindDeposit`, `WriteDeposit`, `CreditDeposit`, `CompleteDeposit`; `PayoutWebhook`). `payouts` counts what the
provider, which is external, accepted; `Fail` is a process that dies between two statements. `PlaceStake` is a posting of another service, a bet held
under a key its caller chose, which may be that of a withdrawal's debit or refund.

**`Battles`** is `createBattle`, `joinBattle`, the bot calls and the settlement, with the compensations they
run when a later transaction fails (`ReopenSeat`, `ReleaseStake`, `DeleteBattle`). A settlement commits
(`SettleCommit`) or throws and is rolled back (`SettleAborts`, which `aborted` remembers). The module stands on the promise
`HeldFunds` of the reservation service, which `BetReservations` is proved to keep.

**`Mines`** is `startMinesGame`, `revealMinesCell`, `cashoutMinesGame` and the rotation of the server seed.
**`Cases`** extends it with `openCase` on the same wallet, keys and seed, beside the administrator's edits.
**`Blackjack`** is `startBlackjackGame` and every action of a game, with the rules of the cards: `Dealt` the deal,
`Start` its transaction, one action per decision (`Insure`, `Hit`, `Double`, ...), `Proceed` the search for the next
hand, `Finish` the settlement. A draw from an exhausted deck throws (`CardsLeft`, `DealerStops`).

The `*_proofs` modules hold the theorems of the module they are named after, `CasinoWallets_proofs` also those of
`CasinoBets` and `IntegrityAudit`, `Games_proofs` those of `Battles` and of
`Mines` and `Cases` (the names of `Battles` are its own so that one module can extend all three), `Ledgers_proofs`
the lemmas about ledgers and sums the others cite (section 7). `MC*` modules only give the sets of a run and their
symmetry.

## 4. Modelling decisions

- **Atomicity.** A transaction that posts to a ledger locks the wallet row first and keeps it until
  the commit, so "lock the wallet ... commit" is one step. Everything before that lock (reads outside
  the transaction, the claim of a reservation row, the lock of a bet row, the insert of a result, the
  update of a roulette round) is a step of its own, because other requests run in between.
- **Failure.** `Fail(r)` (`FailHold`, `FailBet`) ends a request anywhere without an answer: access guard, database error,
  serialization failure that surfaces in a form the code does not retry, or crash. Its transaction
  rolls back. A client that retries is another request with the same arguments.
- **Writes nobody reads** (outbox rows, audit queue events, websocket messages) are left out.
- **Numbers.** `BigintMax` stands for 2^63-1 and is small enough that overflow happens. Multipliers
  count units of 1/`Scale`, so payouts round down as in the code. Payout of roulette is
  stake x 2 or x 14.
- **Time** in roulette is, for each round, how many of its two deadlines have passed; betsCloseAt and
  spinStartsAt are the same instant (`ROUND_CLOSE_TO_SPIN_MS` = 0) and deadlines of different rounds
  pass in creation order. The pause after a result is a flag. A tick reads `now` once: a
  transition it misses for that is one of an earlier tick.
- **Calls between modules.** In `RouletteRounds` a settlement is one step, since it locks all it changes,
  and so are calls of the reservation service, whose interleavings `BetReservations` covers; a settlement
  that read a reservation just before it changed only fails, as `TickFails` does.
- **Chance** is a choice: the board of Mines is any set of that many cells, the item of a case any active
  one, the winners of a battle any the mode allows, a deck any of the given ones. That a seed and a nonce
  decide the outcome is kept as a row that names both, so that playing one twice would show.
- **Keys the server makes** are tuples (`<<nonce, "capture">>`, `<<"tip", from, to, now>>`) among the callers'
  keys. A caller's Idempotency-Key may have the form of a settlement's key (`core/idempotency.ts:5` admits it):
  the settlement with that nonce is then refused as a replay and the bet waits for another signed result
  (`SettleKeysFree`; `bets_safety` has such a key). In `RouletteRounds` a settlement whose key
  `roulette:<round>:<bet>:payout` is taken throws (`Settleable`); the theorems allow it, the keys of the
  roulette runs are not of that form. A withdrawal's debit and refund are posted under `<key>:withdraw-debit` and
  `<key>:withdraw-revert` (`modules/cashier/service.ts:493`, `:550`), and `adjustWalletBalance` answers a key that is there
  with its row, whatever the row is (`modules/ledger/service.ts:49`); other services post callers' keys as they are
  (`modules/roulette/service.ts:1350`). `Cashier` has such postings, of all keys in `OtherKeys` (`PlaceStake`): the run has
  them for both keys, the theorems for any. The payout key of a battle that is taken is one of the reasons of
  `SettleAborts`. Left out, that is, assumed free: the deposit's credit key `oxapay:deposit:...:credit`
  (`modules/cashier/service.ts:745`), whose owner alone can take it and loses his own deposit by it; the hold, capture
  and release keys of battles; the capture and payout keys of Blackjack (section 8 says what happens if they are not).
- **References and bet ids.** Both clients of `CasinoWallets` write the id of a stake into `referenceId`. The games
  prefix theirs (`battle:...`) and the ids of bets are generated, so they never meet; the administrators' hold route
  takes any reference and is assumed not to be given the id of a bet (`OwnReferences`).
- **Failures and assumptions of the cashier.** A statement that fails did not commit; the provider names a
  payment by its track id and transaction hash. In `Battles` the statements between a held stake and its
  capture fail, and a settlement; a process that dies is left out. What other postings do to a player's wallet
  is not followed there: `funds` are what the battle's calls make of them.
- **Unreachable code.** The branch of `settleBet` for a pending bet with a validated result is left
  out: `ResultIffSettled` shows no such bet exists.
- **Bounds** are the constants: `Keys` (every posting needs a fresh key, so it bounds the ledger),
  `Bets`/`BetIds`/`Games`, `Requests`, `MaxAttempts` (4 in the code, 1 or 2 in the runs), `MaxRounds`, `MaxCalls`,
  `MaxClock`, `MaxFailures`, `MaxStakes` (bets of other services in a wallet of the cashier), `Seeds`, `Editions`, `IdLeft` (a roulette placement is accepted while a row id is left
  for it). The loop limits of the roulette worker (20, 20 and 10 rounds a tick) are never reached with
  two rounds. A behaviour that has used up its calls, games or seeds stops, which is why those runs do not
  check deadlock.

## 5. What the runs check

All runs but the last pass. States are distinct states, after symmetry where the run has it.

| Run | Instance | Shows |
|---|---|---|
| `reservations` | 1 wallet, 2 references, 3 keys, 2 requests, stakes of 1, maximum 2, fair (313 k) | types; locked funds are the held stakes; ledger chain; the ledger tells the life of every reservation and the answers of release and capture agree with it; final reservations stay; the service implements `HeldFunds`; every request is answered, whatever locks it meets |
| `bets_safety` | 2 bets, 2 nonces, 3 keys of which one is a settlement's, 2 requests, 2 attempts, multiplier 1/2 (2.0 M) | locked funds, ledger chain, one bet per key, one result per settled bet and nonce, one capture and one payout of the right amount, answers that agree with each other, finality; the module implements `PlacedBets` |
| `audit` | the reservation service and the bets module on one wallet, one call of each, 3 keys, one audit (560 k) | the two clients together keep locked funds, stakes and answers right, and each keeps its abstract specification beside the other; at rest the audit reports nothing but captures, and every capture; beside traffic, the checks that read one table raise no false alarm |
| `roulette_bets` | 1 round, 2 bets, 2 requests, 1 replica, 3 keys (680 k) | types, totals, locked funds, ledger per bet, with overlapping placements and an administrator |
| `roulette_replicas` | 2 rounds, 1 bet, 2 replicas (318 k) | the order of rounds when two workers, or a worker and a read of the current round, close, spin, settle and open rounds |
| `roulette_live` | 2 rounds, 1 bet, nothing released, fair (51 k) | every open round is settled |
| `cashier` | 1 wallet, 1 key, 1 payment, 2 handlers at once, 1 death, 1 bet of another service under the debit's or the refund's key, fair (1.1 M) | a withdrawal is paid at most once, and from money debited unless another posting has the debit's key; its row says what the ledger did, with the same exception; a payment and its bonus are credited once, a credited deposit stays so, a confirmed payment is credited in the end |
| `transfers` | 2 wallets, 2 calls of any kind, 2 referrals, 1 promo code, fair (126 k) | one ledger chain per wallet under tips, rains, vault, claims and codes; tips and rains pay once and within the pot; claims pay what they claim, less commissions they reset without having summed them; codes pay once; no deposit shortens a lock of a vault with money in it; no deadlock lasts |
| `battles` | 3 seats, 3 users, 2 requests, 1 failure, fair (378 k) | funds are the start less captured stakes plus payouts; no seat is paid to a player twice; no stake is left held, a seat of a settled battle is paid for; a full battle is settled, unless a settlement of it was rolled back |
| `mines_and_cases` | 2 games, 3 seeds, 3 cells, 2 keys, 2 requests, 2 editions of the case (711 k) | no board is played and no nonce opened twice; the balance is what games and openings left; a game that is over stays so |
| `blackjack` | 2 games, 3 keys, 2 requests, 6 decks (81 k) | the wallet is what the games left; every card is dealt once; an active game has a move; one capture of the grown stake and one payout by the cards |
| `claim_rounds_settle` | 1 round, 1 bet an administrator may release, fair | section 8 |

Why the bounds are enough: every hazard listed for these components involves two requests (or two
workers, or one of each) on one row; two requests overlap at every pair of their steps, and a third
is served from the state the first two leave. Two references, bets or games let a request act on another
row of the same wallet; a maximum of 2 or 3 with stakes of 1 or 2 reaches an empty balance, an exact
one, and overflow of each column but the locked funds of a hold, whose refusal only the proofs cover; two or
three keys allow an adjustment, a hold and its end with and without a repeated key. Only tips, rains and the audit's
checks over all ledgers touch two wallets, so one is enough elsewhere; captures of two wallets under one
reference, which the audit takes for a duplicate, are covered by its proofs, for any number of wallets. Two rounds are what a stale round number needs, two referrals what a
claim between an accrual and another needs, three seats what a battle needs to be joined twice before it is
full. The wheel is cut to {0, 1} (green and red: a bet on red loses and wins), since payouts depend on
the number by its colour only; `roulette_bets` draws 0, where of a red and a green bet one loses and the
other is paid fourteen times its stake. The decks of `blackjack` are one for each case of the rules:
naturals of either side, an ace with and without a ten below, pairs, aces to split, a 21+3, busts.

Each property has at least one mutant of the model, a plausible bug in the code, that violates it
under the same configuration (`PROJECT.json`, "mutants"; the mutated forms stand in the modules, each
before the definition it replaces, marked "Mutant").

## 6. Fairness

`SF(Serve(r))` (`ServeHold(r)` of the reservations) for every request: the server runs accepted requests to their end, and PostgreSQL
queues the waiters of a row lock, so a request whose next step becomes possible again and again is
eventually served. Weak fairness would not do for a wait on a lock others take and release. `Submit`,
`Fail` and `Adjust` are never forced: clients need not call, and nothing need fail.

Roulette adds: deadlines pass (WF), the interval timer of a replica keeps firing although the replica
also serves reads (SF of `Tick`), and a phase of the tick that is reached again and again is not cut
short by a failure for ever (SF of each phase). Nothing forces a read.

`Battles` and the handlers of `Cashier` need weak fairness only: no step of theirs waits for a lock.
`Cashier` adds that the provider sends the confirmation of a payment again until it is answered (SF of its
delivery, since the handler that would take it may be busy). `Transfers` has weak fairness of the steps of a
call and of `DeadlockVictim`: PostgreSQL looks for deadlocks, and a transaction that only waits is not forced.
`MaxCalls` bounds what can take a lock again and again there, so weak fairness is enough.

## 7. What is proved

Eight modules, for all values of the constants the assumptions admit. The assumptions are those named in the
modules: maxima, prices and stakes are positive numbers that fit the column, references, bets, seats and games
are finitely many, null values are no requests, keys, wallets or references, the ids of bets are no references of reservations, signed results are results, every
payment has a wallet, promo codes and deposits, rows of different tables, have different ids, and a deck has four
different cards or more. The base amount of a rain (`RainBase`: five coins, in units of 10^-8) is no smaller than
the number of users, so a share rounded down is at least one unit.

| Theorem | States |
|---|---|
| `BetReservations_proofs`: `TypeCorrect`, `HoldsInvariance` | `HoldsSpec => []HoldsTypeOK`, `HoldsSpec => []HoldsInv` |
| `LockedFundsExact`, `LedgerUnbroken` | the locked funds are the held stakes; ledgers are chains with distinct keys |
| `FinalIsFinal` | no step reopens, flips or resizes a reservation |
| `AnswersAndLedgerAgree` | the ledger tells the life of every reservation, and all answers agree with it for good |
| `Implementation` | `HoldsSpec => ImplementsHeldFunds` |
| `CasinoWallets_proofs`: `BetsInvariance` | `BetsSpec => []BetsInv` |
| `MoneyAlwaysAddsUp` | types, locked funds and ledgers of the bets module |
| `BetsAlwaysSettleOnce` | one bet per key, one result per bet and nonce, one hold, one capture and at most one payout |
| `AnswersAlwaysAgree`, `SettledStaysFinal` | repeated answers agree; a settled bet never changes |
| `BetsImplementation` | `BetsSpec => ImplementsPlacedBets` |
| `CasinoWallets_proofs`: `StakesAlwaysAddUp` | with both clients at work, the locked funds are the stakes of both, ledgers are chains, every stake is posted and settled once, and no answer is made untrue |
| `StakesStayFinal` | neither client changes what is final |
| `PromiseKeptBesideBets`, `PromiseKeptBesideHolds`, `BothPromisesKept` | each client implements its abstract specification beside the other |
| `QuietAuditAlwaysClean`, `LiveAuditAlwaysReliable` | what the audit reports at rest, exactly; which of its checks raise no false alarm beside requests |
| `AuditOnlyReads`, `AuditedStakesAddUp` | the audit disturbs nothing: the theorems about the wallets hold while it runs |
| `Games_proofs`: `Invariance`, `BoardsAreDistinct`, `OverStaysOver` | no board is played twice; a game that is over stays so |
| `GamesAlwaysAddUp` | the balance is what boards and openings left of it; draws and keys are never shared |
| `Cashier_proofs`: `Invariance` | `Spec => []IInv` |
| `OnePayoutHolds`, `WithdrawalAccountedHolds` | whichever keys other services use: a withdrawal is paid out once, and from money taken unless another posting has the key of its debit; its row, debit and refund agree where no other posting has their keys |
| `DepositsAddUpHolds`, `CreditedStaysHolds` | a payment is credited once, its bonus once and after it; a credited deposit stays so |
| `RouletteRounds_proofs`: `TotalsMatchBets`, `StakesLocked` | totals of rounds are those of their bets; locked funds are the stakes still held |
| `RouletteRounds_proofs`: `LedgersTell` | the ledger is an unbroken chain with distinct keys, and tells of every bet once that it was placed, how its reservation ended and that it won |
| `RoundsForward` | no replica makes a round skip, repeat or undo a state, and no bet joins a closed round |
| `Games_proofs`: `SeatsPaidOnce` | however many settlements of a battle run, no player is paid twice for a seat |
| `StakesAlwaysSettled`, `FundsAlwaysAddUp` | when calls are over every stake was spent or given back; funds are the start less stakes plus payouts |
| `Blackjack_proofs`: `FundsAlwaysAddUp`, `NoCardTwice` | the wallet is what the games left of it; no card is on the table twice |
| `GamesGoOn`, `GamesSettledOnce` | a running game has a hand to play and its stake; a game that is over is captured and paid once, by the rules |
| `Transfers_proofs`: `Disciplined`, `ContinuousLedgers` | the row locks are kept; ledgers are chains with distinct keys that end in the balance |
| `PaidOutOnce` | a tip arrives whole and once; a rain pays a participant once, and no more than its pot |
| `RewardsPaidOnce` | a commission is claimable or claimed, never both; claims pay exactly what they mark claimed, less what came to a referral that held nothing between their SELECT and UPDATE; a code pays a user once, and no more users than its limit |
| `LocksLast` | an active lock of a vault that is not overdrawn is only replaced by one that lasts at least as long |

**Reservations.** `HoldsTypeOK` alone is not inductive: a release subtracts the stake it read before its
transaction from the locked funds, and only the claim of the row says that the stake still is what
the row holds. So the inductive invariant is
`HoldsInv == HoldsTypeOK /\ ClaimsHeld /\ LockedMatchesHeld`:
`ClaimsHeld` says that a request past its claim holds the row's lock and that a row it locks is
still HELD with the amount it read. Locked funds are counted without a recursive sum: `HeldUnits(w)` is
a set with one element for each unit of each held stake, and `LockedMatchesHeld` says the locked funds are
its cardinality. A hold adds a disjoint set of that size, a release or capture removes one
(lemma `UnitsMove`), and the theorems on finite sets do the rest; that is why `Refs` must be finite.
`LedgerUnbroken` needs only types, and rests on `ChainAppend` of `Ledgers_proofs`: a row that starts
from the current balance, with a fresh key, continues a chain. `FinalIsFinal` follows from `HoldsInv`: the actions
that write a reservation do so to a missing row or to the one they claimed, which is HELD.

`Implementation` maps the balance of a wallet to available funds and the status and stake of a reservation
to a stake, and hides the rest. The three commits and `AdjustWalletBalance` are the four actions of `HeldFunds`
(`RefinesStep`); every other step moves neither a wallet nor a reservation and is a stutter. A release or
capture is one only because of `ClaimsHeld`: the stake it moves is still HELD. A hold is one only
because its stake is positive, which needs one more invariant, `StakesAsked`: the stake of a running
hold is one its caller asked for.

`AnswersMatchLedger` is `LedgerContinuity`, `PostedOnce` (what the rows of a wallet say of one reference) and
`FinalizeAnswersTrue`.
`PostedOnce` is inductive beside `HoldsInv`: a row without a reference (`NoRef`, which is no member of `Refs`) tells
nothing, and a commit finds its reservation missing or still HELD, so the row it posts is the first of its kind.
An answer stays true because the row it is about was final when it was given, and final rows do not change.
`lockViolated` is never answered, since a held stake is part of the locked funds (`LockCoversHeld`).

**Bets.** The inductive invariant has nine parts, each there for a step that would break without it.
`RowsShaped`: a placed bet has a wallet and a stake the balance covered, a settled one says what it paid; the
answer to a repeated placement computes the balance after from these columns. `ClaimsPending`: a settlement past
its lock of the bet is the only one of that bet, which is pending and for which the engine signed its result,
and one past its insert is the only one with its nonce, which no stored result has; without it two settlements
could both capture. `LockedMatchesPending` counts units as above, and is why `lockViolated` is never answered
(`StakeLocked`: the stake of a pending bet is part of the locked funds). `PostingsRight` says where the rows about a
bet are and how many: none in another wallet's ledger, one hold, and once it is settled one capture and what it
pays; it implies `SettledOnce` (`PostingsCounted`). `LedgerContinuity`, `PlacedOnce`, `ResultIffSettled` and
`AnswersAgree` are the properties themselves, and `BetsTypeOK` needs the first two parts. A step is one of five kinds
(`StepKinds`): it answers or moves only its call (`Quiet`), locks the bet or inserts the result (`Advance`), or it is
a placement, a settlement or an adjustment, whose effects are stated once (`PlaceEffect`, `SettleEffect`,
`AdjustEffect`) and cited by every part.

`BetsImplementation` maps a bet row to its status, owner, stake and multiplier. A settlement is a `Win` or a `Lose` of
`PlacedBets` only because of `ClaimsPending` (the row it locked is still pending, with the terms it was placed under)
and of `RowsShaped` (stake and multiplier are ones a caller may ask for, so that the prize is the one `Prize` gives);
that the payout is computed from the bet's row, by the formula of the specification, is `SettleMove`.

**Both clients.** `WalletsInv` is `HoldsPart` (types, claims, asked stakes, what the ledger says of reservations, true
answers), `BetsPart` (the same of bets), `LockedMatchesStakes` and `LedgerContinuity`. A step is one of the reservation
service, one of the bets module, or an adjustment both know (`StepOfOne`). What either part must not lose to the
other client's steps is proved once for each (`BetsLeftAlone`, `HoldsLeftAlone`): a step of the reservation service
changes wallets and appends rows, all of which refer to references (`HoldPosts`), so by `OwnReferences` no row about a
bet is added or changed, and no bet row or call moves; the same for the bets module (`BetPosts`). The locked funds
need a stronger statement than each client has of itself: "the locked funds are my stakes" is false beside the
other. What is kept is the difference: a step of a client leaves the locked funds beyond its own stakes as they were
(`BeyondHeldKept`, `BeyondPendingKept`), so the sum of both is kept by either. Each client's own invariants need no more
than that its stakes are covered (`HeldCovered`, `PendingCovered`), which follows from the sum (`EachCovered`).

The promises survive the composition in the same way. `HeldFundsBesideBets` maps the locked funds *beyond the pending
stakes* to the locked funds of `HeldFunds`, so that a placement or settlement, which moves both by the same
amount, is an adjustment of available funds to its callers, or a stutter (`BesideBetsBet`); a hold, release or capture
moves what it moved alone (`BesideBetsHold`). `PlacedBetsBesideHolds` is its mirror image.

**Audit.** `QuietAuditClean` says that what the audit recomputes from the ledger is what the services wrote, so the invariant
says of each row what the recomputation uses. `LedgerTells`: every row is `Exact` (it credits or debits its amount, but
a capture, which is a DEBIT that leaves the balance as it is), and the holds of a ledger less its releases and
captures are the wallet's locked funds. The last is kept by every posting (`TellsStep`: the sum of one more row,
`PostedSumAppend`, moves as the locked funds do). The sums by state are the units counted above (`SumsCounted`). The
SQL checks over all ledgers follow from `PostedOnce` and `PostingsRight`: a reference is captured once in a wallet
(`HoldPostings`), so a duplicate needs two wallets (`CapturesShared`); a bet is posted in one ledger
(`BetPostedOnce`). The run's interleavings need only two facts about what was read before: a page read earlier with money in
it has a ledger that is not empty (`PageKnown`), since ledgers only grow (`AppendedSomething`), and a reference shared by two
captures is so for good (`OnlyMore`), since captures are final. No step of the script writes what the services read, so
`AuditSpec` implements `Spec` (`AuditOnlyReads`).

**Mines and Cases.** `GamesInv` is `TypeOK`, `LocksHold` (a cashout that has locked its game finds it active, and no two lock
one game), `NoncesTaken` (games use seeds that were generated, those of the profile's seed with nonces below the
next one), `NothingRevealedYet` (a game not started has no revealed cells), `BoardsDistinct` and `PaidByReveals`.
`NoncesTaken` is what a start and a rotation need: the next nonce is free, and a rotation's nonce zero is on a seed no
game has. It is kept by the games alone (`GamesAlone`) and beside openings, which take nonces of the same profile;
`OpeningsTaken` says the same of them. `BalanceInv` follows from what each kind of step (`StepKinds`) does to the two
sums: a game that ends was paid nothing before, and a cashout adds to the balance it finds, not to the one it read.

**Cashier.** `IInv` is `TypeInv`, `LedgerInv` (a key is in a ledger once, a bonus is under the key of its payment),
`WithdrawInv` and `DepositInv`. A handler that inserted a withdrawal's row owns it: the unique key lets no second
one in, and a handler that dies leaves it to nobody. `OwnerInv` says where the row, the payouts and the postings are
at each program counter of the owner, `SlotInv` what holds of a row with or without one; a payout webhook finds a
track id, which an owner's row never has. `WebhookInv` is what a webhook still relies on after the statements
before it (the payment is confirmed, its row is there, its credit is posted), whatever other webhooks of the
payment did meanwhile; none of it can be undone, because rows of the ledger and of deposits are never deleted. What
a posting leaves alone is stated once (`AdjustedRows`, `BonusedRows`, `HoldRows`): the rows under every other key. A bet of
another service adds a row under a key not used, which is no row of the cashier (`OwnKept`), and a debit or refund that
finds its key used has found its own row or another's (`OwnOrOther`). So a step of
a withdrawal keeps `PaymentsKept`, a step of a webhook or a promotion `OutKept`, and each half of the invariant is
proved against its own steps (`OutDone`, `InDone`). `CreditedStays` follows from `WrittenFacts`.

**Roulette.** `IInv` is `Shapes` (types), `RoundsInOrder`, `BetsInOrder`, `WorkersInOrder`, `CallsInOrder`, `RoundsAddUp`
and the count of locked units `LockedMatchesHeld`. What interleavings could break is a number read in one statement
and inserted in another: `NextNumber(n)` says that all numbers below n are taken, which no other replica or placement
can undo because rounds are never deleted, so an insert leaves no gap (`NoGap`) and the order of rounds is that of
their numbers. A placement that takes its stake keeps the row lock of a round that is open or that its own
transaction inserted (`CallsInOrder`), so nobody closes the round between the check of its status and the bet.
A settlement changes all bets of its round at once; `TotalChange` and `TotalWhere` say what that does to the
sums, without induction over the bets. `LedgerTellsBets` has an invariant of its own, `LInv`, inductive together
with `IInv`: every ledger is a chain, a bet has one row of every kind that `Tells` says it should have and none of
the others, and a bet not placed has none in any ledger. A settlement appends to a ledger one row for every member of
`Postings`, in one of the `Orders`: that no row is missing or there twice is the pigeonhole principle (`SeqsList`), and
the balance the i-th row finds is the first one plus the total of the bets paid before it (`BalanceGrows`), so
the rows continue the chain (`ChainConcat`) and end in the balance the wallet gets.

**Battles.** `SeatPaidOnce` needs no lock: a payout row's seat and player are its key, and a settlement that
would post a row that is there is rolled back as a whole. The proof covers any number of settlements and failures. `StakesSettled` speaks of the
moments when no call runs, so `StakesInv` says who will put right what is not yet right: a stake on hold belongs to
a call that captures or releases it (`HeldForCall`), a seat taken has a captured stake or a call that captures it
or opens the seat again (`SeatsBacked`), that call knows the amount (`StakesKnown`), and before the battle exists only
its creation runs (`BeforeBattle`). The lemmas `OrderKept` ... `BeforeKept` say what a step of one call leaves to the
others; each action then shows only what it does to its own stake and seat. `FundsAddUp` takes the stakes and payouts
of a player as totals over the finite set of his slots and seats: a transaction moves one stake
(`OneStakeMoves`), a settlement adds its rows (`RowsPay`).

**Blackjack.** A game is `NoGame`, `InPlay` or `Ended`. In play, the cards on the table are the first `cursor` cards of the
deck, as many as there are places on the table (`OnTable`): that each is there once follows, since the deck
repeats none, and a hit, a double and a split take the next ones. `Backed` says the reservation is worth the side
bets, the insurance and the stakes of the hands; every hand before the active one is resolved. A settlement turns such
a row into an `Ended` one, whose dealer stopped at the first sum of 17 (`DealerStops` is a set of numbers, its minimum
exists), and which was paid by `Returns`, the rules stated independently of the order in which `payoutForMainHand`
tests them. `RowsInOrder` keys the postings by game, and `WalletInOrder` sums stakes and payouts over all games,
whatever the number of games two starts made. Each decision is reduced to one of a few changes of the hand played
(`HandMoved`), so that `Proceed` and `Finish` are proved about once.

**Transfers.** `MoneyInv` is `TypeOK`, `LocksHold`, `ClaimsFresh` and `LedgerContinuity`. A tip, a rain or a claim writes
balances it computed from what it read when it locked the rows, several steps before: `LocksHold` says that what a
call read of a wallet it holds is still the balance, and that it holds or has still to lock every wallet it will
write. Calls that post in one step find the row free, so they leave the locked ones alone. A step is one of
few kinds (`Kind`: it moves a call, locks a wallet, ends a transaction, ...), and what it appends to the ledgers is stated
once (`Growth`: plain rows, a tip, a claim or a code), so that each invariant about rows only looks at the rows of its
own. `TipsInv`: the two rows of a tip carry one key, which no row of either ledger had. `PromoInv`: the redemptions of
a code are its rows. `CommissionInv` rests on `SumsHeld`, that a claim about to pay still holds the referrals it
summed and that they still hold what it will pay, while a commission that
accrues meanwhile waits for a locked referral. What a claim marks claimed is thus its sum and what the referrals it has
not locked came to hold, which the history variable `unpaid` collects (`ClaimedMore`). Sums over finite sets come from `Ledgers_proofs` (`TotalSum`, `TotalPart`).

`RainInv` is the least obvious one. The settlement pays from a snapshot of the joins, read before the wallets are
locked, and several calls may settle the same round from different snapshots. Joins only grow, so any two snapshots
of a round are nested (`SnapshotsNest`), and each settlement pays the participants in the order of a snapshot it holds
the locks of; the payout row's key names the round and the player. So two settlements that share a player meet
at his key, and the second one is refused as a whole; nested snapshots that are not empty share one. Hence all
payouts of a round are those of one settlement (`RoundPaid`), and `ShareOut` bounds their sum by the pot.

`LocksLast` needs `VaultInv`: the times of locks are numbers with a bound, so that the last one of a set exists
(`LastOf`, by the library's well-founded order of the naturals), and the time a deposit took is not after now.
The property held without the case of an overdrawn vault in the run, whose two calls cannot overdraw one; the
proof showed that it is needed, and TLC confirms it with five calls (section 8).

Only model-checked: the liveness properties (`RequestsAnswered` of reservations and of transfers, `RoundsSettle`,
`PaymentsCredited`, `FullBattleSettles`), since temporal reasoning under fairness is beyond the provers. Every invariant,
action property and refinement a run checks is a theorem.

## 8. Where code and documentation disagree

**Shown by a run.** `claim_rounds_settle` (`RoundsSettle`): one reservation released by an administrator stops the
settlement of its round, and of roulette in that currency, for good. `PROJECT.json` quotes the lines.

**Met while modelling.** Where a behaviour concerns state the models keep, they contain it, unless the text says
otherwise; the properties of the runs are the ones that hold in spite of it. README is the backend's own.

Reservations, wallets, audit:

- Holding and releasing the same stake works off the withdrawal wager requirement with nothing wagered
  (`modules/wallets/service.ts:100`; the message at `modules/cashier/service.ts:427` says wager).
- `GET /wallets` (`modules/wallets/routes.ts:63`) subtracts the locked funds from the balance, from which a hold
  already took them (README:101), so a held stake counts twice in `availableAtomic`.
- A hold that loses a race (`bet-reservation.service.ts:193`) answers success with a reservation that may be final
  by then; the same call a moment later is refused with 409 (`:104`).
- The audit reports every captured stake as a wrong balance, because it expects a DEBIT row to lower the balance
  (`scripts/integrity-audit.ts:309`; README:203). `QuietAuditClean` says so: that is all it reports at rest.
- Beside live requests the audit reports locked funds that never were out of step, because it reads the stakes
  before the wallets (`:595`); it takes two users' captures under one reference for a duplicate (`:439`), although
  references are unique per wallet only.

Roulette: a placement that names an unknown round creates one while the current round is spinning
(`modules/roulette/service.ts:1290`); without a round id it is refused (`:1259`). `NoBetWhileSpinning`
(`RouletteRounds`) states it, and TLC violates it on the instance of `claim_rounds_settle`.

Mines (`modules/mines/service.ts`) and Cases:

- A rotation counts the active games and reveals the seed in a later statement; a game started in between is
  played on a revealed seed (README:138 says a rotation is blocked while a game is active).
- Two concurrent starts give a player two active games; two cashouts then write locked funds computed from the
  same row (`:1183`), so a stake stays locked. Cashouts post no ledger rows, and an error of a posting is swallowed.
- An opening reads the row of the case and its items by two statements before its transaction: an item of a new
  edition may be paid for at the old price, or the reverse.

Blackjack (`modules/blackjack/service.ts`):

- A natural at the deal is settled without a capture: the reservation stays HELD and the stake locked, though the
  game is over (README:93, :104). DOUBLE and SPLIT post no BET_HOLD row (README:106), so the chain of the ledger
  breaks there.
- Side bets are decided by the first hand as it is at the end: a pair is lost by HIT or SPLIT. Straights take court
  cards for tens (8-9-K counts, Q-K-A does not). The multipliers are those of the end, not those stored with the game.
- An administrator's release of the stake makes a game unfinishable, a capture leaves later doubles locked; a
  Mines cashout overwrites the locked funds of a Blackjack stake; a running game's seed can be rotated. These
  three are between components and not in the models. HIT or DOUBLE sent twice with one key acts twice.
- The capture and payout of a game are posted under `blackjack:<game>:capture` and `:payout` (`:1289`, `:658`): when a posting
  of the wallet has one of these keys already, every attempt to settle the game throws. The model assumes them free.

Battles (`modules/battles/service.ts`):

- Two joins at once seat a player twice, although the second should get "You are already in this battle"; a retried
  join with another percentage shows a seat that paid less than it says (the run has `Percents` {100}).
- Two settlements at once pay two winners: no constraint covers the drops and `findUnique` locks nothing. A bot
  filled in from a stale read overwrites a seat that was paid for; the payout of a seat whose stake was given back
  is possible; a creator whose capture fails deletes a battle others paid for.
- Payout rows have 0 as the balance before and after (README:69, :90). Winners of 2v2 get their stake back and of
  3v3 two thirds of it (`TEAM_SHARE_NUMERATOR` is divided again by the number of winners).
- Not in the model: a process that dies after the last seat is taken leaves the battle full and open for ever; a
  release that fails, for its key is taken or otherwise, leaves the stake on hold.
- A settlement that throws is rolled back and nobody tries again, so the battle stays full and OPEN, its stakes captured:
  when a case has no active item (`:434`; a case whose items are all inactive is accepted, `modules/cases/service.ts:2113`,
  `:1378`, and so is a battle of it, `:889`), when a winner's ledger has the payout's key (`:827`), or when a statement
  fails. `FullBattleSettles` excludes exactly these (`SettleAborts`).

Cashier and promotions (`modules/cashier/service.ts`):

- When the answer to a payout request is lost, or storing its track id fails, the withdrawal is refunded although
  it was paid (`:521`). A process that dies after the debit leaves the money there; a retry answers the row as it is.
- A late webhook sets a COMPLETED deposit back to CONFIRMING (it stays credited); payout statuses go backwards
  (`:769`); a payout the provider reports as failed is not refunded; a payout webhook before the track id is stored
  is ignored. A withdrawal whose debit's key another posting of the wallet has is paid without a debit, and refunded
  without one when its payout fails (`:493`, `modules/ledger/service.ts:61`); one whose refund's key is taken is marked FAILED
  and not refunded (`:550`). `OnePayout` and `WithdrawalAccounted` except these two cases and no other.
- Concurrent creditable webhooks add the wager requirement twice; the wager check is stale by the debit.

Vault, tips, rain, affiliates:

- A vault deposit repeated with its key credits the vault again, a withdrawal takes from it again; two
  withdrawals at once leave it negative, and a deposit that leaves it so, or empty, drops its lock; a crash between the two transactions loses the money; a withdrawal that
  overlaps a locked deposit takes locked funds (`modules/vault/service.ts:85`, `:140`).
- A tip or join of a round that commits after another call's snapshot of the settlement is never distributed; an
  error rolls the settlement back with the call, and a second settler or a second join of a user aborts (after a
  caught P2002 PostgreSQL refuses the rest of the transaction) instead of being idempotent. Rounds are settled only
  by calls about rain or chat (`modules/chat/routes.ts:23`), by no timer.
- A commission added between the SELECT and the UPDATE of a claim to a referral that had none is marked claimed
  and not paid (`modules/affiliates/service.ts:288`).

## 9. What is not covered

- Components with status `not_modelled`. Sessions and two-factor authentication keep no money and interleave in
  one place only (two refreshes of one token, of which the one stored last stays valid); the access guard is a
  refusal every request of the models may meet (`Fail`); progression adds experience after the fact and reads a
  table; catalogue imports, prices, anchors and websockets are I/O. User and administration routes (4.6 k lines) read,
  write single rows, and call the services above.
- Of components marked `partly`: the hash chain of the ledger; the audit's checks PARTIAL_SETTLED and PENDING_BET_STATE
  (`scripts/integrity-audit.ts:515`-`:561`), which look for null columns of bets the model does not have; the hashing that makes a board, a deck, a draw or
  an item; the creation of deposit addresses and of promo codes; applying an affiliate code; experience points;
  administrators' calls on the stakes of Mines and Blackjack; deletions and imports of cases and their drop
  rates; processes that die inside a battle's chain.
- Hashes and signatures (HMACs of webhooks and results: a result is either signed or not); the wording and layout
  of responses; read-only routes; several currencies in one round (they share nothing); more than two
  overlapping requests per run.
- Of the repository's implementation lines 42 % are one file of item data
  (`modules/cases/rain_snapshot_seed.ts`), and most others front ends, routes and the C# tree. The map therefore covers
  about a tenth of all lines; of the services that move money it covers most.
