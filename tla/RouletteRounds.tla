--------------------------- MODULE RouletteRounds ---------------------------
(***************************************************************************)
(* Roulette rounds of one currency: the background worker of every replica *)
(* of the backend closes, spins and settles rounds and opens the next one, *)
(* while players place bets and an administrator releases or captures      *)
(* reservations.                                                           *)
(*                                                                         *)
(* Every transition of a round locks its row with FOR UPDATE SKIP LOCKED,  *)
(* and a placement updates, and so locks, the row of its round and keeps   *)
(* the lock until it commits.  A settlement locks everything it changes    *)
(* and is one step, and so are the calls of the reservation service, whose *)
(* interleavings BetReservations covers.                                   *)
(***************************************************************************)
EXTENDS WalletLedger, RouletteRules, FiniteSetsExt, SequencesExt

CONSTANTS
  MaxRounds,   \* bound: rounds ever created
  Bets,        \* ids roulette_bets rows get, each with its own reservation
  Types,       \* bet types players choose
  Stakes,      \* stakes of bets
  Deltas,      \* amounts credited to wallets
  Wheel,       \* numbers a spin may draw
  Releasable,  \* bets whose reservation an administrator may release
  Replicas,    \* backend processes, each running the worker and serving
               \*   getCurrentRouletteRound (one of the two at a time)
  Requests,    \* concurrent placements
  NoRequest, NoKey, NoWallet, NoNumber

ASSUME RouletteAssumption == /\ MaxRounds \in Nat \ {0}
                             /\ Types \subseteq BetTypes
                             /\ Stakes \subseteq Nat \ {0}
                             /\ Deltas \subseteq Nat \ {0}
                             /\ Wheel \subseteq Slots15
                             /\ Releasable \subseteq Bets
                             /\ NoNumber \notin Slots15
                             /\ NoRequest \notin Requests

VARIABLES
  round,       \* [Rounds -> row of roulette_rounds]
  clock,       \* [Rounds -> deadlines of the round that have passed: 1 is
               \*   betsCloseAt, which is also spinStartsAt, 2 is settleAt]
  pause,       \* less than ROUND_RESULTS_PAUSE_MS since the last settlement
  roundLock,   \* [Rounds -> the placement whose open transaction updated or
               \*   inserted the row, or NoRequest]
  bet,         \* [Bets -> row of roulette_bets with its reservation's status]
  worker,      \* [Replicas -> phase of the tick or call]
  req          \* [Requests -> Idle or the state of the placement]

vars == <<wallet, ledger, round, clock, pause, roundLock, bet, worker, req>>

Rounds == 1..MaxRounds

NoRound == [status |-> "NONE", number |-> NoNumber, staked |-> 0, payout |-> 0]

NoBet == [status |-> "NONE", hold |-> "NONE", round |-> 0, wallet |-> NoWallet,
          type |-> "NONE", stake |-> 0, key |-> NoKey, payout |-> 0]

Idle == [pc |-> "idle"]

Resting == [pc |-> "idle", number |-> 0]

Init ==
  /\ MoneyInit
  /\ round = [n \in Rounds |-> NoRound]
  /\ clock = [n \in Rounds |-> 0]
  /\ pause = FALSE
  /\ roundLock = [n \in Rounds |-> NoRequest]
  /\ bet = [b \in Bets |-> NoBet]
  /\ worker = [p \in Replicas |-> Resting]
  /\ req = [r \in Requests |-> Idle]

-----------------------------------------------------------------------------
(***************************************************************************)
(* Rounds and time.                                                        *)
(***************************************************************************)

Created == {n \in Rounds : round[n].status # "NONE"}

LatestNumber == Cardinality(Created)

Active == {n \in Rounds : round[n].status \in {"OPEN", "CLOSED", "SPINNING"}}

Pending(n) == {b \in Bets : bet[b].round = n /\ bet[b].status = "PENDING"}

\* Mutant: a new round forgets the stake of the bet that created it.
FreshUnstaked(stake) == [status |-> "OPEN", number |-> NoNumber, staked |-> 0, payout |-> 0]

\* createRoundForCurrencyTx, with the stake a placement adds to it at once.
Fresh(stake) == [status |-> "OPEN", number |-> NoNumber, staked |-> stake, payout |-> 0]

\* Deadlines pass in the order the rounds were created.
DeadlinePasses(n) ==
  /\ n \in Created /\ clock[n] < 2
  /\ \A m \in Created : m < n => clock[m] > clock[n]
  /\ clock' = [clock EXCEPT ![n] = @ + 1]
  /\ UNCHANGED <<wallet, ledger, round, pause, roundLock, bet, worker, req>>

PauseOver ==
  /\ pause
  /\ pause' = FALSE
  /\ UNCHANGED <<wallet, ledger, round, clock, roundLock, bet, worker, req>>

-----------------------------------------------------------------------------
(***************************************************************************)
(* The worker: processTransitions, then ensureOpenRounds.                  *)
(***************************************************************************)

Phase(p, pc) == worker' = [worker EXCEPT ![p].pc = pc]

Rest(p) == worker' = [worker EXCEPT ![p] = Resting]

Tick(p) ==
  /\ worker[p].pc = "idle"
  /\ Phase(p, "close")
  /\ UNCHANGED <<wallet, ledger, round, clock, pause, roundLock, bet, req>>

\* A read of the current round goes through the steps of ensureOpenRounds.
GetCurrentRound(p) ==
  /\ worker[p].pc = "idle"
  /\ Phase(p, "ensure")
  /\ UNCHANGED <<wallet, ledger, round, clock, pause, roundLock, bet, req>>

\* The process dies or a statement fails: the transaction rolls back, the tick ends.
TickFails(p) ==
  /\ worker[p].pc # "idle"
  /\ Rest(p)
  /\ UNCHANGED <<wallet, ledger, round, clock, pause, roundLock, bet, req>>

\* Mutant: a round that missed one deadline is not found any more.
DueExactly(status, deadline) ==
  {n \in Rounds : /\ round[n].status = status /\ clock[n] = deadline
                  /\ roundLock[n] = NoRequest}

\* The rows a transition may take; it takes the one with the earliest deadline.
Due(status, deadline) ==
  {n \in Rounds : /\ round[n].status = status /\ clock[n] >= deadline
                  /\ roundLock[n] = NoRequest}

CloseRoundOnce(p) ==
  LET due == Due("OPEN", 1)
  IN /\ worker[p].pc = "close"
     /\ IF due = {}
        THEN Phase(p, "spin") /\ UNCHANGED round
        ELSE /\ round' = [round EXCEPT ![Min(due)].status = "CLOSED"]
             /\ UNCHANGED worker
     /\ UNCHANGED <<wallet, ledger, clock, pause, roundLock, bet, req>>

StartSpinningRoundOnce(p) ==
  LET due == Due("CLOSED", 1)
  IN /\ worker[p].pc = "spin"
     /\ IF due = {}
        THEN Phase(p, "settle") /\ UNCHANGED round
        ELSE /\ \E number \in Wheel :
                  round' = [round EXCEPT ![Min(due)].status = "SPINNING",
                                         ![Min(due)].number = number]
             /\ UNCHANGED worker
     /\ UNCHANGED <<wallet, ledger, clock, pause, roundLock, bet, req>>

\* The number drawn when the spin started.
Winner(n) == round[n].number

Outcome(b, number) == IF Won(bet[b].type, number) THEN "WON" ELSE "LOST"

Pays(b, number) == ComputePayout(bet[b].type, bet[b].stake, number)

\* Mutant: the stake of a bet that won is not captured.
ToCaptureLost(b) ==
  bet[b].hold = "HELD" /\ ~Won(bet[b].type, round[bet[b].round].number)

\* A reservation the administrator captured is not captured again.
ToCapture(b) == bet[b].hold = "HELD"

StakeOf == [b \in Bets |-> bet[b].stake]

PayoutAt(number) == [b \in Bets |-> Pays(b, number)]

\* captureReservationForRouletteBet and creditRoulettePayout of every pending bet:
\* each takes the stake from the locked funds, each win goes to the balance, ...
SettledWallets(n) ==
  LET BetsOn(w) == {b \in Pending(n) : bet[b].wallet = w}
  IN [w \in Wallets |->
        [wallet[w] EXCEPT
           !.balance = @ + Total(PayoutAt(Winner(n)), BetsOn(w)),
           !.locked = @ - Total(StakeOf, {b \in BetsOn(w) : ToCapture(b)})]]

\* ... and posts its rows to the ledger of the wallet: a capture of every stake
\* still held and a payout of every win, ...
Postings(w, n) ==
  LET bets == {b \in Pending(n) : bet[b].wallet = w}
  IN ({b \in bets : ToCapture(b)} \X {"capture"})
       \cup ({b \in bets : Pays(b, Winner(n)) > 0} \X {"payout"})

\* ... bet by bet, in any order the query returns, the payout after the capture.
Orders(w, n) ==
  {seq \in SetToSeqs(Postings(w, n)) :
     \A i \in DOMAIN seq :
       seq[i][2] = "payout" /\ ToCapture(seq[i][1]) =>
         i > 1 /\ seq[i - 1] = <<seq[i][1], "capture">>}

\* A posting and its key, roulette:<round>:<bet>:capture or :payout.
SettlementRow(posting, before, number) ==
  LET b == posting[1]
      pays == Pays(b, number)
  IN IF posting[2] = "capture"
     THEN Entry("BET_CAPTURE", "DEBIT", bet[b].stake, before, before, posting, b)
     ELSE Entry("BET_PAYOUT", "CREDIT", pays, before, before + pays, posting, b)

\* The balance the i-th posting finds.
BalanceBefore(w, seq, i, number) ==
  wallet[w].balance
    + Total(PayoutAt(number), {b \in Bets : \E j \in 1..(i - 1) : seq[j] = <<b, "payout">>})

SettledLedger(w, seq, number) ==
  ledger[w] \o [i \in DOMAIN seq |->
                  SettlementRow(seq[i], BalanceBefore(w, seq, i, number), number)]

\* One released reservation, an amount out of range or a key the ledger already
\* has fails the transaction, and with it the tick.
Settleable(n) ==
  /\ \A b \in Pending(n) : bet[b].hold # "RELEASED"
  /\ \A w \in Wallets : /\ Fits(SettledWallets(n)[w].balance)
                         /\ SettledWallets(n)[w].locked >= 0
                         /\ \A posting \in Postings(w, n) : ~KeyUsed(w, posting)

SettleRound(p) ==
  LET due == Due("SPINNING", 2)
      n == Min(due)
      number == Winner(n)
  IN /\ worker[p].pc = "settle"
     /\ due # {}
     /\ Settleable(n)
     /\ wallet' = SettledWallets(n)
     /\ \E order \in [Wallets -> UNION {Orders(w, n) : w \in Wallets}] :
          /\ \A w \in Wallets : order[w] \in Orders(w, n)
          /\ ledger' = [w \in Wallets |-> SettledLedger(w, order[w], number)]
     /\ bet' = [b \in Bets |->
                  IF b \in Pending(n)
                  THEN [bet[b] EXCEPT !.status = Outcome(b, number),
                                      !.payout = Pays(b, number),
                                      !.hold = "CAPTURED"]
                  ELSE bet[b]]
     /\ round' = [round EXCEPT ![n].status = "SETTLED", ![n].number = number,
                               ![n].payout = Total(PayoutAt(number), Pending(n))]
     /\ pause' = TRUE
     /\ UNCHANGED <<clock, roundLock, worker, req>>

SettleThrows(p) ==
  LET due == Due("SPINNING", 2)
  IN /\ worker[p].pc = "settle"
     /\ due # {}
     /\ ~Settleable(Min(due))
     /\ Rest(p)
     /\ UNCHANGED <<wallet, ledger, round, clock, pause, roundLock, bet, req>>

SettleNone(p) ==
  /\ worker[p].pc = "settle"
  /\ Due("SPINNING", 2) = {}
  /\ Phase(p, "ensure")
  /\ UNCHANGED <<wallet, ledger, round, clock, pause, roundLock, bet, req>>

\* ensureOpenRounds: no active round, and the results pause is over ...
EnsureOpenRounds(p) ==
  /\ worker[p].pc = "ensure"
  /\ IF Active = {} /\ ~pause THEN Phase(p, "look") ELSE Rest(p)
  /\ UNCHANGED <<wallet, ledger, round, clock, pause, roundLock, bet, req>>

\* ... nor, in a statement of its own, a round that takes bets ...
EnsureLook(p) ==
  /\ worker[p].pc = "look"
  /\ IF \E n \in Rounds : round[n].status = "OPEN" /\ clock[n] = 0
     THEN Rest(p) ELSE Phase(p, "number")
  /\ UNCHANGED <<wallet, ledger, round, clock, pause, roundLock, bet, req>>

\* ... and then a transaction reads the latest number and inserts the next one.
ReadNumber(p) ==
  /\ worker[p].pc = "number"
  /\ IF LatestNumber < MaxRounds
     THEN worker' = [worker EXCEPT ![p] = [pc |-> "insert", number |-> LatestNumber + 1]]
     ELSE Rest(p)
  /\ UNCHANGED <<wallet, ledger, round, clock, pause, roundLock, bet, req>>

\* Mutant: a tick upserts the row with its number.
InsertRoundAnyway(p) ==
  LET n == worker[p].number
  IN /\ worker[p].pc = "insert"
     /\ roundLock[n] = NoRequest
     /\ round' = [round EXCEPT ![n] = Fresh(0)]
     /\ Rest(p)
     /\ UNCHANGED <<wallet, ledger, clock, pause, roundLock, bet, req>>

\* (currency, roundNumber) is unique: the insert waits for an open transaction
\* that inserted the number, and fails if a committed row has it.
InsertRound(p) ==
  LET n == worker[p].number
  IN /\ worker[p].pc = "insert"
     /\ roundLock[n] = NoRequest
     /\ round' = IF n \in Created THEN round ELSE [round EXCEPT ![n] = Fresh(0)]
     /\ Rest(p)
     /\ UNCHANGED <<wallet, ledger, clock, pause, roundLock, bet, req>>

\* The steps that end a tick.
FinishTick(p) ==
  \/ SettleThrows(p) \/ SettleNone(p)
  \/ EnsureOpenRounds(p) \/ EnsureLook(p) \/ ReadNumber(p) \/ InsertRound(p)

WorkerStep(p) ==
  \/ Tick(p) \/ GetCurrentRound(p) \/ TickFails(p)
  \/ CloseRoundOnce(p) \/ StartSpinningRoundOnce(p) \/ SettleRound(p) \/ FinishTick(p)

-----------------------------------------------------------------------------
(***************************************************************************)
(* placeRouletteBet                                                        *)
(***************************************************************************)

At(r, pc) == req[r].pc = pc

Goto(r, pc) == req' = [req EXCEPT ![r].pc = pc]

Reply(r, outcome) == req' = [req EXCEPT ![r].pc = "done", ![r].outcome = outcome]

\* The round a client asks for: none, one that exists, or an id no round has.
NoId == 0
UnknownId == MaxRounds + 1

\* Bound: there is a row id left for every open placement.
IdLeft ==
  Cardinality({q \in Requests : req[q] # Idle}) < Cardinality({b \in Bets : bet[b] = NoBet})

Submit(r) ==
  /\ req[r] = Idle
  /\ IdLeft
  /\ \E w \in Wallets, type \in Types, stake \in Stakes, key \in Keys,
        id \in {NoId, UnknownId} \cup Created :
        req' = [req EXCEPT ![r] =
                  [pc |-> "lookup", wallet |-> w, type |-> type, stake |-> stake,
                   key |-> key, number |-> id, outcome |-> "none"]]
  /\ UNCHANGED <<wallet, ledger, round, clock, pause, roundLock, bet, worker>>

Return(r) ==
  /\ At(r, "done")
  /\ req' = [req EXCEPT ![r] = Idle]
  /\ UNCHANGED <<wallet, ledger, round, clock, pause, roundLock, bet, worker>>

Unlocked(r) == [n \in Rounds |-> IF roundLock[n] = r THEN NoRequest ELSE roundLock[n]]

\* The call ends without an answer; its open transaction rolls back.
Fail(r) ==
  /\ req[r].pc \notin {"idle", "done"}
  /\ req' = [req EXCEPT ![r] = Idle]
  /\ roundLock' = Unlocked(r)
  /\ UNCHANGED <<wallet, ledger, round, clock, pause, bet, worker>>

PlacedWith(w, key) == {b \in Bets : bet[b].wallet = w /\ bet[b].key = key}

PlaceLookup(r) ==
  /\ At(r, "lookup")
  /\ IF PlacedWith(req[r].wallet, req[r].key) # {}
     THEN Reply(r, "ok") ELSE Goto(r, "choose")
  /\ UNCHANGED <<wallet, ledger, round, clock, pause, roundLock, bet, worker>>

Take(r, n, pc) == req' = [req EXCEPT ![r].number = n, ![r].pc = pc]

\* The round asked for, or the active one with the highest number; if there is
\* none of these, the placement is to create one.
ChooseRound(r) ==
  LET id == req[r].number
  IN /\ At(r, "choose")
     /\ \/ id \in Created /\ Take(r, id, "clock")
        \/ /\ id = NoId /\ Active # {}
           /\ IF round[Max(Active)].status = "OPEN"
              THEN Take(r, Max(Active), "clock") ELSE Reply(r, "closed")
        \/ id = NoId /\ Active = {} /\ pause /\ Reply(r, "pause")
        \/ /\ id = UnknownId \/ (id = NoId /\ Active = {} /\ ~pause)
           /\ Goto(r, "number")
     /\ UNCHANGED <<wallet, ledger, round, clock, pause, roundLock, bet, worker>>

\* Create a round of its own: read the latest number, which may be stale ...
PlaceNumber(r) ==
  /\ At(r, "number")
  /\ LatestNumber < MaxRounds
  /\ Take(r, LatestNumber + 1, "insert")
  /\ UNCHANGED <<wallet, ledger, round, clock, pause, roundLock, bet, worker>>

\* ... and insert the next one (see InsertRound) ...
PlaceInsert(r) ==
  LET n == req[r].number
  IN /\ At(r, "insert")
     /\ roundLock[n] = NoRequest
     /\ IF n \in Created
        THEN Reply(r, "conflict") /\ UNCHANGED roundLock
        ELSE Goto(r, "wallet") /\ roundLock' = [roundLock EXCEPT ![n] = r]
     /\ UNCHANGED <<wallet, ledger, round, clock, pause, bet, worker>>

\* ... or compare betsCloseAt with a clock read first, and then wait for the
\* lock of the row and look at the row's status.
ReadClock(r) ==
  /\ At(r, "clock")
  /\ IF clock[req[r].number] = 0 THEN Goto(r, "lock") ELSE Reply(r, "closed")
  /\ UNCHANGED <<wallet, ledger, round, clock, pause, roundLock, bet, worker>>

LockRound(r) ==
  LET n == req[r].number
  IN /\ At(r, "lock")
     /\ roundLock[n] = NoRequest
     /\ IF round[n].status = "OPEN"
        THEN Goto(r, "wallet") /\ roundLock' = [roundLock EXCEPT ![n] = r]
        ELSE Reply(r, "closed") /\ UNCHANGED roundLock
     /\ UNCHANGED <<wallet, ledger, round, clock, pause, bet, worker>>

\* The round as the placement's update, or its insert, leaves it.
WithStake(row, stake) ==
  IF row = NoRound THEN Fresh(stake) ELSE [row EXCEPT !.staked = @ + stake]

\* Debit and lock the stake, post BET_HOLD, insert the reservation and the bet.
PlaceCommit(r) ==
  LET n == req[r].number
      w == req[r].wallet
      stake == req[r].stake
      before == wallet[w].balance
  IN /\ At(r, "wallet")
     /\ ~KeyUsed(w, req[r].key)
     /\ DebitBalanceInTx(w, stake)
     /\ \E b \in Bets :
          /\ bet[b] = NoBet
          /\ bet' = [bet EXCEPT ![b] =
                       [status |-> "PENDING", hold |-> "HELD", round |-> n, wallet |-> w,
                        type |-> req[r].type, stake |-> stake, key |-> req[r].key,
                        payout |-> 0]]
          /\ Post(w, Entry("BET_HOLD", "DEBIT", stake, before, before - stake,
                           req[r].key, b))
     /\ round' = [round EXCEPT ![n] = WithStake(@, stake)]
     /\ roundLock' = Unlocked(r)
     /\ Reply(r, "ok")
     /\ UNCHANGED <<clock, pause, worker>>

\* Rolled back: the balance does not cover the stake, or the key is known, and
\* then a bet that has it is the answer.
PlaceAbort(r) ==
  LET w == req[r].wallet
  IN /\ At(r, "wallet")
     /\ \/ ~CanDebit(w, req[r].stake) /\ Reply(r, "insufficient")
        \/ /\ CanDebit(w, req[r].stake)
           /\ KeyUsed(w, req[r].key)
           /\ Reply(r, IF PlacedWith(w, req[r].key) # {} THEN "ok" ELSE "conflict")
     /\ roundLock' = Unlocked(r)
     /\ UNCHANGED <<wallet, ledger, round, clock, pause, bet, worker>>

Serve(r) ==
  \/ PlaceLookup(r) \/ ChooseRound(r) \/ PlaceNumber(r) \/ PlaceInsert(r)
  \/ ReadClock(r) \/ LockRound(r) \/ PlaceCommit(r) \/ PlaceAbort(r) \/ Return(r)

-----------------------------------------------------------------------------
(***************************************************************************)
(* releaseHeldFunds and captureHeldFunds, as the administrator's routes    *)
(* call them, and adjustWalletBalance.                                     *)
(***************************************************************************)

AdminRelease(b, key) ==
  LET w == bet[b].wallet
      stake == bet[b].stake
      before == wallet[w].balance
  IN /\ b \in Releasable
     /\ bet[b].hold = "HELD"
     /\ ~KeyUsed(w, key)
     /\ Fits(before + stake)
     /\ wallet' = [wallet EXCEPT ![w].balance = before + stake, ![w].locked = @ - stake]
     /\ Post(w, Entry("BET_RELEASE", "CREDIT", stake, before, before + stake, key, b))
     /\ bet' = [bet EXCEPT ![b].hold = "RELEASED"]
     /\ UNCHANGED <<round, clock, pause, roundLock, worker, req>>

AdminCapture(b, key) ==
  LET w == bet[b].wallet
      stake == bet[b].stake
      before == wallet[w].balance
  IN /\ bet[b].hold = "HELD"
     /\ ~KeyUsed(w, key)
     /\ wallet' = [wallet EXCEPT ![w].locked = @ - stake]
     /\ Post(w, Entry("BET_CAPTURE", "DEBIT", stake, before, before, key, b))
     /\ bet' = [bet EXCEPT ![b].hold = "CAPTURED"]
     /\ UNCHANGED <<round, clock, pause, roundLock, worker, req>>

Adjust(w, delta, key) ==
  /\ AdjustWalletBalance(w, delta, key)
  /\ UNCHANGED <<round, clock, pause, roundLock, bet, worker, req>>

Next ==
  \/ \E n \in Rounds : DeadlinePasses(n)
  \/ PauseOver
  \/ \E p \in Replicas : WorkerStep(p)
  \/ \E r \in Requests : Submit(r) \/ Serve(r) \/ Fail(r)
  \/ \E b \in Bets, key \in Keys : AdminRelease(b, key) \/ AdminCapture(b, key)
  \/ \E w \in Wallets, delta \in Deltas, key \in Keys : Adjust(w, delta, key)

Spec == Init /\ [][Next]_vars

(***************************************************************************)
(* Time passes, the interval timer of a replica keeps firing whatever else *)
(* the replica serves, a phase a tick reaches again and again is not cut   *)
(* short for ever, and placements run to their end.                        *)
(***************************************************************************)
FairSpec ==
  /\ Spec
  /\ \A n \in Rounds : WF_vars(DeadlinePasses(n))
  /\ \A p \in Replicas :
       /\ SF_vars(Tick(p))
       /\ SF_vars(CloseRoundOnce(p)) /\ SF_vars(StartSpinningRoundOnce(p))
       /\ SF_vars(SettleRound(p)) /\ SF_vars(FinishTick(p))
  /\ \A r \in Requests : SF_vars(Serve(r))

-----------------------------------------------------------------------------
(***************************************************************************)
(* Properties.                                                             *)
(***************************************************************************)

RoundRows ==
  [status : {"NONE", "OPEN", "CLOSED", "SPINNING", "SETTLED"},
   number : Wheel \cup {NoNumber}, staked : Nat, payout : Nat]

BetRows ==
  [status : {"NONE", "PENDING", "WON", "LOST"},
   hold : {"NONE", "HELD", "RELEASED", "CAPTURED"}, round : 0..MaxRounds,
   wallet : Wallets \cup {NoWallet}, type : Types \cup {"NONE"}, stake : Nat,
   key : Keys \cup {NoKey}, payout : Nat]

\* Types: balances and locked funds stay in range, and the rounds that exist are
\* numbered without a gap.
TypeOK ==
  /\ wallet \in [Wallets -> WalletRows]
  /\ round \in [Rounds -> RoundRows]
  /\ Created = 1..Cardinality(Created)
  /\ clock \in [Rounds -> 0..2] /\ pause \in BOOLEAN
  /\ roundLock \in [Rounds -> Requests \cup {NoRequest}]
  /\ bet \in [Bets -> BetRows]

BetsOf(n) == {b \in Bets : bet[b].round = n}

\* The total a round shows is the sum of the stakes of its bets, and a settled
\* round has settled every one of them by the number the spin drew, and shows
\* the sum of what they were paid.  So no bet slips into a round behind the
\* worker's back, however placements and transitions overlap.
RoundsAddUp ==
  \A n \in Rounds :
    /\ round[n].staked = Total(StakeOf, BetsOf(n))
    /\ round[n].payout = Total([b \in Bets |-> bet[b].payout], BetsOf(n))
    /\ \A b \in BetsOf(n) :
         IF round[n].status = "SETTLED"
         THEN /\ bet[b].status = Outcome(b, round[n].number)
              /\ bet[b].payout = Pays(b, round[n].number)
         ELSE bet[b].status = "PENDING"

HeldOn(w) == {b \in Bets : bet[b].wallet = w /\ bet[b].hold = "HELD"}

\* The locked funds of a wallet are the stakes of its HELD reservations.
LockedMatchesHeld ==
  \A w \in Wallets :
    wallet[w].locked = Total(StakeOf, HeldOn(w))

\* Placements, settlements and the administrator's releases and captures keep
\* the locked funds equal to the stakes held, balances within their columns, and
\* round numbers without a gap, whichever of them work on a round at once.
StakesAddUp == TypeOK /\ LockedMatchesHeld

\* The ledger is an unbroken chain without a repeated key, and holds for every
\* bet one BET_HOLD row, one BET_RELEASE or BET_CAPTURE row exactly when its
\* reservation is final, and one BET_PAYOUT row exactly when it won: whether the
\* worker or the administrator captured it, and however many replicas settle.
LedgerTellsBets ==
  /\ \A w \in Wallets : /\ ChainFrom(ledger[w], wallet[w].balance)
                        /\ KeysDistinct(ledger[w])
  /\ \A b \in Bets :
       bet[b].status # "NONE" =>
         LET rows == ledger[bet[b].wallet]
             Posted(reason) ==
               Cardinality({i \in DOMAIN rows : rows[i].ref = b /\ rows[i].reason = reason})
         IN /\ Posted("BET_HOLD") = 1
            /\ Posted("BET_RELEASE") = IF bet[b].hold = "RELEASED" THEN 1 ELSE 0
            /\ Posted("BET_CAPTURE") = IF bet[b].hold = "CAPTURED" THEN 1 ELSE 0
            /\ Posted("BET_PAYOUT") = IF bet[b].status = "WON" THEN 1 ELSE 0

Stage(status) ==
  CASE status = "NONE" -> 0 [] status = "OPEN" -> 1 [] status = "CLOSED" -> 2
    [] status = "SPINNING" -> 3 [] status = "SETTLED" -> 4

GoesForward(n) ==
  /\ Stage(round'[n].status) - Stage(round[n].status) \in {0, 1}
  /\ round'[n].staked >= round[n].staked
  /\ round[n].status \notin {"NONE", "OPEN"} =>
       /\ round'[n].staked = round[n].staked
       /\ BetsOf(n)' = BetsOf(n)
  /\ round[n].number # NoNumber => round'[n].number = round[n].number

\* A round goes through its states one at a time and in order, and no other row
\* takes its place: its total never shrinks, once it is closed no bet joins it,
\* and once a number is drawn the number stays.  This holds for any number of
\* replicas that close, spin, settle and open rounds beside placements.
RoundsGoForward == [][\A n \in Rounds : GoesForward(n)]_vars

\* "Roulette round lifecycle (OPEN -> CLOSED -> SPINNING -> SETTLED) handled by a
\* background worker": every round gets settled.
RoundsSettle ==
  \A n \in Rounds : round[n].status = "OPEN" ~> round[n].status = "SETTLED"

\* "Roulette betting is closed while the current round is spinning/settling":
\* no bet is accepted while a round is closed or spinning.
NoBetWhileSpinning ==
  [][\A b \in Bets :
       bet[b].status = "NONE" /\ bet'[b].status = "PENDING" =>
         \A n \in Rounds : round[n].status \notin {"CLOSED", "SPINNING"}]_vars
=============================================================================
