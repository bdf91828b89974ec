------------------------------ MODULE Battles -------------------------------
(***************************************************************************)
(* Case battles.  A player creates a battle and takes its first seat,      *)
(* others join or have bots fill the seats left, and the call that finds   *)
(* the battle full settles it: cases are opened for every seat and the pot *)
(* goes to the winners.                                                    *)
(*                                                                         *)
(* A call is a chain of separate transactions: the stake is held, the seat *)
(* claimed, the stake captured, the battle settled, and each step but the  *)
(* claim relies on what an earlier one read.  The stakes go through the    *)
(* reservation service, of which this module uses the promise HeldFunds;   *)
(* the model has one battle, and calls of several players run at once.     *)
(***************************************************************************)
EXTENDS Ledgers, FiniteSetsExt

CONSTANTS
  Users, Creator, NoUser,
  Seats,           \* seat indexes, 0 is the creator's
  Team,            \* [Seats -> team index]: computeSeatTeam of the template
  ShareNumerator,  \* TEAM_SHARE_NUMERATOR of the template
  Modes,           \* subset of {"TEAM", "GROUP", "JACKPOT"}
  Percents,        \* borrow percents players choose, {100} without borrow mode
  CasesPrice,      \* price of all cases of the battle
  StartingFunds,   \* what every player has at the start
  MaxFunds,        \* bound on the funds of an account
  BattleCalls,     \* calls that run at the same time
  MaxFailures      \* bound on the statements that fail

ASSUME BattlesAssumption ==
  /\ Creator \in Users /\ NoUser \notin Users
  /\ 0 \in Seats /\ Seats \subseteq Nat /\ IsFiniteSet(Seats)
  /\ ShareNumerator \in Nat
  /\ Percents \subseteq 20..100
  /\ CasesPrice \in Nat \ {0} /\ MaxFunds \in Nat /\ StartingFunds \in 0..MaxFunds

VARIABLES
  funds, stake,    \* the wallets and the reservations, see HeldFunds
  battle,          \* [status, mode]
  seat,            \* [Seats -> row of battle_slots]
  paid,            \* BET_PAYOUT rows of the battle
  calls,           \* [BattleCalls -> NoCall or the state of the call]
  failures,
  aborted          \* a settlement was rolled back: a history variable

battlesVars == <<funds, stake, battle, seat, paid, calls, failures, aborted>>

Wallet == INSTANCE HeldFunds WITH Accounts <- Users, Bets <- Seats

fundsVars == <<funds, stake>>

OpenSeat == [state |-> "OPEN", user |-> NoUser, percent |-> 100, paid |-> 0, payout |-> 0]

NoCall == [pc |-> "idle"]

BattlesInit ==
  /\ funds = [u \in Users |-> [available |-> StartingFunds, locked |-> 0]]
  /\ stake = [s \in Users \X Seats |-> Wallet!NoStake]
  /\ battle = [status |-> "NONE", mode |-> "TEAM"]
  /\ seat = [n \in Seats |-> OpenSeat]
  /\ paid = {}
  /\ calls = [r \in BattleCalls |-> NoCall]
  /\ failures = 0
  /\ aborted = FALSE

\* scaleByBorrow
Scaled(amount, percent) == (amount * percent) \div 100

Slot(r) == <<calls[r].user, calls[r].seat>>

Goto(r, pc) == calls' = [calls EXCEPT ![r].pc = pc]

EndCall(r) == calls' = [calls EXCEPT ![r] = NoCall]

OpenSeats == {n \in Seats : seat[n].state = "OPEN"}

\* ensureBattleJoinable
Joinable == battle.status = "OPEN" /\ OpenSeats # {}

Seated(u) == \E n \in Seats : seat[n].user = u

-----------------------------------------------------------------------------
(***************************************************************************)
(* The calls, each with the read its checks use.                           *)
(***************************************************************************)

Call(op, u, n, percent) ==
  [op |-> op, pc |-> "hold", user |-> u, seat |-> n, percent |-> percent, paid |-> 0]

\* createBattle, once: the model follows one battle.
CreateCall(r) ==
  /\ calls[r] = NoCall
  /\ battle.status = "NONE" /\ stake[<<Creator, 0>>] = Wallet!NoStake
  /\ \A x \in BattleCalls : calls[x] = NoCall
  /\ \E percent \in Percents : calls' = [calls EXCEPT ![r] = Call("CREATE", Creator, 0, percent)]
  /\ UNCHANGED <<fundsVars, battle, seat, paid, failures>>

\* joinBattle up to its hold: the battle has an open seat, the player none.
JoinCall(r) ==
  /\ calls[r] = NoCall
  /\ Joinable
  /\ \E u \in Users, n \in OpenSeats, percent \in Percents :
       /\ ~Seated(u)
       /\ calls' = [calls EXCEPT ![r] = Call("JOIN", u, n, percent)]
  /\ UNCHANGED <<fundsVars, battle, seat, paid, failures>>

\* callBotForSeat and fillBots: a participant has one open seat or all filled.
BotCall(r) ==
  /\ calls[r] = NoCall
  /\ Joinable
  /\ \E u \in Users, todo \in {{n} : n \in OpenSeats} \cup {OpenSeats} :
       /\ Seated(u)
       /\ calls' = [calls EXCEPT ![r] = [op |-> "BOTS", pc |-> "bots", user |-> u, todo |-> todo]]
  /\ UNCHANGED <<fundsVars, battle, seat, paid, failures>>

-----------------------------------------------------------------------------
(***************************************************************************)
(* createBattle and joinBattle.                                            *)
(***************************************************************************)

AfterHold(r) == IF calls[r].op = "CREATE" THEN "create" ELSE "claim"

Held(r) == calls' = [calls EXCEPT ![r].pc = AfterHold(r), ![r].paid = stake'[Slot(r)].amount]

\* holdFundsForBet, the read before its transaction: a held stake is answered
\* whatever its amount, a final one refused.
HoldLookup(r) ==
  /\ calls[r].pc = "hold"
  /\ UNCHANGED <<fundsVars, battle, seat, paid, failures>>
  /\ \/ stake[Slot(r)].status = "NONE" /\ Goto(r, "debit")
     \/ stake[Slot(r)].status = "HELD" /\ Held(r)
     \/ stake[Slot(r)].status \in {"RELEASED", "CAPTURED"} /\ EndCall(r)

\* Its transaction: hold the stake, refuse, or answer with the stake another
\* call has put there meanwhile, whatever has become of it.
HoldStake(r) ==
  /\ calls[r].pc = "debit"
  /\ \/ /\ Wallet!Hold(calls[r].user, calls[r].seat)
        /\ stake'[Slot(r)].amount = Scaled(CasesPrice, calls[r].percent)
        /\ Held(r)
     \/ /\ funds[calls[r].user].available < Scaled(CasesPrice, calls[r].percent)
        /\ EndCall(r)
        /\ UNCHANGED fundsVars
     \/ /\ stake[Slot(r)].status # "NONE"
        /\ UNCHANGED fundsVars
        /\ Held(r)
  /\ UNCHANGED <<battle, seat, paid, failures>>

Taken(r) ==
  [state |-> "JOINED", user |-> calls[r].user, percent |-> calls[r].percent,
   paid |-> calls[r].paid, payout |-> seat[calls[r].seat].payout]

\* The battle and its seats are inserted: from now on others can join.
CreateBattle(r) ==
  /\ calls[r].pc = "create"
  /\ \E mode \in Modes : battle' = [status |-> "OPEN", mode |-> mode]
  /\ seat' = [seat EXCEPT ![0] = Taken(r)]
  /\ Goto(r, "capture")
  /\ UNCHANGED <<fundsVars, paid, failures>>

AfterLostSeat(r) == Goto(r, "release")

\* updateMany ... WHERE state = OPEN: one claim of the seat succeeds.
ClaimSeat(r) ==
  /\ calls[r].pc = "claim"
  /\ IF battle.status # "DELETED" /\ calls[r].seat \in OpenSeats
       THEN seat' = [seat EXCEPT ![calls[r].seat] = Taken(r)] /\ Goto(r, "capture")
       ELSE UNCHANGED seat /\ AfterLostSeat(r)
  /\ UNCHANGED <<fundsVars, battle, paid, failures>>

AfterFailure(r) == IF calls[r].op = "CREATE" THEN "release" ELSE "reopen"

\* captureHeldFunds: a stake captured before is answered, a released one refused.
CaptureStake(r) ==
  /\ calls[r].pc = "capture"
  /\ \/ Wallet!Capture(calls[r].user, calls[r].seat)
     \/ stake[Slot(r)].status # "HELD" /\ UNCHANGED fundsVars
  /\ IF stake[Slot(r)].status = "RELEASED" THEN Goto(r, AfterFailure(r))
     ELSE IF calls[r].op = "JOIN" THEN Goto(r, "settle")
     ELSE EndCall(r)
  /\ UNCHANGED <<battle, seat, paid, failures>>

\* A statement of the creation or of the capture fails.
StatementFails(r) ==
  /\ failures < MaxFailures
  /\ failures' = failures + 1
  /\ calls[r].pc \in {"create", "capture"}
  /\ Goto(r, AfterFailure(r))
  /\ UNCHANGED <<fundsVars, battle, seat, paid>>

\* Mutant: the seat stays taken when the capture failed.
ReopenedNot(n, u) == seat[n]

Reopened(n, u) ==
  IF seat[n].user = u THEN [OpenSeat EXCEPT !.payout = seat[n].payout] ELSE seat[n]

\* The catch block of the join's capture: the seat is open again ...
ReopenSeat(r) ==
  /\ calls[r].pc = "reopen"
  /\ seat' = [seat EXCEPT ![calls[r].seat] = Reopened(calls[r].seat, calls[r].user)]
  /\ Goto(r, "release")
  /\ UNCHANGED <<fundsVars, battle, paid, failures>>

\* ... and, whatever made the call release, the stake goes back unless it is
\* final already; a failed creation also deletes its battle.
ReleaseStake(r) ==
  /\ calls[r].pc = "release"
  /\ \/ Wallet!Release(calls[r].user, calls[r].seat)
     \/ stake[Slot(r)].status # "HELD" /\ UNCHANGED fundsVars
  /\ IF calls[r].op = "CREATE" /\ battle.status # "NONE" THEN Goto(r, "delete") ELSE EndCall(r)
  /\ UNCHANGED <<battle, seat, paid, failures>>

\* The seats go with the battle.
DeleteBattle(r) ==
  /\ calls[r].pc = "delete"
  /\ battle' = [battle EXCEPT !.status = "DELETED"]
  /\ seat' = [n \in Seats |-> OpenSeat]
  /\ EndCall(r)
  /\ UNCHANGED <<fundsVars, paid, failures>>

-----------------------------------------------------------------------------
(***************************************************************************)
(* Bots and the settlement.                                                *)
(***************************************************************************)

\* fillBotIntoSeat: the seat was open when the call began; the update does not
\* ask again.
FillBot(r) ==
  /\ calls[r].pc = "bots"
  /\ IF battle.status = "DELETED" THEN EndCall(r) /\ UNCHANGED seat
     ELSE LET n == Min(calls[r].todo)
          IN /\ seat' = [seat EXCEPT ![n] = [state |-> "BOT", user |-> NoUser, percent |-> 100,
                                             paid |-> CasesPrice, payout |-> @.payout]]
             /\ calls' = [calls EXCEPT ![r].todo = @ \ {n},
                                     ![r].pc = IF calls[r].todo = {n} THEN "settle" ELSE "bots"]
  /\ UNCHANGED <<fundsVars, battle, paid, failures>>

\* Mutant: a battle is full when one seat is open yet, the caller's own.
SettleableBefore == battle.status = "OPEN" /\ Cardinality(OpenSeats) = 1

Settleable == battle.status = "OPEN" /\ OpenSeats = {}

\* maybeSettleBattle, its first read.
SettleLook(r) ==
  /\ calls[r].pc = "settle"
  /\ IF Settleable THEN Goto(r, "read") ELSE EndCall(r)
  /\ UNCHANGED <<fundsVars, battle, seat, paid, failures>>

\* The read inside the transaction, which locks nothing.
SettleRead(r) ==
  /\ calls[r].pc = "read"
  /\ IF Settleable
       THEN calls' = [calls EXCEPT ![r] = [pc |-> "pay", seats |-> seat]]
       ELSE EndCall(r)
  /\ UNCHANGED <<fundsVars, battle, seat, paid, failures>>

\* The seats that win together: everyone in group mode, else a team, which the
\* cases opened or the jackpot select.
Winners(mode) ==
  IF mode = "GROUP" THEN {Seats} ELSE {{n \in Seats : Team[n] = Team[m]} : m \in Seats}

Pot == CasesPrice * Cardinality(Seats)

WinnerPool(mode) == IF mode = "TEAM" THEN (Pot * ShareNumerator) \div 100 ELSE Pot

WinnerPayout(winners, percent, mode) ==
  Scaled(WinnerPool(mode) \div Cardinality(winners), percent)

\* Mutant: the key of a payout row names the settlement.
PayoutRowPerCall(n, u, amount, r) == [seat |-> n, user |-> u, amount |-> amount, by |-> r]

\* The key of a payout row names the battle and the seat.
PayoutRow(n, u, amount, r) == [seat |-> n, user |-> u, amount |-> amount, by |-> NoUser]

\* Mutant: a row that is there already is skipped, the rest is carried out.
PostedBeforeSkipped(rows) == FALSE

\* The key is unique: a row that is there already aborts the transaction.
PostedBefore(rows) ==
  \E row \in rows, old \in paid : old.seat = row.seat /\ old.user = row.user /\ old.by = row.by

\* Two settlements that both read the battle as open run one after the other:
\* the second finds the row locked, not that the battle is settled, and fails
\* only when it pays a seat the first has paid.
SettleCommit(r) ==
  /\ calls[r].pc = "pay"
  /\ EndCall(r)
  /\ \/ battle.status = "DELETED" /\ UNCHANGED <<fundsVars, battle, seat, paid>>
     \/ /\ battle.status # "DELETED"
        /\ \E winners \in Winners(battle.mode) :
             LET seats == calls[r].seats
                 payout == [n \in Seats |->
                              IF n \in winners
                                THEN WinnerPayout(winners, seats[n].percent, battle.mode)
                                ELSE 0]
                 rows == {PayoutRow(n, seats[n].user, payout[n], r) :
                            n \in {m \in winners : seats[m].user # NoUser /\ payout[m] > 0}}
                 owed(u) == Total(payout, {n \in Seats : seats[n].user = u})
             IN IF PostedBefore(rows)
                THEN UNCHANGED <<fundsVars, battle, seat, paid>>
                ELSE /\ battle' = [battle EXCEPT !.status = "SETTLED"]
                     /\ seat' = [n \in Seats |-> [seat[n] EXCEPT !.payout = payout[n]]]
                     /\ funds' = [u \in Users |-> [funds[u] EXCEPT !.available = @ + owed(u)]]
                     /\ paid' = paid \cup rows
                     /\ UNCHANGED stake
  /\ UNCHANGED failures

\* The transaction throws and is rolled back, and the call answers with an error
\* nobody retries: a case has no active item left (pickCaseItemForRound), another
\* service's posting of a winner has the key of its payout row, or a statement
\* fails.  Which cases have items and which keys are used is up to others.
SettleAborts(r) ==
  /\ calls[r].pc = "pay"
  /\ battle.status # "DELETED"
  /\ aborted' = TRUE
  /\ EndCall(r)
  /\ UNCHANGED <<fundsVars, battle, seat, paid, failures>>

-----------------------------------------------------------------------------

Serve(r) ==
  \/ /\ \/ HoldLookup(r) \/ HoldStake(r) \/ CreateBattle(r) \/ ClaimSeat(r)
        \/ CaptureStake(r) \/ ReopenSeat(r) \/ ReleaseStake(r) \/ DeleteBattle(r)
        \/ FillBot(r) \/ SettleLook(r) \/ SettleRead(r) \/ SettleCommit(r)
     /\ UNCHANGED aborted
  \/ SettleAborts(r)

BattlesNext ==
  \E r \in BattleCalls :
     \/ /\ CreateCall(r) \/ JoinCall(r) \/ BotCall(r) \/ StatementFails(r)
        /\ UNCHANGED aborted
     \/ Serve(r)

BattlesSpec == BattlesInit /\ [][BattlesNext]_battlesVars

\* Node runs every call to its end.
FairSpec == BattlesSpec /\ \A r \in BattleCalls : WF_battlesVars(Serve(r))

-----------------------------------------------------------------------------

\* The calls of a player that are still running.
Busy(u) ==
  \E r \in BattleCalls :
    calls[r] # NoCall /\ ("user" \notin DOMAIN calls[r] \/ calls[r].user = u)

StakesOf(u, status) == {s \in {u} \X Seats : stake[s].status = status}

Staked(u, status) == Total([s \in Users \X Seats |-> stake[s].amount], StakesOf(u, status))

PaidTo(u) == Total([x \in paid |-> x.amount], {x \in paid : x.user = u})

\* Whatever calls overlap, fail and undo their steps, and however many settle
\* the battle, a player's funds are what it had, less the stakes captured, plus
\* the payouts posted.
FundsAddUp ==
  \A u \in Users :
    /\ funds[u].locked = Staked(u, "HELD")
    /\ funds[u].available + funds[u].locked + Staked(u, "CAPTURED") = StartingFunds + PaidTo(u)

\* Two settlements of one battle never pay the same seat twice.
SeatPaidOnce == \A x, y \in paid : x.seat = y.seat /\ x.user = y.user => x = y

\* Nothing a player staked stays on hold when its calls are over: it lost the
\* seat and was given the stake back, or sits and has paid.
NothingLeftHeld == \A u \in Users : ~Busy(u) => StakesOf(u, "HELD") = {}

\* Who sits in a battle has paid what the seat says, once its calls are over.
SeatsPaidFor ==
  \A n \in Seats :
    LET u == seat[n].user
    IN u # NoUser /\ ~Busy(u) =>
         /\ stake[<<u, n>>].status = "CAPTURED"
         /\ stake[<<u, n>>].amount = seat[n].paid

\* When its calls are over, a player has paid for its seats and for nothing else.
StakesSettled == NothingLeftHeld /\ SeatsPaidFor

\* A battle does not stay full and unsettled, unless a settlement of it was rolled
\* back: whichever calls fill its last seats at once, one of them settles it, or a
\* seat opens again.
FullBattleSettles ==
  (battle.status = "OPEN" /\ OpenSeats = {}) ~>
    (~(battle.status = "OPEN" /\ OpenSeats = {}) \/ aborted)
=============================================================================
