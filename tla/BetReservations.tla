-------------------------- MODULE BetReservations ---------------------------
(***************************************************************************)
(* The bet reservation service: holdFundsForBet, releaseHeldFunds and      *)
(* captureHeldFunds, called concurrently by any number of requests (admin  *)
(* routes, battles, roulette, ...), next to adjustWalletBalance.           *)
(*                                                                         *)
(* A request first reads the reservation without a lock, then runs one     *)
(* READ COMMITTED transaction.  Between the two, and between the           *)
(* statement that claims the reservation row and the one that locks the    *)
(* wallet row, the transactions of other requests run.  A request may be   *)
(* lost at any point (a database error, a refused access check, a crash of *)
(* the process): an open transaction is then rolled back and its row lock  *)
(* given up.  A client that lost its answer calls again, as another        *)
(* request with the same arguments.                                        *)
(***************************************************************************)
EXTENDS Stakes

CONSTANTS
  Refs,         \* bet references
  HoldRequests, \* concurrently running calls
  NoRequest     \* a row lock nobody holds

ASSUME RequestAssumption == /\ IsFiniteSet(Refs)
                            /\ Refs \subseteq References
                            /\ NoRequest \notin HoldRequests

VARIABLES
  reservation, \* [Wallets \X Refs -> row of bet_reservations]
  rowLock,     \* [Wallets \X Refs -> the request whose open transaction
               \*   has updated the row, or NoRequest]
  holdReq      \* [HoldRequests -> Idle or the state of the call]

holdsVars == <<wallet, ledger, reservation, rowLock, holdReq>>

Slots == Wallets \X Refs

(***************************************************************************)
(* (walletId, betReference) is unique, so a wallet has at most one row for *)
(* a reference.  holdTx and finalTx are the ledger rows the reservation    *)
(* links to (holdTransactionId; releaseTransactionId and                   *)
(* captureTransactionId, of which at most one is ever set), 0 when null.   *)
(***************************************************************************)
NoReservation ==
  [status |-> "NONE", amount |-> 0, holdKey |-> NoKey, holdTx |-> 0, finalTx |-> 0]

HoldsInit ==
  /\ MoneyInit
  /\ reservation = [s \in Slots |-> NoReservation]
  /\ rowLock = [s \in Slots |-> NoRequest]
  /\ holdReq = [r \in HoldRequests |-> Idle]

-----------------------------------------------------------------------------
(***************************************************************************)
(* The life of a request.                                                  *)
(***************************************************************************)

Slot(r) == <<holdReq[r].wallet, holdReq[r].bet>>

HoldAt(r, op, pc) == holdReq[r].pc = pc /\ holdReq[r].op = op

Goto(r, pc) == holdReq' = [holdReq EXCEPT ![r].pc = pc]

\* The call answers: its outcome, and the status of the reservation it returns.
ReplyHold(r, outcome, status) ==
  holdReq' = [holdReq EXCEPT ![r].pc = "done", ![r].outcome = outcome, ![r].seen = status]

Call(op, w, b, amount, key) ==
  [pc |-> "lookup", op |-> op, wallet |-> w, bet |-> b, amount |-> amount,
   key |-> key, outcome |-> "none", seen |-> "NONE"]

SubmitHold(r) ==
  /\ holdReq[r] = Idle
  /\ \E w \in Wallets, b \in Refs, key \in Keys :
       \/ \E amount \in Amounts :
            holdReq' = [holdReq EXCEPT ![r] = Call("HOLD", w, b, amount, key)]
       \/ \E op \in {"RELEASE", "CAPTURE"} :
            holdReq' = [holdReq EXCEPT ![r] = Call(op, w, b, 0, key)]
  /\ UNCHANGED <<wallet, ledger, reservation, rowLock>>

ReturnHold(r) ==
  /\ holdReq[r].pc = "done"
  /\ holdReq' = [holdReq EXCEPT ![r] = Idle]
  /\ UNCHANGED <<wallet, ledger, reservation, rowLock>>

\* Mutant: the row lock of a failed call is never given up.
FailKeepsLock(r) ==
  /\ holdReq[r].pc \notin {"idle", "done"}
  /\ holdReq' = [holdReq EXCEPT ![r] = Idle]
  /\ UNCHANGED <<wallet, ledger, reservation, rowLock>>

(***************************************************************************)
(* The call ends without an answer: the access guard refuses the user, a   *)
(* statement fails, or the process dies.  An open transaction rolls back.  *)
(***************************************************************************)
FailHold(r) ==
  /\ holdReq[r].pc \notin {"idle", "done"}
  /\ holdReq' = [holdReq EXCEPT ![r] = Idle]
  /\ rowLock' = [s \in Slots |-> IF rowLock[s] = r THEN NoRequest ELSE rowLock[s]]
  /\ UNCHANGED <<wallet, ledger, reservation>>

-----------------------------------------------------------------------------
(***************************************************************************)
(* holdFundsForBet                                                         *)
(***************************************************************************)

\* findExistingReservation: a row of the wallet with this reference or this key.
Existing(w, b, key) ==
  {x \in Refs : /\ reservation[<<w, x>>].status # "NONE"
                /\ x = b \/ reservation[<<w, x>>].holdKey = key}

\* The read before the transaction: a finalized reservation is refused, a
\* held one is returned as the answer, whatever amount it has.
HoldLookup(r) ==
  /\ HoldAt(r, "HOLD", "lookup")
  /\ LET w == holdReq[r].wallet
         found == Existing(w, holdReq[r].bet, holdReq[r].key)
     IN \/ found = {} /\ Goto(r, "tx")
        \/ \E x \in found :
             LET status == reservation[<<w, x>>].status
             IN ReplyHold(r, IF status = "HELD" THEN "ok" ELSE "finalized", status)
  /\ UNCHANGED <<wallet, ledger, reservation, rowLock>>

\* The balance does not cover the stake, or the locked funds would leave the
\* column's range and the update fails.
HoldRefused(r) ==
  LET w == holdReq[r].wallet
  IN /\ HoldAt(r, "HOLD", "tx")
     /\ ~(CanDebit(w, holdReq[r].amount) /\ Fits(wallet[w].locked + holdReq[r].amount))
     /\ ReplyHold(r, IF CanDebit(w, holdReq[r].amount) THEN "conflict" ELSE "insufficient",
                  "NONE")
     /\ UNCHANGED <<wallet, ledger, reservation, rowLock>>

\* Mutant: (walletId, betReference) is not unique.
HoldUniqueKeyOnly(r) == ~KeyUsed(holdReq[r].wallet, holdReq[r].key)

\* The unique constraints of wallet_transactions and bet_reservations.
HoldUnique(r) ==
  /\ ~KeyUsed(holdReq[r].wallet, holdReq[r].key)
  /\ reservation[Slot(r)].status = "NONE"

\* The transaction: debit and lock the stake, post BET_HOLD, insert the row.
HoldCommit(r) ==
  /\ HoldAt(r, "HOLD", "tx")
  /\ HoldUnique(r)
  /\ LET w == holdReq[r].wallet
         amount == holdReq[r].amount
         before == wallet[w].balance
     IN /\ DebitBalanceInTx(w, amount)
        /\ Post(w, Entry("BET_HOLD", "DEBIT", amount, before, before - amount,
                         holdReq[r].key, holdReq[r].bet))
        /\ reservation' = [reservation EXCEPT ![Slot(r)] =
                             [status |-> "HELD", amount |-> amount,
                              holdKey |-> holdReq[r].key,
                              holdTx |-> Len(ledger[w]) + 1, finalTx |-> 0]]
  /\ ReplyHold(r, "ok", "HELD")
  /\ UNCHANGED rowLock

\* P2002: the transaction rolled back on a unique constraint; look again.
HoldConflict(r) ==
  /\ HoldAt(r, "HOLD", "tx")
  /\ CanDebit(holdReq[r].wallet, holdReq[r].amount)
  /\ Fits(wallet[holdReq[r].wallet].locked + holdReq[r].amount)
  /\ ~HoldUnique(r)
  /\ Goto(r, "reread")
  /\ UNCHANGED <<wallet, ledger, reservation, rowLock>>

\* The catch block: the row found is the answer, whatever its status is.
HoldReread(r) ==
  /\ HoldAt(r, "HOLD", "reread")
  /\ LET w == holdReq[r].wallet
         found == Existing(w, holdReq[r].bet, holdReq[r].key)
     IN \/ found = {} /\ ReplyHold(r, "conflict", "NONE")
        \/ \E x \in found : ReplyHold(r, "ok", reservation[<<w, x>>].status)
  /\ UNCHANGED <<wallet, ledger, reservation, rowLock>>

-----------------------------------------------------------------------------
(***************************************************************************)
(* releaseHeldFunds and captureHeldFunds                                   *)
(***************************************************************************)

Finalizers == {"RELEASE", "CAPTURE"}

Target(op) == IF op = "RELEASE" THEN "RELEASED" ELSE "CAPTURED"

\* Mutant: any final status is taken for the one asked for.
RefinalizeAlways(r) == ReplyHold(r, "ok", reservation[Slot(r)].status)

\* A finalized row answers a repeated call and refuses the opposite one.
Refinalize(r) ==
  LET status == reservation[Slot(r)].status
  IN ReplyHold(r, IF status = Target(holdReq[r].op) THEN "ok" ELSE "finalized", status)

\* The read before the transaction, which also fixes the amount moved later.
FinalizeLookup(r) ==
  /\ holdReq[r].pc = "lookup" /\ holdReq[r].op \in Finalizers
  /\ LET row == reservation[Slot(r)]
     IN \/ row.status = "NONE" /\ ReplyHold(r, "notFound", "NONE")
        \/ row.status \in {"RELEASED", "CAPTURED"} /\ Refinalize(r)
        \/ /\ row.status = "HELD"
           /\ holdReq' = [holdReq EXCEPT ![r].pc = "claim", ![r].amount = row.amount]
  /\ UNCHANGED <<wallet, ledger, reservation, rowLock>>

\* updateMany ... WHERE status = HELD: waits for the row's lock, then
\* claims the row if it is still HELD (the new status is visible to others
\* only after the commit).
FinalizeClaim(r) ==
  /\ holdReq[r].pc = "claim"
  /\ rowLock[Slot(r)] = NoRequest
  /\ reservation[Slot(r)].status = "HELD"
  /\ rowLock' = [rowLock EXCEPT ![Slot(r)] = r]
  /\ Goto(r, "wallet")
  /\ UNCHANGED <<wallet, ledger, reservation>>

\* count = 0: another transaction finalized the row first.
FinalizeLate(r) ==
  /\ holdReq[r].pc = "claim"
  /\ rowLock[Slot(r)] = NoRequest
  /\ reservation[Slot(r)].status # "HELD"
  /\ Refinalize(r)
  /\ UNCHANGED <<wallet, ledger, reservation, rowLock>>

LockCovers(r) == wallet[holdReq[r].wallet].locked >= holdReq[r].amount

\* Mutant: the row keeps its status.
FinalizedLinkOnly(r) ==
  /\ reservation' = [reservation EXCEPT
                       ![Slot(r)].finalTx = Len(ledger[holdReq[r].wallet]) + 1]
  /\ rowLock' = [rowLock EXCEPT ![Slot(r)] = NoRequest]
  /\ ReplyHold(r, "ok", Target(holdReq[r].op))

\* Mutant: the link to the BET_HOLD row is overwritten.
FinalizedSharedLink(r) ==
  /\ reservation' = [reservation EXCEPT
                       ![Slot(r)].status = Target(holdReq[r].op),
                       ![Slot(r)].holdTx = Len(ledger[holdReq[r].wallet]) + 1]
  /\ rowLock' = [rowLock EXCEPT ![Slot(r)] = NoRequest]
  /\ ReplyHold(r, "ok", Target(holdReq[r].op))

\* The claimed row becomes final and links to the ledger row posted with it.
Finalized(r) ==
  /\ reservation' = [reservation EXCEPT
                       ![Slot(r)].status = Target(holdReq[r].op),
                       ![Slot(r)].finalTx = Len(ledger[holdReq[r].wallet]) + 1]
  /\ rowLock' = [rowLock EXCEPT ![Slot(r)] = NoRequest]
  /\ ReplyHold(r, "ok", Target(holdReq[r].op))

\* The stake returns from the locked funds to the balance.
ReleaseCommit(r) ==
  /\ HoldAt(r, "RELEASE", "wallet")
  /\ LockCovers(r)
  /\ LET w == holdReq[r].wallet
         amount == holdReq[r].amount
         after == wallet[w].balance + amount
     IN /\ Fits(after)
        /\ ~KeyUsed(w, holdReq[r].key)
        /\ wallet' = [wallet EXCEPT ![w].balance = after, ![w].locked = @ - amount]
        /\ Post(w, Entry("BET_RELEASE", "CREDIT", amount, after - amount, after,
                         holdReq[r].key, holdReq[r].bet))
  /\ Finalized(r)

\* The stake leaves the locked funds; the balance stays as it is.
CaptureCommit(r) ==
  /\ HoldAt(r, "CAPTURE", "wallet")
  /\ LockCovers(r)
  /\ LET w == holdReq[r].wallet
         amount == holdReq[r].amount
         balance == wallet[w].balance
     IN /\ ~KeyUsed(w, holdReq[r].key)
        /\ wallet' = [wallet EXCEPT ![w].locked = @ - amount]
        /\ Post(w, Entry("BET_CAPTURE", "DEBIT", amount, balance, balance,
                         holdReq[r].key, holdReq[r].bet))
  /\ Finalized(r)

\* The locked funds do not cover the stake, the credited balance leaves the
\* column's range, or the ledger knows the key: rolled back.
FinalizeAbort(r) ==
  /\ holdReq[r].pc = "wallet"
  /\ ~(/\ LockCovers(r)
       /\ holdReq[r].op = "RELEASE" => Fits(wallet[holdReq[r].wallet].balance + holdReq[r].amount)
       /\ ~KeyUsed(holdReq[r].wallet, holdReq[r].key))
  /\ rowLock' = [rowLock EXCEPT ![Slot(r)] = NoRequest]
  /\ ReplyHold(r, IF LockCovers(r) THEN "conflict" ELSE "lockViolated", "HELD")
  /\ UNCHANGED <<wallet, ledger, reservation>>

-----------------------------------------------------------------------------

HoldsAdjust(w, delta, key) ==
  /\ AdjustWalletBalance(w, delta, key)
  /\ UNCHANGED <<reservation, rowLock, holdReq>>

\* The steps the server takes for a request it has accepted.
ServeHold(r) ==
  \/ HoldLookup(r) \/ HoldRefused(r)
  \/ HoldCommit(r) \/ HoldConflict(r) \/ HoldReread(r)
  \/ FinalizeLookup(r) \/ FinalizeClaim(r) \/ FinalizeLate(r)
  \/ ReleaseCommit(r) \/ CaptureCommit(r) \/ FinalizeAbort(r)
  \/ ReturnHold(r)

HoldsNext ==
  \/ \E r \in HoldRequests : SubmitHold(r) \/ ServeHold(r) \/ FailHold(r)
  \/ \E w \in Wallets, delta \in Deltas, key \in Keys : HoldsAdjust(w, delta, key)

HoldsSpec == HoldsInit /\ [][HoldsNext]_holdsVars

(***************************************************************************)
(* Node runs every accepted request to its end, and PostgreSQL queues the  *)
(* waiters of a row lock: a request that can proceed again and again does. *)
(***************************************************************************)
HoldsFairSpec == HoldsSpec /\ \A r \in HoldRequests : SF_holdsVars(ServeHold(r))

-----------------------------------------------------------------------------
(***************************************************************************)
(* Properties.                                                             *)
(***************************************************************************)

Statuses == {"NONE", "HELD", "RELEASED", "CAPTURED"}

ReservationRows ==
  [status : Statuses, amount : 0..BigintMax, holdKey : Keys \cup {NoKey},
   holdTx : Nat, finalTx : Nat]

Calls ==
  [pc : {"lookup", "tx", "reread", "claim", "wallet", "done"},
   op : {"HOLD"} \cup Finalizers, wallet : Wallets, bet : Refs, amount : 0..BigintMax,
   key : Keys, seen : Statuses,
   outcome : {"none", "ok", "insufficient", "conflict", "finalized",
              "notFound", "lockViolated"}]

\* Type correctness: in particular no balance and no locked amount is ever
\* negative or beyond the column's range.
HoldsTypeOK ==
  /\ wallet \in [Wallets -> WalletRows]
  /\ ledger \in [Wallets -> Seq(LedgerRows)]
  /\ reservation \in [Slots -> ReservationRows]
  /\ rowLock \in [Slots -> HoldRequests \cup {NoRequest}]
  /\ holdReq \in [HoldRequests -> {Idle} \cup Calls]

\* One pair for every unit of every stake the wallet holds: a set whose
\* cardinality is the sum of the HELD amounts.
StakeUnits(b, row) == IF row.status = "HELD" THEN {b} \X (1..row.amount) ELSE {}

UnitsOf(rows, w) == UNION {StakeUnits(b, rows[<<w, b>>]) : b \in Refs}

HeldUnits(w) == UnitsOf(reservation, w)

\* The locked funds of a wallet are exactly the stakes of its HELD
\* reservations, whatever holds, releases and captures overlap or are lost:
\* the check WALLET_LOCKED_MISMATCH_WITH_BET_STATE of the integrity audit,
\* and why "Wallet lock invariant violated" is never answered.
LockedMatchesHeld ==
  \A w \in Wallets : wallet[w].locked = Cardinality(HeldUnits(w))

\* And no column leaves its range on the way, nor is a request or a row ill-formed.
HoldsAddUp == HoldsTypeOK /\ LockedMatchesHeld

\* Why it holds.  A call past its lookup works on the stake of an existing
\* reservation; a transaction that claimed a row holds the row's lock, and a
\* locked row is still HELD, so nobody else can move its stake.
ClaimsHeld ==
  /\ \A r \in HoldRequests :
       holdReq[r].pc \in {"claim", "wallet"} =>
         /\ holdReq[r].op \in Finalizers
         /\ reservation[Slot(r)].status # "NONE"
         /\ holdReq[r].amount = reservation[Slot(r)].amount
  /\ \A r \in HoldRequests :
       holdReq[r].pc = "wallet" => /\ rowLock[Slot(r)] = r
                              /\ reservation[Slot(r)].status = "HELD"

\* The inductive invariant of the proofs.
HoldsInv == HoldsTypeOK /\ ClaimsHeld /\ LockedMatchesHeld

\* The ledger tells the life of every reservation and nothing else: a
\* reference has one BET_HOLD row with its stake and, exactly when it is
\* final, one BET_RELEASE or BET_CAPTURE row with the same stake, the rows the
\* reservation links to.  So no stake is returned twice, spent twice, or both.
PostedOnce ==
  \A w \in Wallets, b \in Refs :
    LET row == reservation[<<w, b>>]
        rows == ledger[w]
        posted == {i \in DOMAIN rows : rows[i].ref = b}
    IN CASE row.status = "NONE" -> posted = {}
         [] row.status = "HELD" ->
              /\ posted = {row.holdTx} /\ row.finalTx = 0
              /\ rows[row.holdTx].reason = "BET_HOLD"
              /\ rows[row.holdTx].amount = row.amount
         [] OTHER ->
              /\ posted = {row.holdTx, row.finalTx} /\ row.holdTx < row.finalTx
              /\ rows[row.holdTx].reason = "BET_HOLD"
              /\ rows[row.finalTx].reason = IF row.status = "RELEASED"
                                            THEN "BET_RELEASE" ELSE "BET_CAPTURE"
              /\ \A i \in posted : rows[i].amount = row.amount

\* What a step may do to a reservation.
Lawful(s) ==
  LET old == reservation[s]
      new == reservation'[s]
  IN /\ old.status \in {"RELEASED", "CAPTURED"} => new = old
     /\ old.status = "HELD" => /\ new.status # "NONE"
                               /\ new.amount = old.amount
                               /\ new.holdTx = old.holdTx
     /\ old.status = "NONE" => new.status \in {"NONE", "HELD"}

\* A step never reopens or flips a final reservation, never changes the stake
\* or the links of an existing one, and finalizes only a HELD one.
FinalStatusIsFinal == [][\A s \in Slots : Lawful(s)]_holdsVars

\* What releaseHeldFunds and captureHeldFunds answer is true and stays true:
\* "ok" means the reservation has the status asked for, a refusal means it has
\* the opposite one, and the locked funds always cover the stake.
FinalizeAnswersTrue ==
  \A r \in HoldRequests :
    holdReq[r].pc = "done" /\ holdReq[r].op \in Finalizers =>
      /\ holdReq[r].outcome = "ok" => reservation[Slot(r)].status = Target(holdReq[r].op)
      /\ holdReq[r].outcome = "finalized" =>
           reservation[Slot(r)].status \in {"RELEASED", "CAPTURED"} \ {Target(holdReq[r].op)}
      /\ holdReq[r].outcome # "lockViolated"

\* Reservations, ledger and answers tell the same story: the ledger is an unbroken
\* chain with distinct keys that tells the life of every reservation, and every
\* answer agrees with it for good.
AnswersMatchLedger == LedgerContinuity /\ PostedOnce /\ FinalizeAnswersTrue

\* Every accepted request is answered: no request waits for a row lock for
\* ever, however the transactions of the others end.
RequestsAnswered ==
  \A r \in HoldRequests :
    holdReq[r].pc \notin {"idle", "done"} ~> holdReq[r].pc \in {"idle", "done"}

\* The wallet module implements HeldFunds.
Funds == [w \in Wallets |-> [available |-> wallet[w].balance, locked |-> wallet[w].locked]]
Stake ==
  [s \in Slots |-> [status |-> reservation[s].status, amount |-> reservation[s].amount]]

Held == INSTANCE HeldFunds WITH Accounts <- Wallets, Bets <- Refs, MaxFunds <- BigintMax,
                                funds <- Funds, stake <- Stake

ImplementsHeldFunds == Held!Spec
=============================================================================
