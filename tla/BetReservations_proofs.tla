---------------------- MODULE BetReservations_proofs ------------------------
(***************************************************************************)
(* Proofs about the bet reservation service, for any wallets, references,  *)
(* keys, requests and amounts: its state and its ledger are in order, its  *)
(* answers true, and it implements HeldFunds.                              *)
(***************************************************************************)
EXTENDS BetReservations, Ledgers_proofs

-----------------------------------------------------------------------------
(***************************************************************************)
(* Type correctness.                                                       *)
(***************************************************************************)

\* A request that is neither idle nor answered holds the fields of a call.
LEMMA ActiveCall ==
  ASSUME HoldsTypeOK, NEW r \in HoldRequests, holdReq[r].pc # "idle"
  PROVE  holdReq[r] \in Calls /\ Slot(r) \in Slots
<1>1. holdReq[r] \in Calls
  BY DEF HoldsTypeOK, Idle
<1>2. QED  BY <1>1 DEF Calls, Slot, Slots

\* An answered call keeps its arguments.
LEMMA HoldReplyType ==
  ASSUME HoldsTypeOK, NEW r \in HoldRequests, holdReq[r].pc # "idle",
         NEW outcome, NEW status, ReplyHold(r, outcome, status),
         outcome \in {"ok", "insufficient", "conflict", "finalized",
                      "notFound", "lockViolated"},
         status \in Statuses
  PROVE  holdReq' \in [HoldRequests -> {Idle} \cup Calls]
<1>1. holdReq[r] \in Calls
  BY ActiveCall
<1>2. [holdReq[r] EXCEPT !.pc = "done", !.outcome = outcome, !.seen = status] \in Calls
  BY <1>1 DEF Calls
<1>3. holdReq' = [holdReq EXCEPT ![r] =
               [holdReq[r] EXCEPT !.pc = "done", !.outcome = outcome, !.seen = status]]
  BY <1>1 DEF ReplyHold, HoldsTypeOK, Calls
<1>4. QED  BY <1>2, <1>3 DEF HoldsTypeOK

\* A call that moves on to its next step keeps its arguments.
LEMMA GotoType ==
  ASSUME HoldsTypeOK, NEW r \in HoldRequests, holdReq[r].pc # "idle",
         NEW pc \in {"tx", "reread", "claim", "wallet"}, Goto(r, pc)
  PROVE  holdReq' \in [HoldRequests -> {Idle} \cup Calls]
<1>1. holdReq[r] \in Calls
  BY ActiveCall
<1>2. [holdReq[r] EXCEPT !.pc = pc] \in Calls
  BY <1>1 DEF Calls
<1>3. holdReq' = [holdReq EXCEPT ![r] = [holdReq[r] EXCEPT !.pc = pc]]
  BY <1>1 DEF Goto, HoldsTypeOK
<1>4. QED  BY <1>2, <1>3 DEF HoldsTypeOK

\* A posted row that is a ledger row leaves a ledger of ledger rows.
LEMMA HoldsPostType ==
  ASSUME HoldsTypeOK, NEW w \in Wallets, NEW entry \in LedgerRows, Post(w, entry)
  PROVE  ledger' \in [Wallets -> Seq(LedgerRows)]
BY DEF HoldsTypeOK, Post

\* The lock of a request is given up, or taken by one.
LEMMA LockType ==
  ASSUME HoldsTypeOK, NEW s \in Slots, NEW owner \in HoldRequests \cup {NoRequest},
         rowLock' = [rowLock EXCEPT ![s] = owner]
  PROVE  rowLock' \in [Slots -> HoldRequests \cup {NoRequest}]
BY DEF HoldsTypeOK

\* A commit that finalizes a claimed reservation keeps the types.
LEMMA FinalizedType ==
  ASSUME HoldsTypeOK, NEW r \in HoldRequests, holdReq[r].pc = "wallet",
         holdReq[r].op \in Finalizers, Finalized(r)
  PROVE  /\ reservation' \in [Slots -> ReservationRows]
         /\ rowLock' \in [Slots -> HoldRequests \cup {NoRequest}]
         /\ holdReq' \in [HoldRequests -> {Idle} \cup Calls]
<1>1. holdReq[r] \in Calls /\ Slot(r) \in Slots
  BY ActiveCall
<1>2. Target(holdReq[r].op) \in Statuses
  BY <1>1 DEF Target, Statuses
<1>3. holdReq' \in [HoldRequests -> {Idle} \cup Calls]
  BY <1>1, <1>2, HoldReplyType DEF Finalized
<1>4. Len(ledger[holdReq[r].wallet]) + 1 \in Nat
  BY <1>1 DEF HoldsTypeOK, Calls
<1>5. reservation[Slot(r)] \in ReservationRows
  BY <1>1 DEF HoldsTypeOK
<1>6. reservation' = [reservation EXCEPT ![Slot(r)] =
        [reservation[Slot(r)] EXCEPT !.status = Target(holdReq[r].op),
                                     !.finalTx = Len(ledger[holdReq[r].wallet]) + 1]]
  BY <1>1, <1>5 DEF Finalized, HoldsTypeOK, ReservationRows
<1>7. [reservation[Slot(r)] EXCEPT !.status = Target(holdReq[r].op),
                                   !.finalTx = Len(ledger[holdReq[r].wallet]) + 1] \in ReservationRows
  BY <1>2, <1>4, <1>5 DEF ReservationRows
<1>8. reservation' \in [Slots -> ReservationRows]
  BY <1>1, <1>6, <1>7 DEF HoldsTypeOK
<1>9. rowLock' \in [Slots -> HoldRequests \cup {NoRequest}]
  BY <1>1, LockType DEF Finalized
<1>10. QED  BY <1>3, <1>8, <1>9

\* HoldsTypeOK holds initially and no step breaks it.
LEMMA HoldsTypeInit == HoldsInit => HoldsTypeOK
<1>1. SUFFICES ASSUME HoldsInit PROVE HoldsTypeOK
  OBVIOUS
<1>2. 0 \in 0..BigintMax /\ WagerRequired \in Nat
  BY BigintAssumption
<1>3. wallet \in [Wallets -> WalletRows]
  BY <1>1, <1>2 DEF HoldsInit, MoneyInit, WalletRows
<1>4. ledger \in [Wallets -> Seq(LedgerRows)]
  BY <1>1 DEF HoldsInit, MoneyInit
<1>5. NoReservation \in ReservationRows
  BY <1>2 DEF NoReservation, ReservationRows, Statuses
<1>6. QED
  BY <1>1, <1>3, <1>4, <1>5 DEF HoldsInit, HoldsTypeOK

\* No step of any request breaks a type.
LEMMA HoldsTypeStep == HoldsTypeOK /\ [HoldsNext]_holdsVars => HoldsTypeOK'
<1> SUFFICES ASSUME HoldsTypeOK, [HoldsNext]_holdsVars PROVE HoldsTypeOK'
  OBVIOUS
<1> USE BigintAssumption, RequestAssumption, StakeAssumption
<1>1. CASE UNCHANGED holdsVars
  BY <1>1 DEF holdsVars, HoldsTypeOK
<1>2. ASSUME NEW r \in HoldRequests, SubmitHold(r) PROVE HoldsTypeOK'
  <2>1. ASSUME NEW w \in Wallets, NEW b \in Refs, NEW key \in Keys,
               NEW amount \in 0..BigintMax, NEW op \in {"HOLD"} \cup Finalizers
        PROVE  Call(op, w, b, amount, key) \in Calls
    BY DEF Call, Calls, Statuses
  <2>2. PICK call \in Calls : holdReq' = [holdReq EXCEPT ![r] = call]
    <3>1. PICK w \in Wallets, b \in Refs, key \in Keys :
            \/ \E amount \in Amounts : holdReq' = [holdReq EXCEPT ![r] = Call("HOLD", w, b, amount, key)]
            \/ \E op \in Finalizers : holdReq' = [holdReq EXCEPT ![r] = Call(op, w, b, 0, key)]
      BY <1>2 DEF SubmitHold, Finalizers
    <3>2. 0 \in 0..BigintMax /\ Amounts \subseteq 0..BigintMax
      OBVIOUS
    <3>3. QED  BY <3>1, <3>2, <2>1
  <2>3. QED  BY <1>2, <2>2 DEF SubmitHold, HoldsTypeOK
<1>3. ASSUME NEW r \in HoldRequests, ReturnHold(r) PROVE HoldsTypeOK'
  BY <1>3 DEF ReturnHold, HoldsTypeOK
<1>4. ASSUME NEW r \in HoldRequests, FailHold(r) PROVE HoldsTypeOK'
  BY <1>4 DEF FailHold, HoldsTypeOK
<1>5. ASSUME NEW r \in HoldRequests, HoldLookup(r) PROVE HoldsTypeOK'
  <2>1. holdReq[r].pc # "idle" /\ holdReq[r] \in Calls
    BY <1>5, ActiveCall DEF HoldLookup, HoldAt
  <2>2. holdReq' \in [HoldRequests -> {Idle} \cup Calls]
    <3>1. CASE Goto(r, "tx")
      BY <2>1, <3>1, GotoType
    <3>2. CASE \E x \in Existing(holdReq[r].wallet, holdReq[r].bet, holdReq[r].key) :
                 ReplyHold(r, IF reservation[<<holdReq[r].wallet, x>>].status = "HELD"
                          THEN "ok" ELSE "finalized",
                       reservation[<<holdReq[r].wallet, x>>].status)
      <4>1. PICK x \in Refs :
                 ReplyHold(r, IF reservation[<<holdReq[r].wallet, x>>].status = "HELD"
                          THEN "ok" ELSE "finalized",
                       reservation[<<holdReq[r].wallet, x>>].status)
        BY <3>2 DEF Existing
      <4>2. reservation[<<holdReq[r].wallet, x>>].status \in Statuses
        BY <2>1 DEF HoldsTypeOK, Calls, Slots, ReservationRows
      <4>3. QED  BY <2>1, <4>1, <4>2, HoldReplyType
    <3>3. QED  BY <1>5, <3>1, <3>2 DEF HoldLookup
  <2>3. QED  BY <1>5, <2>2 DEF HoldLookup, HoldsTypeOK
<1>6. ASSUME NEW r \in HoldRequests, HoldRefused(r) PROVE HoldsTypeOK'
  <2>1. holdReq' \in [HoldRequests -> {Idle} \cup Calls]
    BY <1>6, HoldReplyType DEF HoldRefused, HoldAt, Statuses
  <2>2. QED  BY <1>6, <2>1 DEF HoldRefused, HoldsTypeOK
<1>8. ASSUME NEW r \in HoldRequests, HoldCommit(r) PROVE HoldsTypeOK'
  <2> DEFINE w == holdReq[r].wallet
             amount == holdReq[r].amount
             before == wallet[w].balance
  <2>1. holdReq[r].pc # "idle" /\ holdReq[r] \in Calls /\ Slot(r) \in Slots
    BY <1>8, ActiveCall DEF HoldCommit, HoldAt
  <2>2. w \in Wallets /\ holdReq[r].bet \in Refs /\ holdReq[r].key \in Keys /\ amount \in 0..BigintMax
    BY <2>1 DEF Calls
  <2>3. wallet[w] \in WalletRows
    BY <2>2 DEF HoldsTypeOK
  <2>4. /\ before - amount \in 0..BigintMax /\ before \in 0..BigintMax
        /\ wallet[w].locked + amount \in 0..BigintMax
    <3>1. before >= amount /\ wallet[w].locked + amount \in 0..BigintMax
      BY <1>8 DEF HoldCommit, DebitBalanceInTx, CanDebit, Fits
    <3>2. before \in 0..BigintMax
      BY <2>3 DEF WalletRows
    <3>3. before - amount \in 0..BigintMax
      BY <2>2, <3>1, <3>2
    <3>4. QED  BY <3>1, <3>2, <3>3
  <2>5. ConsumeWager(wallet[w].wager, amount) \in Nat
    BY <2>2, <2>3 DEF ConsumeWager, WalletRows
  <2>6. wallet' \in [Wallets -> WalletRows]
    <3>1. [balance |-> before - amount, locked |-> wallet[w].locked + amount,
           wager |-> ConsumeWager(wallet[w].wager, amount)] \in WalletRows
      BY <2>4, <2>5 DEF WalletRows
    <3>2. QED  BY <1>8, <2>2, <3>1 DEF HoldCommit, DebitBalanceInTx, HoldsTypeOK
  <2>7. ledger' \in [Wallets -> Seq(LedgerRows)]
    <3>1. Entry("BET_HOLD", "DEBIT", amount, before, before - amount,
                holdReq[r].key, holdReq[r].bet) \in LedgerRows
      BY <2>2, <2>4 DEF Entry, LedgerRows, Reasons
    <3>2. QED  BY <1>8, <2>2, <3>1, HoldsPostType DEF HoldCommit
  <2>8. reservation' \in [Slots -> ReservationRows]
    <3>1. [status |-> "HELD", amount |-> amount, holdKey |-> holdReq[r].key,
           holdTx |-> Len(ledger[w]) + 1, finalTx |-> 0] \in ReservationRows
      BY <2>2 DEF ReservationRows, Statuses, HoldsTypeOK
    <3>2. QED  BY <1>8, <2>1, <3>1 DEF HoldCommit, HoldsTypeOK
  <2>9. holdReq' \in [HoldRequests -> {Idle} \cup Calls]
    BY <1>8, <2>1, HoldReplyType DEF HoldCommit, Statuses
  <2>10. QED
    BY <1>8, <2>6, <2>7, <2>8, <2>9 DEF HoldCommit, HoldsTypeOK
<1>9. ASSUME NEW r \in HoldRequests, HoldConflict(r) PROVE HoldsTypeOK'
  <2>1. holdReq' \in [HoldRequests -> {Idle} \cup Calls]
    BY <1>9, GotoType DEF HoldConflict, HoldAt
  <2>2. QED  BY <1>9, <2>1 DEF HoldConflict, HoldsTypeOK
<1>10. ASSUME NEW r \in HoldRequests, HoldReread(r) PROVE HoldsTypeOK'
  <2>1. holdReq[r].pc # "idle" /\ holdReq[r] \in Calls
    BY <1>10, ActiveCall DEF HoldReread, HoldAt
  <2>2. PICK outcome \in {"conflict", "ok"}, status \in Statuses : ReplyHold(r, outcome, status)
    <3>1. \A x \in Refs : reservation[<<holdReq[r].wallet, x>>].status \in Statuses
      BY <2>1 DEF HoldsTypeOK, Calls, Slots, ReservationRows
    <3>2. QED  BY <1>10, <3>1 DEF HoldReread, Existing, Statuses
  <2>3. holdReq' \in [HoldRequests -> {Idle} \cup Calls]
    BY <2>1, <2>2, HoldReplyType
  <2>4. QED  BY <1>10, <2>3 DEF HoldReread, HoldsTypeOK
<1>11. ASSUME NEW r \in HoldRequests, FinalizeLookup(r) PROVE HoldsTypeOK'
  <2>1. holdReq[r].pc # "idle" /\ holdReq[r] \in Calls /\ Slot(r) \in Slots
    BY <1>11, ActiveCall DEF FinalizeLookup
  <2>2. reservation[Slot(r)] \in ReservationRows
    BY <2>1 DEF HoldsTypeOK
  <2>3. holdReq' \in [HoldRequests -> {Idle} \cup Calls]
    <3>1. CASE ReplyHold(r, "notFound", "NONE")
      BY <2>1, <3>1, HoldReplyType DEF Statuses
    <3>2. CASE Refinalize(r)
      BY <2>1, <2>2, <3>2, HoldReplyType DEF Refinalize, ReservationRows
    <3>3. CASE holdReq' = [holdReq EXCEPT ![r].pc = "claim", ![r].amount = reservation[Slot(r)].amount]
      <4>1. [holdReq[r] EXCEPT !.pc = "claim", !.amount = reservation[Slot(r)].amount] \in Calls
        BY <2>1, <2>2 DEF Calls, ReservationRows
      <4>2. holdReq' = [holdReq EXCEPT ![r] =
                     [holdReq[r] EXCEPT !.pc = "claim", !.amount = reservation[Slot(r)].amount]]
        BY <2>1, <3>3 DEF HoldsTypeOK, Calls
      <4>3. QED  BY <4>1, <4>2 DEF HoldsTypeOK
    <3>4. QED  BY <1>11, <3>1, <3>2, <3>3 DEF FinalizeLookup
  <2>4. QED  BY <1>11, <2>3 DEF FinalizeLookup, HoldsTypeOK
<1>12. ASSUME NEW r \in HoldRequests, FinalizeClaim(r) PROVE HoldsTypeOK'
  <2>1. holdReq[r].pc # "idle" /\ Slot(r) \in Slots
    BY <1>12, ActiveCall DEF FinalizeClaim
  <2>2. holdReq' \in [HoldRequests -> {Idle} \cup Calls]
    BY <1>12, <2>1, GotoType DEF FinalizeClaim
  <2>3. rowLock' \in [Slots -> HoldRequests \cup {NoRequest}]
    BY <1>12, <2>1, LockType DEF FinalizeClaim
  <2>4. QED  BY <1>12, <2>2, <2>3 DEF FinalizeClaim, HoldsTypeOK
<1>13. ASSUME NEW r \in HoldRequests, FinalizeLate(r) PROVE HoldsTypeOK'
  <2>1. holdReq[r].pc # "idle" /\ Slot(r) \in Slots
    BY <1>13, ActiveCall DEF FinalizeLate
  <2>2. reservation[Slot(r)].status \in Statuses
    BY <2>1 DEF HoldsTypeOK, ReservationRows
  <2>3. holdReq' \in [HoldRequests -> {Idle} \cup Calls]
    BY <1>13, <2>1, <2>2, HoldReplyType DEF FinalizeLate, Refinalize
  <2>4. QED  BY <1>13, <2>3 DEF FinalizeLate, HoldsTypeOK
<1>14. ASSUME NEW r \in HoldRequests, ReleaseCommit(r) PROVE HoldsTypeOK'
  <2> DEFINE w == holdReq[r].wallet
             amount == holdReq[r].amount
             after == wallet[w].balance + amount
  <2>1. holdReq[r] \in Calls /\ Slot(r) \in Slots
    BY <1>14, ActiveCall DEF ReleaseCommit, HoldAt
  <2>2. w \in Wallets /\ holdReq[r].bet \in Refs /\ holdReq[r].key \in Keys /\ amount \in 0..BigintMax
    BY <2>1 DEF Calls
  <2>3. wallet[w] \in WalletRows
    BY <2>2 DEF HoldsTypeOK
  <2>4. /\ after \in 0..BigintMax /\ after - amount \in 0..BigintMax
        /\ wallet[w].locked - amount \in 0..BigintMax
    <3>1. after \in 0..BigintMax /\ wallet[w].locked >= amount
      BY <1>14 DEF ReleaseCommit, LockCovers, Fits
    <3>2. wallet[w].balance \in 0..BigintMax /\ wallet[w].locked \in 0..BigintMax
      BY <2>3 DEF WalletRows
    <3>3. after - amount = wallet[w].balance /\ wallet[w].locked - amount \in 0..BigintMax
      BY <2>2, <3>1, <3>2
    <3>4. QED  BY <3>1, <3>2, <3>3
  <2>5. wallet' \in [Wallets -> WalletRows]
    <3>1. wallet' = [wallet EXCEPT ![w] =
                      [wallet[w] EXCEPT !.balance = after, !.locked = wallet[w].locked - amount]]
      BY <1>14, <2>2, <2>3 DEF ReleaseCommit, HoldsTypeOK, WalletRows
    <3>2. [wallet[w] EXCEPT !.balance = after, !.locked = wallet[w].locked - amount] \in WalletRows
      BY <2>3, <2>4 DEF WalletRows
    <3>3. QED  BY <2>2, <3>1, <3>2 DEF HoldsTypeOK
  <2>6. ledger' \in [Wallets -> Seq(LedgerRows)]
    <3>1. Entry("BET_RELEASE", "CREDIT", amount, after - amount, after,
                holdReq[r].key, holdReq[r].bet) \in LedgerRows
      BY <2>2, <2>4 DEF Entry, LedgerRows, Reasons
    <3>2. QED  BY <1>14, <2>2, <3>1, HoldsPostType DEF ReleaseCommit
  <2>7. QED
    BY <1>14, <2>5, <2>6, FinalizedType DEF ReleaseCommit, HoldAt, Finalizers, HoldsTypeOK
<1>15. ASSUME NEW r \in HoldRequests, CaptureCommit(r) PROVE HoldsTypeOK'
  <2> DEFINE w == holdReq[r].wallet
             amount == holdReq[r].amount
             balance == wallet[w].balance
  <2>1. holdReq[r] \in Calls /\ Slot(r) \in Slots
    BY <1>15, ActiveCall DEF CaptureCommit, HoldAt
  <2>2. w \in Wallets /\ holdReq[r].bet \in Refs /\ holdReq[r].key \in Keys /\ amount \in 0..BigintMax
    BY <2>1 DEF Calls
  <2>3. wallet[w] \in WalletRows
    BY <2>2 DEF HoldsTypeOK
  <2>4. balance \in 0..BigintMax /\ wallet[w].locked - amount \in 0..BigintMax
    BY <1>15, <2>2, <2>3 DEF CaptureCommit, LockCovers, WalletRows
  <2>5. wallet' \in [Wallets -> WalletRows]
    <3>1. wallet' = [wallet EXCEPT ![w] = [wallet[w] EXCEPT !.locked = wallet[w].locked - amount]]
      BY <1>15, <2>2, <2>3 DEF CaptureCommit, HoldsTypeOK
    <3>2. [wallet[w] EXCEPT !.locked = wallet[w].locked - amount] \in WalletRows
      BY <2>3, <2>4 DEF WalletRows
    <3>3. QED  BY <2>2, <3>1, <3>2 DEF HoldsTypeOK
  <2>6. ledger' \in [Wallets -> Seq(LedgerRows)]
    <3>1. Entry("BET_CAPTURE", "DEBIT", amount, balance, balance,
                holdReq[r].key, holdReq[r].bet) \in LedgerRows
      BY <2>2, <2>4 DEF Entry, LedgerRows, Reasons
    <3>2. QED  BY <1>15, <2>2, <3>1, HoldsPostType DEF CaptureCommit
  <2>7. QED
    BY <1>15, <2>5, <2>6, FinalizedType DEF CaptureCommit, HoldAt, Finalizers, HoldsTypeOK
<1>16. ASSUME NEW r \in HoldRequests, FinalizeAbort(r) PROVE HoldsTypeOK'
  <2>1. holdReq[r].pc # "idle" /\ Slot(r) \in Slots
    BY <1>16, ActiveCall DEF FinalizeAbort
  <2>2. holdReq' \in [HoldRequests -> {Idle} \cup Calls]
    BY <1>16, <2>1, HoldReplyType DEF FinalizeAbort, Statuses
  <2>3. rowLock' \in [Slots -> HoldRequests \cup {NoRequest}]
    BY <1>16, <2>1, LockType DEF FinalizeAbort
  <2>4. QED  BY <1>16, <2>2, <2>3 DEF FinalizeAbort, HoldsTypeOK
<1>17. ASSUME NEW w \in Wallets, NEW delta \in Deltas, NEW key \in Keys,
              HoldsAdjust(w, delta, key)
       PROVE  HoldsTypeOK'
  <2> DEFINE before == wallet[w].balance
             after == before + delta
             size == IF delta > 0 THEN delta ELSE -delta
  <2>1. wallet[w] \in WalletRows
    BY DEF HoldsTypeOK
  <2>2. before \in 0..BigintMax /\ after \in 0..BigintMax /\ size \in 0..BigintMax
    BY <1>17, <2>1 DEF HoldsAdjust, AdjustWalletBalance, Fits, WalletRows
  <2>3. wallet' \in [Wallets -> WalletRows]
    <3>1. wallet' = [wallet EXCEPT ![w] = [wallet[w] EXCEPT !.balance = after]]
      BY <1>17 DEF HoldsAdjust, AdjustWalletBalance, HoldsTypeOK
    <3>2. [wallet[w] EXCEPT !.balance = after] \in WalletRows
      BY <2>1, <2>2 DEF WalletRows
    <3>3. QED  BY <3>1, <3>2 DEF HoldsTypeOK
  <2>4. ledger' \in [Wallets -> Seq(LedgerRows)]
    <3>1. Entry("ADJUST", IF delta > 0 THEN "CREDIT" ELSE "DEBIT", size,
                before, after, key, NoRef) \in LedgerRows
      BY <2>2 DEF Entry, LedgerRows, Reasons
    <3>2. QED  BY <1>17, <3>1, HoldsPostType DEF HoldsAdjust, AdjustWalletBalance
  <2>5. QED  BY <1>17, <2>3, <2>4 DEF HoldsAdjust, HoldsTypeOK
<1>18. QED
  BY <1>1, <1>2, <1>3, <1>4, <1>5, <1>6, <1>8, <1>9, <1>10, <1>11, <1>12,
     <1>13, <1>14, <1>15, <1>16, <1>17 DEF HoldsNext, ServeHold

\* No balance and no locked amount is ever negative or out of range, and every
\* variable keeps its shape, for any number of concurrent requests.
THEOREM TypeCorrect == HoldsSpec => []HoldsTypeOK
BY HoldsTypeInit, HoldsTypeStep, PTL DEF HoldsSpec

-----------------------------------------------------------------------------
(***************************************************************************)
(* Counting the units of held stakes.                                      *)
(***************************************************************************)

\* A HELD row of n units adds n pairs, any other row none.
LEMMA UnitsCard ==
  ASSUME NEW b, NEW row \in ReservationRows
  PROVE  /\ IsFiniteSet(StakeUnits(b, row))
         /\ Cardinality(StakeUnits(b, row)) = IF row.status = "HELD" THEN row.amount ELSE 0
<1> USE BigintAssumption
<1>1. row.amount \in Nat
  BY DEF ReservationRows
<1>2. /\ IsFiniteSet(1..row.amount)
      /\ Cardinality(1..row.amount) = row.amount
  <2>1. 1 \in Int /\ row.amount \in Int
    BY <1>1
  <2>2. /\ IsFiniteSet(1..row.amount)
        /\ Cardinality(1..row.amount) = IF 1 > row.amount THEN 0 ELSE row.amount - 1 + 1
    BY <2>1, FS_Interval, Zenon
  <2>3. QED  BY <1>1, <2>2
<1>3. IsFiniteSet({b}) /\ Cardinality({b}) = 1
  BY FS_Singleton
<1>4. /\ IsFiniteSet({b} \X (1..row.amount))
      /\ Cardinality({b} \X (1..row.amount)) = 1 * row.amount
  <2>1. /\ IsFiniteSet({b} \X (1..row.amount))
        /\ Cardinality({b} \X (1..row.amount)) =
             Cardinality({b}) * Cardinality(1..row.amount)
    BY <1>2, <1>3, FS_Product, Zenon
  <2>2. QED  BY <1>2, <1>3, <2>1, Zenon
<1>5. QED  BY <1>1, <1>4, FS_EmptySet DEF StakeUnits

\* The units of a reference are pairs of that reference.
LEMMA UnitsBound ==
  ASSUME NEW b, NEW row \in ReservationRows
  PROVE  StakeUnits(b, row) \subseteq {b} \X (1..BigintMax)
<1>1. row.amount \in Nat /\ row.amount <= BigintMax
  BY BigintAssumption DEF ReservationRows
<1>2. 1..row.amount \subseteq 1..BigintMax
  BY <1>1, BigintAssumption
<1>3. QED  BY <1>2 DEF StakeUnits

\* The units of all references but one.
Others(rows, w, b) == UNION {StakeUnits(x, rows[<<w, x>>]) : x \in Refs \ {b}}

\* The units of a wallet are those of one reference and those of the others.
LEMMA StakeUnitsSplit ==
  ASSUME NEW rows \in [Slots -> ReservationRows], NEW w \in Wallets, NEW b \in Refs
  PROVE  /\ Cardinality(Others(rows, w, b)) \in Nat
         /\ Cardinality(UnitsOf(rows, w)) =
              Cardinality(Others(rows, w, b)) + Cardinality(StakeUnits(b, rows[<<w, b>>]))
<1> DEFINE O == Others(rows, w, b)
           U == StakeUnits(b, rows[<<w, b>>])
<1>1. \A x \in Refs : rows[<<w, x>>] \in ReservationRows
  BY DEF Slots
<1>2. O \subseteq (Refs \ {b}) \X (1..BigintMax)
  <2>1. \A x \in Refs \ {b} : StakeUnits(x, rows[<<w, x>>]) \subseteq {x} \X (1..BigintMax)
    BY <1>1, UnitsBound
  <2>2. ASSUME NEW u \in O PROVE u \in (Refs \ {b}) \X (1..BigintMax)
    <3>1. PICK x \in Refs \ {b} : u \in StakeUnits(x, rows[<<w, x>>])
      BY <2>2 DEF Others
    <3>2. u \in {x} \X (1..BigintMax)
      BY <2>1, <3>1
    <3>3. QED  BY <3>1, <3>2
  <2>3. QED  BY <2>2
<1>3. IsFiniteSet((Refs \ {b}) \X (1..BigintMax))
  <2>1. IsFiniteSet(1..BigintMax)
    BY BigintAssumption, FS_Interval
  <2>2. IsFiniteSet(Refs \ {b})
    BY RequestAssumption, StakeAssumption, FS_Difference
  <2>3. QED  BY <2>1, <2>2, FS_Product
<1>4. IsFiniteSet(O) /\ IsFiniteSet(U)
  BY <1>1, <1>2, <1>3, FS_Subset, UnitsCard
<1>5. UnitsOf(rows, w) = O \cup U
  BY DEF UnitsOf, Others
<1>6. O \cap U = {}
  BY <1>1, <1>2, UnitsBound
<1>7. Cardinality(O) \in Nat /\ Cardinality(U) \in Nat /\ Cardinality(O \cap U) = 0
  BY <1>4, <1>6, FS_CardinalityType, FS_EmptySet
<1>8. Cardinality(O \cup U) = Cardinality(O) + Cardinality(U) - Cardinality(O \cap U)
  BY <1>4, FS_Union
<1>9. QED  BY <1>5, <1>7, <1>8

\* Changing one reservation changes the count by that reservation's units.
LEMMA UnitsMove ==
  ASSUME NEW rows \in [Slots -> ReservationRows], NEW w \in Wallets, NEW b \in Refs,
         NEW row \in ReservationRows
  PROVE  LET new == [rows EXCEPT ![<<w, b>>] = row]
         IN  /\ Cardinality(UnitsOf(rows, w)) \in Nat
             /\ Cardinality(UnitsOf(new, w)) =
                  Cardinality(UnitsOf(rows, w))
                    - Cardinality(StakeUnits(b, rows[<<w, b>>])) + Cardinality(StakeUnits(b, row))
             /\ \A v \in Wallets \ {w} : UnitsOf(new, v) = UnitsOf(rows, v)
<1> DEFINE new == [rows EXCEPT ![<<w, b>>] = row]
<1>1. new \in [Slots -> ReservationRows] /\ new[<<w, b>>] = row
  BY DEF Slots
<1>2. Others(new, w, b) = Others(rows, w, b)
  <2>1. \A x \in Refs \ {b} : new[<<w, x>>] = rows[<<w, x>>]
    BY DEF Slots
  <2>2. QED  BY <2>1 DEF Others
<1>3. \A v \in Wallets \ {w} : UnitsOf(new, v) = UnitsOf(rows, v)
  <2>1. \A v \in Wallets \ {w}, x \in Refs : new[<<v, x>>] = rows[<<v, x>>]
    BY DEF Slots
  <2>2. QED  BY <2>1 DEF UnitsOf
<1>4. rows[<<w, b>>] \in ReservationRows
  BY DEF Slots
<1>5. /\ Cardinality(StakeUnits(b, row)) \in Nat
      /\ Cardinality(StakeUnits(b, rows[<<w, b>>])) \in Nat
  BY <1>4, UnitsCard, FS_CardinalityType
<1>6. QED
  <2> HIDE DEF new
  <2>1. Cardinality(UnitsOf(new, w)) =
          Cardinality(Others(new, w, b)) + Cardinality(StakeUnits(b, row))
    BY <1>1, StakeUnitsSplit
  <2>2. Cardinality(UnitsOf(rows, w)) =
          Cardinality(Others(rows, w, b)) + Cardinality(StakeUnits(b, rows[<<w, b>>]))
    BY StakeUnitsSplit
  <2>3. Cardinality(Others(rows, w, b)) \in Nat
    BY StakeUnitsSplit
  <2>4. /\ Cardinality(UnitsOf(rows, w)) \in Nat
        /\ Cardinality(UnitsOf(new, w)) =
              Cardinality(UnitsOf(rows, w))
                - Cardinality(StakeUnits(b, rows[<<w, b>>])) + Cardinality(StakeUnits(b, row))
    BY <2>1, <2>2, <2>3, <1>2, <1>5
  <2>5. QED  BY <2>4, <1>3 DEF new

-----------------------------------------------------------------------------
(***************************************************************************)
(* Claimed reservations stay HELD.                                         *)
(***************************************************************************)

\* Nothing is claimed initially, and every step keeps what is claimed HELD.
LEMMA HoldClaimsInit == HoldsInit => ClaimsHeld
BY DEF HoldsInit, ClaimsHeld, Idle

\* Only the owner of a row lock moves a claimed reservation out of HELD, and gives
\* up its lock doing so.
LEMMA HoldClaimsStep == HoldsTypeOK /\ ClaimsHeld /\ [HoldsNext]_holdsVars => ClaimsHeld'
<1> SUFFICES ASSUME HoldsTypeOK, ClaimsHeld, [HoldsNext]_holdsVars PROVE ClaimsHeld'
  OBVIOUS
<1> USE RequestAssumption, StakeAssumption DEF ClaimsHeld, Slot
<1> DEFINE Quiet(r) == /\ UNCHANGED <<reservation, rowLock>>
                       /\ \A q \in HoldRequests \ {r} : holdReq'[q] = holdReq[q]
                       /\ holdReq'[r].pc \notin {"claim", "wallet"}
<1>0. ASSUME NEW r \in HoldRequests, Quiet(r) PROVE ClaimsHeld'
  BY <1>0
<1>1. CASE UNCHANGED holdsVars
  BY <1>1 DEF holdsVars
<1>2. ASSUME NEW r \in HoldRequests, SubmitHold(r) PROVE ClaimsHeld'
  <2>1. holdReq'[r].pc = "lookup" /\ \A q \in HoldRequests \ {r} : holdReq'[q] = holdReq[q]
    BY <1>2 DEF SubmitHold, Call, HoldsTypeOK
  <2>2. QED  BY <1>0, <1>2, <2>1 DEF SubmitHold
<1>3. ASSUME NEW r \in HoldRequests, ReturnHold(r) PROVE ClaimsHeld'
  BY <1>0, <1>3 DEF ReturnHold, HoldsTypeOK, Idle
<1>4. ASSUME NEW r \in HoldRequests, FailHold(r) PROVE ClaimsHeld'
  <2>1. holdReq'[r] = Idle /\ \A q \in HoldRequests \ {r} : holdReq'[q] = holdReq[q]
    BY <1>4 DEF FailHold, HoldsTypeOK
  <2>2. \A q \in HoldRequests \ {r} : holdReq[q].pc = "wallet" => rowLock'[Slot(q)] = q
    BY <1>4, ActiveCall DEF FailHold
  <2>3. QED  BY <1>4, <2>1, <2>2 DEF FailHold, Idle
<1>5. ASSUME NEW r \in HoldRequests,
             HoldLookup(r) \/ HoldRefused(r)
               \/ HoldConflict(r) \/ HoldReread(r)
       PROVE ClaimsHeld'
  <2>1. holdReq[r] \in Calls
    BY <1>5, ActiveCall DEF HoldLookup, HoldRefused, HoldConflict,
                            HoldReread, HoldAt
  <2>2. \/ \E outcome, status : ReplyHold(r, outcome, status)
        \/ Goto(r, "tx") \/ Goto(r, "reread")
    BY <1>5 DEF HoldLookup, HoldRefused, HoldConflict, HoldReread
  <2>3. holdReq'[r].pc \in {"tx", "reread", "done"} /\ \A q \in HoldRequests \ {r} : holdReq'[q] = holdReq[q]
    <3>1. CASE \E outcome, status : ReplyHold(r, outcome, status)
      <4>1. PICK outcome, status : ReplyHold(r, outcome, status)
        BY <3>1
      <4>2. QED  BY <2>1, <4>1 DEF ReplyHold, HoldsTypeOK, Calls
    <3>2. CASE Goto(r, "tx") \/ Goto(r, "reread")
      BY <2>1, <3>2 DEF Goto, HoldsTypeOK, Calls
    <3>3. QED  BY <2>2, <3>1, <3>2
  <2>4. UNCHANGED <<reservation, rowLock>>
    BY <1>5 DEF HoldLookup, HoldRefused, HoldConflict, HoldReread
  <2>5. QED  BY <1>0, <2>3, <2>4
<1>6. ASSUME NEW r \in HoldRequests, HoldCommit(r) PROVE ClaimsHeld'
  <2>1. holdReq[r] \in Calls /\ Slot(r) \in Slots
    BY <1>6, ActiveCall DEF HoldCommit, HoldAt
  <2>2. holdReq'[r].pc = "done" /\ \A q \in HoldRequests \ {r} : holdReq'[q] = holdReq[q]
    BY <1>6, <2>1 DEF HoldCommit, ReplyHold, HoldsTypeOK, Calls
  <2>3. \A s \in Slots : reservation[s].status # "NONE" => reservation'[s] = reservation[s]
    BY <1>6, <2>1 DEF HoldCommit, HoldUnique, HoldsTypeOK
  <2>4. \A q \in HoldRequests : holdReq[q].pc # "idle" => Slot(q) \in Slots
    BY ActiveCall
  <2>5. UNCHANGED rowLock
    BY <1>6 DEF HoldCommit
  <2>6. QED  BY <2>2, <2>3, <2>4, <2>5
<1>7. ASSUME NEW r \in HoldRequests, FinalizeLookup(r) PROVE ClaimsHeld'
  <2>1. holdReq[r] \in Calls /\ Slot(r) \in Slots
    BY <1>7, ActiveCall DEF FinalizeLookup
  <2>2. UNCHANGED <<reservation, rowLock>> /\ \A q \in HoldRequests \ {r} : holdReq'[q] = holdReq[q]
    BY <1>7 DEF FinalizeLookup, Refinalize, ReplyHold, HoldsTypeOK
  <2>3. \/ holdReq'[r].pc = "done"
        \/ /\ holdReq'[r].pc = "claim" /\ reservation[Slot(r)].status = "HELD"
           /\ holdReq'[r] = [holdReq[r] EXCEPT !.pc = "claim", !.amount = reservation[Slot(r)].amount]
    <3> DEFINE row == reservation[Slot(r)]
    <3>1. CASE ReplyHold(r, "notFound", "NONE") \/ Refinalize(r)
      BY <2>1, <3>1 DEF Refinalize, ReplyHold, HoldsTypeOK, Calls
    <3>2. CASE /\ row.status = "HELD"
               /\ holdReq' = [holdReq EXCEPT ![r].pc = "claim", ![r].amount = row.amount]
      BY <2>1, <3>2 DEF HoldsTypeOK, Calls
    <3>3. QED  BY <1>7, <3>1, <3>2 DEF FinalizeLookup
  <2>4. CASE holdReq'[r].pc = "done"
    BY <1>0, <2>2, <2>4
  <2>5. CASE holdReq'[r] = [holdReq[r] EXCEPT !.pc = "claim", !.amount = reservation[Slot(r)].amount]
             /\ reservation[Slot(r)].status = "HELD"
    <3>1. /\ holdReq'[r].op = holdReq[r].op /\ holdReq'[r].wallet = holdReq[r].wallet
          /\ holdReq'[r].bet = holdReq[r].bet /\ holdReq'[r].pc = "claim"
          /\ holdReq'[r].amount = reservation[Slot(r)].amount
      BY <2>1, <2>5 DEF Calls
    <3>2. /\ holdReq[r].op \in Finalizers
          /\ reservation' = reservation /\ rowLock' = rowLock
      BY <1>7, <2>2 DEF FinalizeLookup
    <3>3. Slot(r)' = Slot(r) /\ \A q \in HoldRequests \ {r} : Slot(q)' = Slot(q)
      BY <2>2, <3>1
    <3>4. ASSUME NEW q \in HoldRequests, holdReq'[q].pc \in {"claim", "wallet"}
          PROVE  /\ holdReq'[q].op \in Finalizers
                 /\ reservation'[Slot(q)'].status # "NONE"
                 /\ holdReq'[q].amount = reservation'[Slot(q)'].amount
                 /\ holdReq'[q].pc = "wallet" => /\ rowLock'[Slot(q)'] = q
                                             /\ reservation'[Slot(q)'].status = "HELD"
      <4>1. CASE q = r
        BY <2>5, <3>1, <3>2, <3>3, <4>1
      <4>2. CASE q # r
        BY <2>2, <3>2, <3>3, <3>4, <4>2
      <4>3. QED  BY <4>1, <4>2
    <3>5. QED  BY <3>4
  <2>6. QED  BY <2>3, <2>4, <2>5
<1>8. ASSUME NEW r \in HoldRequests, FinalizeClaim(r) PROVE ClaimsHeld'
  <2>1. holdReq[r] \in Calls /\ Slot(r) \in Slots
    BY <1>8, ActiveCall DEF FinalizeClaim
  <2>2. /\ holdReq'[r].pc = "wallet" /\ holdReq'[r].op = holdReq[r].op /\ holdReq'[r].wallet = holdReq[r].wallet
        /\ holdReq'[r].bet = holdReq[r].bet /\ holdReq'[r].amount = holdReq[r].amount
        /\ \A q \in HoldRequests \ {r} : holdReq'[q] = holdReq[q]
    BY <1>8, <2>1 DEF FinalizeClaim, Goto, HoldsTypeOK, Calls
  <2>3. rowLock'[Slot(r)] = r /\ \A s \in Slots : rowLock[s] # NoRequest => rowLock'[s] = rowLock[s]
    BY <1>8, <2>1 DEF FinalizeClaim, HoldsTypeOK
  <2>4. \A q \in HoldRequests : holdReq[q].pc # "idle" => Slot(q) \in Slots
    BY ActiveCall
  <2>5. QED  BY <1>8, <2>2, <2>3, <2>4 DEF FinalizeClaim
<1>9. ASSUME NEW r \in HoldRequests, FinalizeLate(r) PROVE ClaimsHeld'
  <2>1. holdReq[r] \in Calls
    BY <1>9, ActiveCall DEF FinalizeLate
  <2>2. holdReq'[r].pc = "done" /\ \A q \in HoldRequests \ {r} : holdReq'[q] = holdReq[q]
    BY <1>9, <2>1 DEF FinalizeLate, Refinalize, ReplyHold, HoldsTypeOK, Calls
  <2>3. QED  BY <1>0, <1>9, <2>2 DEF FinalizeLate
<1>10. ASSUME NEW r \in HoldRequests, ReleaseCommit(r) \/ CaptureCommit(r) PROVE ClaimsHeld'
  <2>1. holdReq[r].pc = "wallet" /\ Finalized(r)
    BY <1>10 DEF ReleaseCommit, CaptureCommit, HoldAt
  <2>2. holdReq[r] \in Calls /\ Slot(r) \in Slots
    BY <2>1, ActiveCall
  <2>3. holdReq'[r].pc = "done" /\ \A q \in HoldRequests \ {r} : holdReq'[q] = holdReq[q]
    BY <2>1, <2>2 DEF Finalized, ReplyHold, HoldsTypeOK, Calls
  <2>4. /\ \A s \in Slots \ {Slot(r)} : reservation'[s] = reservation[s] /\ rowLock'[s] = rowLock[s]
        /\ reservation'[Slot(r)].status = Target(holdReq[r].op)
        /\ reservation'[Slot(r)].amount = reservation[Slot(r)].amount
    BY <2>1, <2>2 DEF Finalized, HoldsTypeOK, ReservationRows
  <2>5. \A q \in HoldRequests : holdReq[q].pc # "idle" => Slot(q) \in Slots
    BY ActiveCall
  <2>6. \A q \in HoldRequests \ {r} : holdReq[q].pc = "wallet" => Slot(q) # Slot(r)
    <3>1. rowLock[Slot(r)] = r /\ \A q \in HoldRequests : holdReq[q].pc = "wallet" => rowLock[Slot(q)] = q
      BY <2>1
    <3>2. QED  BY <3>1
  <2>7. Target(holdReq[r].op) # "NONE"
    BY DEF Target
  <2>8. QED  BY <2>3, <2>4, <2>5, <2>6, <2>7
<1>11. ASSUME NEW r \in HoldRequests, FinalizeAbort(r) PROVE ClaimsHeld'
  <2>1. holdReq[r] \in Calls /\ Slot(r) \in Slots
    BY <1>11, ActiveCall DEF FinalizeAbort
  <2>2. holdReq'[r].pc = "done" /\ \A q \in HoldRequests \ {r} : holdReq'[q] = holdReq[q]
    BY <1>11, <2>1 DEF FinalizeAbort, ReplyHold, HoldsTypeOK, Calls
  <2>3. \A s \in Slots \ {Slot(r)} : rowLock'[s] = rowLock[s]
    BY <1>11, <2>1 DEF FinalizeAbort, HoldsTypeOK
  <2>4. \A q \in HoldRequests \ {r} : holdReq[q].pc = "wallet" => Slot(q) # Slot(r)
    BY <1>11 DEF FinalizeAbort
  <2>5. \A q \in HoldRequests : holdReq[q].pc # "idle" => Slot(q) \in Slots
    BY ActiveCall
  <2>6. QED  BY <1>11, <2>2, <2>3, <2>4, <2>5 DEF FinalizeAbort
<1>12. ASSUME NEW w \in Wallets, NEW delta \in Deltas, NEW key \in Keys,
              HoldsAdjust(w, delta, key)
       PROVE  ClaimsHeld'
  BY <1>12 DEF HoldsAdjust
<1>13. QED
  BY <1>1, <1>2, <1>3, <1>4, <1>5, <1>6, <1>7, <1>8, <1>9, <1>10, <1>11, <1>12
     DEF HoldsNext, ServeHold

-----------------------------------------------------------------------------
(***************************************************************************)
(* The locked funds are the held stakes.                                   *)
(***************************************************************************)

\* Nothing is held initially.
LEMMA HoldsLockedInit == HoldsInit => LockedMatchesHeld
<1> SUFFICES ASSUME HoldsInit, NEW w \in Wallets PROVE wallet[w].locked = Cardinality(HeldUnits(w))
  BY DEF LockedMatchesHeld
<1>1. \A b \in Refs : StakeUnits(b, reservation[<<w, b>>]) = {}
  BY DEF HoldsInit, NoReservation, StakeUnits, Slots
<1>2. HeldUnits(w) = {}
  BY <1>1 DEF HeldUnits, UnitsOf
<1>3. QED  BY <1>2, FS_EmptySet DEF HoldsInit, MoneyInit

\* What a wallet has locked beyond the stakes it holds.
BeyondHeld(w) == wallet[w].locked - Cardinality(HeldUnits(w))

LEMMA UnitsCounted ==
  ASSUME NEW rows \in [Slots -> ReservationRows], NEW w \in Wallets
  PROVE  Cardinality(UnitsOf(rows, w)) \in Nat
<1>1. CASE Refs = {}
  <2>1. UnitsOf(rows, w) = {}
    BY <1>1 DEF UnitsOf
  <2>2. QED  BY <2>1, FS_EmptySet
<1>2. ASSUME NEW b \in Refs PROVE Cardinality(UnitsOf(rows, w)) \in Nat
  <2>1. rows[<<w, b>>] \in ReservationRows
    BY DEF Slots
  <2>2. Cardinality(StakeUnits(b, rows[<<w, b>>])) \in Nat
    BY <2>1, UnitsCard, FS_CardinalityType
  <2>3. /\ Cardinality(Others(rows, w, b)) \in Nat
        /\ Cardinality(UnitsOf(rows, w)) =
             Cardinality(Others(rows, w, b)) + Cardinality(StakeUnits(b, rows[<<w, b>>]))
    BY StakeUnitsSplit
  <2>4. QED  BY <2>2, <2>3
<1>3. QED  BY <1>1, <1>2

LEMMA HeldNumbers ==
  ASSUME HoldsTypeOK, NEW w \in Wallets
  PROVE  wallet[w].locked \in Nat /\ Cardinality(HeldUnits(w)) \in Nat
BY UnitsCounted, BigintAssumption DEF HoldsTypeOK, WalletRows, HeldUnits

\* A step that changes one reservation and moves the locked funds of its wallet
\* by the difference of the held amounts keeps what is locked beyond them.
LEMMA LockedMove ==
  ASSUME HoldsTypeOK, NEW w \in Wallets, NEW b \in Refs, NEW row \in ReservationRows,
         reservation' = [reservation EXCEPT ![<<w, b>>] = row],
         wallet'[w].locked = wallet[w].locked
                               - Cardinality(StakeUnits(b, reservation[<<w, b>>]))
                               + Cardinality(StakeUnits(b, row)),
         \A v \in Wallets \ {w} : wallet'[v] = wallet[v]
  PROVE  \A v \in Wallets : BeyondHeld(v)' = BeyondHeld(v)
<1> DEFINE new == [reservation EXCEPT ![<<w, b>>] = row]
           old == Cardinality(StakeUnits(b, reservation[<<w, b>>]))
           now == Cardinality(StakeUnits(b, row))
<1>1. reservation \in [Slots -> ReservationRows] /\ reservation[<<w, b>>] \in ReservationRows
  BY DEF HoldsTypeOK, Slots
<1>2. /\ Cardinality(UnitsOf(new, w)) = Cardinality(UnitsOf(reservation, w)) - old + now
      /\ \A v \in Wallets \ {w} : UnitsOf(new, v) = UnitsOf(reservation, v)
  BY <1>1, UnitsMove
<1>3. reservation' = new
  OBVIOUS
<1>4. old \in Nat /\ now \in Nat
  BY <1>1, UnitsCard, FS_CardinalityType
<1> HIDE DEF new, old, now
<1>5. /\ Cardinality(HeldUnits(w)') = Cardinality(HeldUnits(w)) - old + now
      /\ \A v \in Wallets \ {w} : HeldUnits(v)' = HeldUnits(v)
  BY <1>2, <1>3 DEF HeldUnits
<1>6. wallet'[w].locked = wallet[w].locked - old + now
  BY DEF old, now
<1>7. BeyondHeld(w)' = BeyondHeld(w)
  BY <1>4, <1>5, <1>6, HeldNumbers DEF BeyondHeld
<1>8. \A v \in Wallets \ {w} : BeyondHeld(v)' = BeyondHeld(v)
  BY <1>5 DEF BeyondHeld
<1>9. QED  BY <1>7, <1>8

\* A hold, a release and a capture each move the locked funds by the held amount
\* they add or remove; no other step touches either.
LEMMA BeyondHeldKept ==
  HoldsTypeOK /\ ClaimsHeld /\ [HoldsNext]_holdsVars
    => \A w \in Wallets : BeyondHeld(w)' = BeyondHeld(w)
<1> DEFINE Kept == \A w \in Wallets : BeyondHeld(w)' = BeyondHeld(w)
<1> SUFFICES ASSUME HoldsTypeOK, ClaimsHeld, [HoldsNext]_holdsVars PROVE Kept
  OBVIOUS
<1> USE BigintAssumption, RequestAssumption, StakeAssumption
<1>1. CASE UNCHANGED <<wallet, reservation>>
  BY <1>1 DEF BeyondHeld, HeldUnits
<1>2. ASSUME NEW r \in HoldRequests, HoldCommit(r) PROVE Kept
  <2> DEFINE w == holdReq[r].wallet
             b == holdReq[r].bet
             row == [status |-> "HELD", amount |-> holdReq[r].amount, holdKey |-> holdReq[r].key,
                     holdTx |-> Len(ledger[w]) + 1, finalTx |-> 0]
  <2>1. holdReq[r] \in Calls /\ Slot(r) \in Slots
    BY <1>2, ActiveCall DEF HoldCommit, HoldAt
  <2>2. w \in Wallets /\ b \in Refs /\ holdReq[r].amount \in Nat
    BY <2>1 DEF Calls
  <2>3. reservation' = [reservation EXCEPT ![<<w, b>>] = row]
    BY <1>2 DEF HoldCommit, Slot
  <2>4. row \in ReservationRows
    BY <2>1 DEF ReservationRows, Statuses, HoldsTypeOK, Calls
  <2>5. reservation[<<w, b>>] \in ReservationRows /\ reservation[<<w, b>>].status = "NONE"
    BY <1>2, <2>1 DEF HoldCommit, HoldUnique, Slot, HoldsTypeOK
  <2>6. /\ Cardinality(StakeUnits(b, reservation[<<w, b>>])) = 0
        /\ Cardinality(StakeUnits(b, row)) = holdReq[r].amount
    BY <2>4, <2>5, UnitsCard
  <2>7. /\ wallet'[w].locked = wallet[w].locked + holdReq[r].amount
        /\ wallet[w].locked \in Nat
        /\ \A v \in Wallets \ {w} : wallet'[v] = wallet[v]
    BY <1>2, <2>2 DEF HoldCommit, DebitBalanceInTx, HoldsTypeOK, WalletRows
  <2>8. wallet'[w].locked = wallet[w].locked
          - Cardinality(StakeUnits(b, reservation[<<w, b>>])) + Cardinality(StakeUnits(b, row))
    BY <2>2, <2>6, <2>7
  <2> HIDE DEF w, b, row
  <2>9. QED  BY <2>2, <2>3, <2>4, <2>7, <2>8, LockedMove
<1>3. ASSUME NEW r \in HoldRequests, ReleaseCommit(r) \/ CaptureCommit(r)
      PROVE  Kept
  <2> DEFINE w == holdReq[r].wallet
             b == holdReq[r].bet
             old == reservation[<<w, b>>]
             row == [old EXCEPT !.status = Target(holdReq[r].op),
                                !.finalTx = Len(ledger[w]) + 1]
  <2>1. holdReq[r].pc = "wallet" /\ holdReq[r].op \in Finalizers /\ Finalized(r) /\ LockCovers(r)
    BY <1>3 DEF ReleaseCommit, CaptureCommit, HoldAt, Finalizers
  <2>2. holdReq[r] \in Calls /\ Slot(r) \in Slots /\ Slot(r) = <<w, b>>
    BY <2>1, ActiveCall DEF Slot
  <2>3. w \in Wallets /\ b \in Refs /\ holdReq[r].amount \in Nat
    BY <2>2 DEF Calls
  <2>4. old \in ReservationRows /\ old.status = "HELD" /\ old.amount = holdReq[r].amount
    <3>1. reservation[Slot(r)].status = "HELD" /\ holdReq[r].amount = reservation[Slot(r)].amount
      BY <2>1 DEF ClaimsHeld
    <3>2. reservation[Slot(r)] \in ReservationRows
      BY <2>2 DEF HoldsTypeOK
    <3>3. QED  BY <2>2, <3>1, <3>2
  <2>5. reservation' = [reservation EXCEPT ![<<w, b>>] = row]
    BY <2>1, <2>2, <2>4 DEF Finalized, HoldsTypeOK, ReservationRows
  <2>6. row \in ReservationRows /\ row.status # "HELD"
    <3>1. Target(holdReq[r].op) \in Statuses \ {"HELD"}
      BY DEF Target, Statuses
    <3>2. Len(ledger[w]) + 1 \in Nat
      BY <2>3 DEF HoldsTypeOK
    <3>3. QED  BY <2>4, <3>1, <3>2 DEF ReservationRows
  <2>7. /\ Cardinality(StakeUnits(b, old)) = holdReq[r].amount
        /\ Cardinality(StakeUnits(b, row)) = 0
    BY <2>4, <2>6, UnitsCard
  <2>8. /\ wallet'[w].locked = wallet[w].locked - holdReq[r].amount
        /\ wallet[w].locked \in Nat
        /\ \A v \in Wallets \ {w} : wallet'[v] = wallet[v]
    BY <1>3, <2>3 DEF ReleaseCommit, CaptureCommit, HoldsTypeOK, WalletRows
  <2>9. wallet'[w].locked = wallet[w].locked
          - Cardinality(StakeUnits(b, old)) + Cardinality(StakeUnits(b, row))
    BY <2>3, <2>7, <2>8
  <2> HIDE DEF w, b, row
  <2>10. QED  BY <2>3, <2>5, <2>6, <2>8, <2>9, LockedMove
<1>4. ASSUME NEW w \in Wallets, NEW delta \in Deltas, NEW key \in Keys,
             HoldsAdjust(w, delta, key)
      PROVE  Kept
  <2>1. \A v \in Wallets : wallet'[v].locked = wallet[v].locked
    BY <1>4 DEF HoldsAdjust, AdjustWalletBalance, HoldsTypeOK, WalletRows
  <2>2. QED  BY <1>4, <2>1 DEF HoldsAdjust, BeyondHeld, HeldUnits
<1>5. QED
  BY <1>1, <1>2, <1>3, <1>4
     DEF HoldsNext, ServeHold, holdsVars, SubmitHold, ReturnHold, FailHold, HoldLookup, HoldRefused, HoldConflict, HoldReread, FinalizeLookup, FinalizeClaim,
         FinalizeLate, FinalizeAbort

\* So if nothing is locked beyond the held stakes, nothing ever is.
LEMMA HoldsLockedStep == HoldsInv /\ [HoldsNext]_holdsVars => LockedMatchesHeld'
<1> SUFFICES ASSUME HoldsInv, [HoldsNext]_holdsVars, NEW w \in Wallets
             PROVE  wallet'[w].locked = Cardinality(HeldUnits(w)')
  BY DEF LockedMatchesHeld
<1>1. HoldsTypeOK /\ HoldsTypeOK'
  BY HoldsTypeStep DEF HoldsInv
<1>2. BeyondHeld(w) = 0
  BY <1>1, HeldNumbers DEF HoldsInv, LockedMatchesHeld, BeyondHeld
<1>3. BeyondHeld(w)' = 0
  BY <1>2, BeyondHeldKept DEF HoldsInv
<1>4. wallet'[w].locked \in Nat /\ Cardinality(HeldUnits(w)') \in Nat
  <2>1. Cardinality(UnitsOf(reservation', w)) \in Nat
    BY <1>1, UnitsCounted DEF HoldsTypeOK
  <2>2. QED  BY <1>1, <2>1, BigintAssumption DEF HoldsTypeOK, WalletRows, HeldUnits
<1>5. QED  BY <1>3, <1>4 DEF BeyondHeld

\* The inductive invariant holds in every reachable state.
THEOREM HoldsInvariance == HoldsSpec => []HoldsInv
<1>1. HoldsInit => HoldsInv
  BY HoldsTypeInit, HoldClaimsInit, HoldsLockedInit DEF HoldsInv
<1>2. HoldsInv /\ [HoldsNext]_holdsVars => HoldsInv'
  BY HoldsTypeStep, HoldClaimsStep, HoldsLockedStep DEF HoldsInv
<1>3. QED  BY <1>1, <1>2, PTL DEF HoldsSpec

\* The locked funds of every wallet are exactly the sum of its HELD stakes, and
\* balances and locked funds stay in the range of their columns, for any number of wallets, references, keys and concurrent requests.
THEOREM LockedFundsExact == HoldsSpec => []HoldsAddUp
<1>1. HoldsInv => HoldsAddUp
  BY DEF HoldsInv, HoldsAddUp
<1>2. QED  BY <1>1, HoldsInvariance, PTL

-----------------------------------------------------------------------------
(***************************************************************************)
(* The ledger's chain of balances.                                         *)
(***************************************************************************)

\* Posting a row that starts from the wallet's balance and leaves the new one,
\* under an unused key, continues the chain.
LEMMA HoldsPostContinues ==
  ASSUME HoldsTypeOK, LedgerContinuity, NEW w \in Wallets, NEW entry \in LedgerRows,
         Post(w, entry), ~KeyUsed(w, entry.key),
         entry.before = wallet[w].balance, wallet'[w].balance = entry.after,
         \A v \in Wallets \ {w} : wallet'[v] = wallet[v]
  PROVE  LedgerContinuity'
<1> DEFINE rows == ledger[w]
           new == Append(rows, entry)
<1>1. rows \in Seq(LedgerRows) /\ ledger' = [ledger EXCEPT ![w] = new] /\ ledger'[w] = new
  BY DEF HoldsTypeOK, Post
<1>2. \A v \in Wallets \ {w} : ledger'[v] = ledger[v]
  BY DEF HoldsTypeOK, Post
<1>3. ChainFrom(rows, wallet[w].balance) /\ KeysDistinct(rows)
  BY DEF LedgerContinuity
<1>4. \A i \in DOMAIN rows : rows[i].key # entry.key
  BY DEF KeyUsed
<1>5. ChainFrom(new, wallet'[w].balance) /\ KeysDistinct(new)
  BY <1>1, <1>3, <1>4, ChainAppend
<1>6. QED
  BY <1>1, <1>2, <1>5 DEF LedgerContinuity

\* An empty wallet has an empty ledger.
LEMMA HoldsContinuityInit == HoldsInit => LedgerContinuity
<1> SUFFICES ASSUME HoldsInit, NEW w \in Wallets
             PROVE  ChainFrom(ledger[w], wallet[w].balance) /\ KeysDistinct(ledger[w])
  BY DEF LedgerContinuity
<1>1. ledger[w] = <<>> /\ wallet[w].balance = 0
  BY DEF HoldsInit, MoneyInit
<1>2. Len(ledger[w]) = 0 /\ DOMAIN ledger[w] = {}
  BY <1>1
<1>3. QED  BY <1>1, <1>2 DEF ChainFrom, KeysDistinct

\* Every posting starts from the balance of the wallet, leaves its new one, and
\* uses a key of its own.
LEMMA HoldsContinuityStep == HoldsTypeOK /\ LedgerContinuity /\ [HoldsNext]_holdsVars => LedgerContinuity'
<1> SUFFICES ASSUME HoldsTypeOK, LedgerContinuity, [HoldsNext]_holdsVars PROVE LedgerContinuity'
  OBVIOUS
<1> USE BigintAssumption, RequestAssumption, StakeAssumption
<1>1. CASE UNCHANGED <<wallet, ledger>>
  BY <1>1 DEF LedgerContinuity
<1>2. ASSUME NEW r \in HoldRequests, HoldCommit(r) PROVE LedgerContinuity'
  <2> DEFINE w == holdReq[r].wallet
             amount == holdReq[r].amount
             before == wallet[w].balance
             entry == Entry("BET_HOLD", "DEBIT", amount, before, before - amount,
                            holdReq[r].key, holdReq[r].bet)
  <2>1. holdReq[r] \in Calls
    BY <1>2, ActiveCall DEF HoldCommit, HoldAt
  <2>2. w \in Wallets /\ holdReq[r].bet \in Refs /\ holdReq[r].key \in Keys /\ amount \in 0..BigintMax
    BY <2>1 DEF Calls
  <2>3. wallet[w] \in WalletRows
    BY <2>2 DEF HoldsTypeOK
  <2>4. before - amount \in 0..BigintMax /\ before \in 0..BigintMax
    BY <1>2, <2>2, <2>3 DEF HoldCommit, DebitBalanceInTx, CanDebit, WalletRows
  <2>5. /\ entry \in LedgerRows /\ entry.before = before
        /\ entry.after = before - amount /\ entry.key = holdReq[r].key
    BY <2>2, <2>4 DEF Entry, LedgerRows, Reasons
  <2>6. wallet'[w].balance = before - amount /\ \A v \in Wallets \ {w} : wallet'[v] = wallet[v]
    BY <1>2, <2>2 DEF HoldCommit, DebitBalanceInTx, HoldsTypeOK
  <2>7. Post(w, entry) /\ ~KeyUsed(w, holdReq[r].key)
    BY <1>2 DEF HoldCommit, HoldUnique
  <2> HIDE DEF entry
  <2>8. QED  BY <2>2, <2>5, <2>6, <2>7, HoldsPostContinues
<1>3. ASSUME NEW r \in HoldRequests, ReleaseCommit(r) PROVE LedgerContinuity'
  <2> DEFINE w == holdReq[r].wallet
             amount == holdReq[r].amount
             after == wallet[w].balance + amount
             entry == Entry("BET_RELEASE", "CREDIT", amount, after - amount, after,
                            holdReq[r].key, holdReq[r].bet)
  <2>1. holdReq[r] \in Calls
    BY <1>3, ActiveCall DEF ReleaseCommit, HoldAt
  <2>2. w \in Wallets /\ holdReq[r].bet \in Refs /\ holdReq[r].key \in Keys /\ amount \in 0..BigintMax
    BY <2>1 DEF Calls
  <2>3. wallet[w] \in WalletRows
    BY <2>2 DEF HoldsTypeOK
  <2>4. /\ after \in 0..BigintMax /\ after - amount \in 0..BigintMax
        /\ after - amount = wallet[w].balance
    <3>1. after \in 0..BigintMax
      BY <1>3 DEF ReleaseCommit, Fits
    <3>2. wallet[w].balance \in 0..BigintMax
      BY <2>3 DEF WalletRows
    <3>3. after - amount = wallet[w].balance
      BY <2>2, <3>2
    <3>4. QED  BY <3>1, <3>2, <3>3
  <2>5. /\ entry \in LedgerRows /\ entry.before = after - amount
        /\ entry.after = after /\ entry.key = holdReq[r].key
    BY <2>2, <2>4 DEF Entry, LedgerRows, Reasons
  <2>6. wallet'[w].balance = after /\ \A v \in Wallets \ {w} : wallet'[v] = wallet[v]
    BY <1>3, <2>2, <2>3 DEF ReleaseCommit, HoldsTypeOK, WalletRows
  <2>7. Post(w, entry) /\ ~KeyUsed(w, holdReq[r].key)
    BY <1>3 DEF ReleaseCommit
  <2> HIDE DEF entry
  <2>8. QED  BY <2>2, <2>4, <2>5, <2>6, <2>7, HoldsPostContinues
<1>4. ASSUME NEW r \in HoldRequests, CaptureCommit(r) PROVE LedgerContinuity'
  <2> DEFINE w == holdReq[r].wallet
             amount == holdReq[r].amount
             balance == wallet[w].balance
             entry == Entry("BET_CAPTURE", "DEBIT", amount, balance, balance,
                            holdReq[r].key, holdReq[r].bet)
  <2>1. holdReq[r] \in Calls
    BY <1>4, ActiveCall DEF CaptureCommit, HoldAt
  <2>2. w \in Wallets /\ holdReq[r].bet \in Refs /\ holdReq[r].key \in Keys /\ amount \in 0..BigintMax
    BY <2>1 DEF Calls
  <2>3. balance \in 0..BigintMax
    BY <2>2 DEF HoldsTypeOK, WalletRows
  <2>4. /\ entry \in LedgerRows /\ entry.before = balance
        /\ entry.after = balance /\ entry.key = holdReq[r].key
    BY <2>2, <2>3 DEF Entry, LedgerRows, Reasons
  <2>5. wallet'[w].balance = balance /\ \A v \in Wallets \ {w} : wallet'[v] = wallet[v]
    BY <1>4, <2>2 DEF CaptureCommit, HoldsTypeOK, WalletRows
  <2>6. Post(w, entry) /\ ~KeyUsed(w, holdReq[r].key)
    BY <1>4 DEF CaptureCommit
  <2> HIDE DEF entry
  <2>7. QED  BY <2>2, <2>4, <2>5, <2>6, HoldsPostContinues
<1>5. ASSUME NEW w \in Wallets, NEW delta \in Deltas, NEW key \in Keys,
             HoldsAdjust(w, delta, key)
      PROVE  LedgerContinuity'
  <2> DEFINE before == wallet[w].balance
             after == before + delta
             size == IF delta > 0 THEN delta ELSE -delta
             entry == Entry("ADJUST", IF delta > 0 THEN "CREDIT" ELSE "DEBIT", size,
                            before, after, key, NoRef)
  <2>1. wallet[w] \in WalletRows
    BY DEF HoldsTypeOK
  <2>2. before \in 0..BigintMax /\ after \in 0..BigintMax /\ size \in 0..BigintMax
    BY <1>5, <2>1 DEF HoldsAdjust, AdjustWalletBalance, Fits, WalletRows
  <2>3. /\ entry \in LedgerRows /\ entry.before = before
        /\ entry.after = after /\ entry.key = key
    BY <2>2 DEF Entry, LedgerRows, Reasons
  <2>4. wallet'[w].balance = after /\ \A v \in Wallets \ {w} : wallet'[v] = wallet[v]
    BY <1>5, <2>1 DEF HoldsAdjust, AdjustWalletBalance, HoldsTypeOK, WalletRows
  <2>5. Post(w, entry) /\ ~KeyUsed(w, key)
    BY <1>5 DEF HoldsAdjust, AdjustWalletBalance
  <2> HIDE DEF entry
  <2>6. QED  BY <2>3, <2>4, <2>5, HoldsPostContinues
<1>6. QED
  BY <1>1, <1>2, <1>3, <1>4, <1>5
     DEF HoldsNext, ServeHold, holdsVars, SubmitHold, ReturnHold, FailHold, HoldLookup, HoldRefused, HoldConflict, HoldReread, FinalizeLookup, FinalizeClaim,
         FinalizeLate, FinalizeAbort

\* The ledger of every wallet is an unbroken chain of balances that ends in the
\* wallet's balance, and no idempotency key posts twice.
THEOREM LedgerUnbroken == HoldsSpec => []LedgerContinuity
<1>1. HoldsInit => HoldsTypeOK /\ LedgerContinuity
  BY HoldsTypeInit, HoldsContinuityInit
<1>2. HoldsTypeOK /\ LedgerContinuity /\ [HoldsNext]_holdsVars => (HoldsTypeOK /\ LedgerContinuity)'
  BY HoldsTypeStep, HoldsContinuityStep
<1>3. QED  BY <1>1, <1>2, PTL DEF HoldsSpec

-----------------------------------------------------------------------------
(***************************************************************************)
(* Final reservations.                                                     *)
(***************************************************************************)

\* Every step treats every reservation lawfully.
LEMMA HoldsLawfulStep ==
  HoldsTypeOK /\ ClaimsHeld /\ [HoldsNext]_holdsVars => \A s \in Slots : Lawful(s)
<1> SUFFICES ASSUME HoldsTypeOK, ClaimsHeld, [HoldsNext]_holdsVars, NEW s \in Slots PROVE Lawful(s)
  OBVIOUS
<1>1. CASE UNCHANGED reservation
  BY <1>1 DEF Lawful
<1>2. ASSUME NEW r \in HoldRequests, HoldCommit(r) PROVE Lawful(s)
  <2>1. Slot(r) \in Slots
    BY <1>2, ActiveCall DEF HoldCommit, HoldAt
  <2>2. CASE s = Slot(r)
    <3>1. reservation[s].status = "NONE" /\ reservation'[s].status = "HELD"
      BY <1>2, <2>1, <2>2 DEF HoldCommit, HoldUnique, HoldsTypeOK
    <3>2. QED  BY <3>1 DEF Lawful
  <2>3. CASE s # Slot(r)
    <3>1. reservation'[s] = reservation[s]
      BY <1>2, <2>1, <2>3 DEF HoldCommit, HoldsTypeOK
    <3>2. QED  BY <3>1 DEF Lawful
  <2>4. QED  BY <2>2, <2>3
<1>3. ASSUME NEW r \in HoldRequests, ReleaseCommit(r) \/ CaptureCommit(r) PROVE Lawful(s)
  <2>1. holdReq[r].pc = "wallet" /\ Finalized(r)
    BY <1>3 DEF ReleaseCommit, CaptureCommit, HoldAt
  <2>2. Slot(r) \in Slots /\ reservation[Slot(r)] \in ReservationRows
    BY <2>1, ActiveCall DEF HoldsTypeOK
  <2>3. CASE s = Slot(r)
    <3>1. reservation[s].status = "HELD"
      BY <2>1, <2>3 DEF ClaimsHeld
    <3>2. /\ reservation'[s].status = Target(holdReq[r].op)
          /\ reservation'[s].amount = reservation[s].amount
          /\ reservation'[s].holdTx = reservation[s].holdTx
      BY <2>1, <2>2, <2>3 DEF Finalized, HoldsTypeOK, ReservationRows
    <3>3. QED  BY <3>1, <3>2 DEF Lawful, Target
  <2>4. CASE s # Slot(r)
    <3>1. reservation'[s] = reservation[s]
      BY <2>1, <2>2, <2>4 DEF Finalized, HoldsTypeOK
    <3>2. QED  BY <3>1 DEF Lawful
  <2>5. QED  BY <2>3, <2>4
<1>4. QED
  BY <1>1, <1>2, <1>3
     DEF HoldsNext, ServeHold, holdsVars, SubmitHold, ReturnHold, FailHold, HoldLookup, HoldRefused, HoldConflict, HoldReread, FinalizeLookup, FinalizeClaim,
         FinalizeLate, FinalizeAbort, HoldsAdjust

\* No step ever reopens or flips a final reservation, or changes a stake.
THEOREM FinalIsFinal == HoldsSpec => FinalStatusIsFinal
<1>1. HoldsInv /\ [HoldsNext]_holdsVars => [\A s \in Slots : Lawful(s)]_holdsVars
  BY HoldsLawfulStep DEF HoldsInv
<1>2. QED
  BY <1>1, HoldsInvariance, PTL DEF HoldsSpec, FinalStatusIsFinal, Lawful

-----------------------------------------------------------------------------
(***************************************************************************)
(* The ledger and the answers.                                             *)
(***************************************************************************)

\* What PostedOnce says of one reference of a wallet: a ledger of these rows
\* tells the life of this reservation and nothing else.
Told(row, rows, b) ==
  LET posted == {i \in DOMAIN rows : rows[i].ref = b}
  IN CASE row.status = "NONE" -> posted = {}
       [] row.status = "HELD" ->
            /\ posted = {row.holdTx} /\ row.finalTx = 0
            /\ rows[row.holdTx].reason = "BET_HOLD"
            /\ rows[row.holdTx].amount = row.amount
       [] OTHER ->
            /\ posted = {row.holdTx, row.finalTx} /\ row.holdTx < row.finalTx
            /\ rows[row.holdTx].reason = "BET_HOLD"
            /\ rows[row.finalTx].reason = IF row.status = "RELEASED"
                                          THEN "BET_RELEASE" ELSE "BET_CAPTURE"
            /\ \A i \in posted : rows[i].amount = row.amount

LEMMA PostedMeansTold ==
  PostedOnce <=> \A w \in Wallets, b \in Refs : Told(reservation[<<w, b>>], ledger[w], b)
BY DEF PostedOnce, Told

\* A row appended to a ledger leaves the earlier rows and their numbers.
LEMMA RowsAfterAppend ==
  ASSUME NEW rows \in Seq(LedgerRows), NEW entry \in LedgerRows
  PROVE  /\ Len(rows) \in Nat
         /\ DOMAIN rows = 1..Len(rows)
         /\ DOMAIN Append(rows, entry) = DOMAIN rows \cup {Len(rows) + 1}
         /\ \A i \in DOMAIN rows : Append(rows, entry)[i] = rows[i]
         /\ Append(rows, entry)[Len(rows) + 1] = entry
         /\ Len(rows) + 1 \notin DOMAIN rows
OBVIOUS

\* A row about something else leaves what the ledger tells.
LEMMA ToldElsewhere ==
  ASSUME NEW rows \in Seq(LedgerRows), NEW entry \in LedgerRows, NEW b,
         entry.ref # b, NEW row, Told(row, rows, b)
  PROVE  Told(row, Append(rows, entry), b)
<1> DEFINE new == Append(rows, entry)
           posted == {i \in DOMAIN rows : rows[i].ref = b}
           postedNew == {i \in DOMAIN new : new[i].ref = b}
<1>1. /\ DOMAIN new = DOMAIN rows \cup {Len(rows) + 1}
      /\ \A i \in DOMAIN rows : new[i] = rows[i]
      /\ new[Len(rows) + 1] = entry
  BY RowsAfterAppend
<1> HIDE DEF new
<1>2. postedNew = posted
  BY <1>1
<1>3. \A i \in posted : i \in DOMAIN rows /\ new[i] = rows[i]
  BY <1>1
<1>4. CASE row.status = "NONE"
  BY <1>2, <1>4 DEF Told, new
<1>5. CASE row.status = "HELD"
  <2>1. posted = {row.holdTx}
    BY <1>5 DEF Told
  <2>2. new[row.holdTx] = rows[row.holdTx]
    BY <1>3, <2>1
  <2>3. QED  BY <1>2, <1>5, <2>2 DEF Told, new
<1>6. CASE row.status \notin {"NONE", "HELD"}
  <2>1. posted = {row.holdTx, row.finalTx}
    BY <1>6 DEF Told
  <2>2. new[row.holdTx] = rows[row.holdTx] /\ new[row.finalTx] = rows[row.finalTx]
    BY <1>3, <2>1
  <2>3. \A i \in postedNew : new[i].amount = row.amount
    BY <1>2, <1>3, <1>6 DEF Told
  <2>4. QED  BY <1>2, <1>6, <2>2, <2>3 DEF Told, new
<1>7. QED  BY <1>4, <1>5, <1>6

\* The first row of a reference is its BET_HOLD.
LEMMA ToldHold ==
  ASSUME NEW rows \in Seq(LedgerRows), NEW entry \in LedgerRows, NEW b,
         entry.ref = b, entry.reason = "BET_HOLD", NEW old, NEW row,
         Told(old, rows, b), old.status = "NONE",
         row.status = "HELD", row.amount = entry.amount,
         row.holdTx = Len(rows) + 1, row.finalTx = 0
  PROVE  Told(row, Append(rows, entry), b)
<1> DEFINE new == Append(rows, entry)
           postedNew == {i \in DOMAIN new : new[i].ref = b}
<1>1. /\ DOMAIN new = DOMAIN rows \cup {Len(rows) + 1}
      /\ \A i \in DOMAIN rows : new[i] = rows[i]
      /\ new[Len(rows) + 1] = entry
  BY RowsAfterAppend
<1>2. \A i \in DOMAIN rows : rows[i].ref # b
  BY DEF Told
<1> HIDE DEF new
<1>3. postedNew = {row.holdTx}
  BY <1>1, <1>2
<1>4. QED  BY <1>1, <1>3 DEF Told, new

\* The second and last one finalizes it.
LEMMA ToldFinal ==
  ASSUME NEW rows \in Seq(LedgerRows), NEW entry \in LedgerRows, NEW b,
         entry.ref = b, NEW old, NEW row,
         Told(old, rows, b), old.status = "HELD",
         row.status \in {"RELEASED", "CAPTURED"},
         entry.reason = IF row.status = "RELEASED" THEN "BET_RELEASE" ELSE "BET_CAPTURE",
         row.amount = old.amount, entry.amount = old.amount,
         row.holdTx = old.holdTx, row.finalTx = Len(rows) + 1
  PROVE  Told(row, Append(rows, entry), b)
<1> DEFINE new == Append(rows, entry)
           postedNew == {i \in DOMAIN new : new[i].ref = b}
<1>1. /\ DOMAIN new = DOMAIN rows \cup {Len(rows) + 1}
      /\ \A i \in DOMAIN rows : new[i] = rows[i]
      /\ new[Len(rows) + 1] = entry
      /\ DOMAIN rows = 1..Len(rows) /\ Len(rows) \in Nat
  BY RowsAfterAppend
<1>2. /\ {i \in DOMAIN rows : rows[i].ref = b} = {row.holdTx}
      /\ rows[row.holdTx].reason = "BET_HOLD"
      /\ rows[row.holdTx].amount = row.amount
  BY DEF Told
<1> HIDE DEF new
<1>3. row.holdTx \in DOMAIN rows /\ row.holdTx < row.finalTx
  BY <1>1, <1>2
<1>4. postedNew = {row.holdTx, row.finalTx}
  BY <1>1, <1>2, <1>3
<1>5. new[row.holdTx] = rows[row.holdTx] /\ new[row.finalTx] = entry
  BY <1>1, <1>3
<1>6. QED  BY <1>2, <1>3, <1>4, <1>5 DEF Told, new

\* A commit posts one row, and changes the reservation it is about.
LEMMA PostedMove ==
  ASSUME HoldsTypeOK, PostedOnce, NEW w \in Wallets, NEW b \in Refs,
         NEW entry \in LedgerRows, entry.ref = b, Post(w, entry),
         NEW row, reservation' = [reservation EXCEPT ![<<w, b>>] = row],
         Told(row, Append(ledger[w], entry), b)
  PROVE  PostedOnce'
<1>1. SUFFICES ASSUME NEW v \in Wallets, NEW c \in Refs
               PROVE  Told(reservation'[<<v, c>>], ledger'[v], c)
  BY DEF PostedOnce, Told
<1>2. Told(reservation[<<v, c>>], ledger[v], c)
  BY PostedMeansTold
<1>3. <<v, c>> \in Slots /\ <<w, b>> \in Slots
  BY DEF Slots
<1>4. ledger' = [ledger EXCEPT ![w] = Append(ledger[w], entry)] /\ ledger[w] \in Seq(LedgerRows)
  BY DEF Post, HoldsTypeOK
<1>5. CASE v # w
  <2>1. ledger'[v] = ledger[v] /\ reservation'[<<v, c>>] = reservation[<<v, c>>]
    BY <1>3, <1>4, <1>5 DEF HoldsTypeOK
  <2>2. QED  BY <1>2, <2>1
<1>6. CASE v = w /\ c # b
  <2>1. /\ ledger'[v] = Append(ledger[w], entry)
        /\ reservation'[<<v, c>>] = reservation[<<v, c>>]
    BY <1>3, <1>4, <1>6 DEF HoldsTypeOK
  <2>2. QED  BY <1>2, <1>4, <1>6, <2>1, ToldElsewhere
<1>7. CASE v = w /\ c = b
  <2>1. ledger'[v] = Append(ledger[w], entry) /\ reservation'[<<v, c>>] = row
    BY <1>3, <1>4, <1>7 DEF HoldsTypeOK
  <2>2. QED  BY <1>7, <2>1
<1>8. QED  BY <1>5, <1>6, <1>7

LEMMA PostedInit == HoldsInit => PostedOnce
<1> SUFFICES ASSUME HoldsInit, NEW w \in Wallets, NEW b \in Refs
             PROVE  Told(reservation[<<w, b>>], ledger[w], b)
  BY PostedMeansTold
<1>1. <<w, b>> \in Slots
  BY DEF Slots
<1>2. reservation[<<w, b>>].status = "NONE" /\ ledger[w] = <<>>
  BY <1>1 DEF HoldsInit, MoneyInit, NoReservation
<1>3. {i \in DOMAIN ledger[w] : ledger[w][i].ref = b} = {}
  BY <1>2
<1>4. QED  BY <1>2, <1>3 DEF Told

\* The three commits of the service post the row their reservation links to;
\* an adjustment posts one about no reservation.
LEMMA PostedStep ==
  HoldsTypeOK /\ ClaimsHeld /\ PostedOnce /\ [HoldsNext]_holdsVars => PostedOnce'
<1> SUFFICES ASSUME HoldsTypeOK, ClaimsHeld, PostedOnce, [HoldsNext]_holdsVars PROVE PostedOnce'
  OBVIOUS
<1> USE BigintAssumption, RequestAssumption, StakeAssumption
<1>1. CASE UNCHANGED <<ledger, reservation>>
  <2>1. \A v \in Wallets, c \in Refs : Told(reservation'[<<v, c>>], ledger'[v], c)
    BY <1>1, PostedMeansTold
  <2>2. QED  BY <2>1 DEF PostedOnce, Told
<1>2. ASSUME NEW r \in HoldRequests, HoldCommit(r) PROVE PostedOnce'
  <2> DEFINE w == holdReq[r].wallet
             b == holdReq[r].bet
             amount == holdReq[r].amount
             before == wallet[w].balance
             entry == Entry("BET_HOLD", "DEBIT", amount, before, before - amount,
                            holdReq[r].key, b)
             row == [status |-> "HELD", amount |-> amount, holdKey |-> holdReq[r].key,
                     holdTx |-> Len(ledger[w]) + 1, finalTx |-> 0]
  <2>1. holdReq[r] \in Calls
    BY <1>2, ActiveCall DEF HoldCommit, HoldAt
  <2>2. w \in Wallets /\ b \in Refs /\ holdReq[r].key \in Keys /\ amount \in 0..BigintMax
    BY <2>1 DEF Calls
  <2>3. wallet[w] \in WalletRows
    BY <2>2 DEF HoldsTypeOK
  <2>4. before - amount \in 0..BigintMax /\ before \in 0..BigintMax
    BY <1>2, <2>2, <2>3 DEF HoldCommit, DebitBalanceInTx, CanDebit, WalletRows
  <2>5. /\ entry \in LedgerRows /\ entry.ref = b
        /\ entry.reason = "BET_HOLD" /\ entry.amount = amount
    BY <2>2, <2>4 DEF Entry, LedgerRows, Reasons
  <2>6. Post(w, entry) /\ reservation' = [reservation EXCEPT ![<<w, b>>] = row]
    BY <1>2 DEF HoldCommit, Slot
  <2>7. reservation[<<w, b>>].status = "NONE" /\ Told(reservation[<<w, b>>], ledger[w], b)
    BY <1>2, <2>2, PostedMeansTold DEF HoldCommit, HoldUnique, Slot
  <2>8. /\ row.status = "HELD" /\ row.amount = entry.amount
        /\ row.holdTx = Len(ledger[w]) + 1 /\ row.finalTx = 0
    BY <2>5
  <2>9. ledger[w] \in Seq(LedgerRows)
    BY <2>2 DEF HoldsTypeOK
  <2> HIDE DEF w, b, entry, row
  <2>10. Told(row, Append(ledger[w], entry), b)
    BY <2>5, <2>7, <2>8, <2>9, ToldHold
  <2>11. QED  BY <2>2, <2>5, <2>6, <2>10, PostedMove
<1>3. ASSUME NEW r \in HoldRequests, ReleaseCommit(r) \/ CaptureCommit(r) PROVE PostedOnce'
  <2> DEFINE w == holdReq[r].wallet
             b == holdReq[r].bet
             old == reservation[<<w, b>>]
             row == [old EXCEPT !.status = Target(holdReq[r].op),
                                !.finalTx = Len(ledger[w]) + 1]
  <2>1. holdReq[r].pc = "wallet" /\ holdReq[r].op \in Finalizers /\ Finalized(r) /\ LockCovers(r)
    BY <1>3 DEF ReleaseCommit, CaptureCommit, HoldAt, Finalizers
  <2>2. holdReq[r] \in Calls /\ Slot(r) \in Slots /\ Slot(r) = <<w, b>>
    BY <2>1, ActiveCall DEF Slot
  <2>3. w \in Wallets /\ b \in Refs /\ holdReq[r].key \in Keys /\ holdReq[r].amount \in 0..BigintMax
    BY <2>2 DEF Calls
  <2>4. old \in ReservationRows /\ old.status = "HELD" /\ old.amount = holdReq[r].amount
    <3>1. reservation[Slot(r)].status = "HELD" /\ holdReq[r].amount = reservation[Slot(r)].amount
      BY <2>1 DEF ClaimsHeld
    <3>2. reservation[Slot(r)] \in ReservationRows
      BY <2>2 DEF HoldsTypeOK
    <3>3. QED  BY <2>2, <3>1, <3>2
  <2>5. reservation' = [reservation EXCEPT ![<<w, b>>] = row]
    BY <2>1, <2>2, <2>4 DEF Finalized, HoldsTypeOK, ReservationRows
  <2>6. /\ row.status = Target(holdReq[r].op) /\ row.amount = old.amount
        /\ row.holdTx = old.holdTx /\ row.finalTx = Len(ledger[w]) + 1
    BY <2>4 DEF ReservationRows
  <2>7. PICK entry \in LedgerRows :
          /\ Post(w, entry) /\ entry.ref = b /\ entry.amount = holdReq[r].amount
          /\ entry.reason = IF holdReq[r].op = "RELEASE" THEN "BET_RELEASE" ELSE "BET_CAPTURE"
    <3>1. wallet[w].balance \in 0..BigintMax
      BY <2>3 DEF HoldsTypeOK, WalletRows
    <3>2. CASE ReleaseCommit(r)
      <4> DEFINE after == wallet[w].balance + holdReq[r].amount
                 entry == Entry("BET_RELEASE", "CREDIT", holdReq[r].amount,
                                after - holdReq[r].amount, after, holdReq[r].key, b)
      <4>1. after \in 0..BigintMax /\ Post(w, entry) /\ holdReq[r].op = "RELEASE"
        BY <3>2 DEF ReleaseCommit, Fits, HoldAt
      <4>2. after - holdReq[r].amount \in 0..BigintMax
        <5>1. after - holdReq[r].amount = wallet[w].balance
          BY <2>3, <3>1
        <5>2. QED  BY <3>1, <5>1
      <4>3. entry \in LedgerRows
        BY <2>3, <4>1, <4>2 DEF Entry, LedgerRows, Reasons
      <4>4. entry.ref = b /\ entry.amount = holdReq[r].amount /\ entry.reason = "BET_RELEASE"
        BY DEF Entry
      <4> HIDE DEF entry
      <4>5. QED  BY <4>1, <4>3, <4>4
    <3>3. CASE CaptureCommit(r)
      <4> DEFINE balance == wallet[w].balance
                 entry == Entry("BET_CAPTURE", "DEBIT", holdReq[r].amount, balance, balance,
                                holdReq[r].key, b)
      <4>1. Post(w, entry) /\ holdReq[r].op = "CAPTURE"
        BY <3>3 DEF CaptureCommit, HoldAt
      <4>2. entry \in LedgerRows
        BY <2>3, <3>1 DEF Entry, LedgerRows, Reasons
      <4>3. entry.ref = b /\ entry.amount = holdReq[r].amount /\ entry.reason = "BET_CAPTURE"
        BY DEF Entry
      <4> HIDE DEF entry
      <4>4. QED  BY <4>1, <4>2, <4>3
    <3>4. QED  BY <1>3, <3>2, <3>3
  <2>8. /\ row.status \in {"RELEASED", "CAPTURED"} /\ entry.amount = old.amount
        /\ entry.reason = IF row.status = "RELEASED" THEN "BET_RELEASE" ELSE "BET_CAPTURE"
    BY <2>1, <2>4, <2>6, <2>7 DEF Target, Finalizers
  <2>9. ledger[w] \in Seq(LedgerRows) /\ Told(old, ledger[w], b)
    BY <2>3, PostedMeansTold DEF HoldsTypeOK
  <2> HIDE DEF w, b, old, row
  <2>10. Told(row, Append(ledger[w], entry), b)
    BY <2>4, <2>6, <2>7, <2>8, <2>9, ToldFinal
  <2>11. QED  BY <2>3, <2>5, <2>7, <2>10, PostedMove
<1>4. ASSUME NEW w \in Wallets, NEW delta \in Deltas, NEW key \in Keys,
             HoldsAdjust(w, delta, key)
      PROVE  PostedOnce'
  <2> DEFINE before == wallet[w].balance
             after == before + delta
             size == IF delta > 0 THEN delta ELSE -delta
             entry == Entry("ADJUST", IF delta > 0 THEN "CREDIT" ELSE "DEBIT", size,
                            before, after, key, NoRef)
  <2>1. wallet[w] \in WalletRows
    BY DEF HoldsTypeOK
  <2>2. before \in 0..BigintMax /\ after \in 0..BigintMax /\ size \in 0..BigintMax
    BY <1>4, <2>1 DEF HoldsAdjust, AdjustWalletBalance, Fits, WalletRows
  <2>3. entry \in LedgerRows /\ entry.ref = NoRef
    BY <2>2 DEF Entry, LedgerRows, Reasons
  <2>4. Post(w, entry) /\ reservation' = reservation
    BY <1>4 DEF HoldsAdjust, AdjustWalletBalance
  <2> HIDE DEF entry
  <2>5. SUFFICES ASSUME NEW v \in Wallets, NEW c \in Refs
                 PROVE  Told(reservation'[<<v, c>>], ledger'[v], c)
    BY DEF PostedOnce, Told
  <2>6. Told(reservation[<<v, c>>], ledger[v], c) /\ ledger[v] \in Seq(LedgerRows)
    BY PostedMeansTold DEF HoldsTypeOK
  <2>7. ledger'[v] = IF v = w THEN Append(ledger[v], entry) ELSE ledger[v]
    BY <2>4 DEF Post, HoldsTypeOK
  <2>8. entry.ref # c
    BY <2>3
  <2>9. Told(reservation[<<v, c>>], ledger'[v], c)
    BY <2>3, <2>6, <2>7, <2>8, ToldElsewhere
  <2>10. QED  BY <2>4, <2>9
<1>5. QED
  BY <1>1, <1>2, <1>3, <1>4
     DEF HoldsNext, ServeHold, holdsVars, SubmitHold, ReturnHold, FailHold, HoldLookup, HoldRefused, HoldConflict, HoldReread, FinalizeLookup, FinalizeClaim,
         FinalizeLate, FinalizeAbort

\* What FinalizeAnswersTrue says of one call.
AnswerTrue(call, status) ==
  call.pc = "done" /\ call.op \in Finalizers =>
    /\ call.outcome = "ok" => status = Target(call.op)
    /\ call.outcome = "finalized" => status \in {"RELEASED", "CAPTURED"} \ {Target(call.op)}
    /\ call.outcome # "lockViolated"

\* The funds locked in a wallet cover every stake it holds.
HeldCovered ==
  \A w \in Wallets, b \in Refs :
    reservation[<<w, b>>].status = "HELD" => wallet[w].locked >= reservation[<<w, b>>].amount

\* They do if they cover all of them together.
LEMMA LockCoversHeld ==
  ASSUME HoldsTypeOK, \A w \in Wallets : wallet[w].locked >= Cardinality(HeldUnits(w))
  PROVE  HeldCovered
<1> USE BigintAssumption
<1> SUFFICES ASSUME NEW w \in Wallets, NEW b \in Refs, reservation[<<w, b>>].status = "HELD"
             PROVE  wallet[w].locked >= reservation[<<w, b>>].amount
  BY DEF HeldCovered
<1> DEFINE row == reservation[<<w, b>>]
<1>1. row \in ReservationRows /\ row.amount \in Nat
  BY DEF HoldsTypeOK, Slots, ReservationRows
<1>2. Cardinality(StakeUnits(b, row)) = row.amount
  BY <1>1, UnitsCard
<1>3. /\ Cardinality(Others(reservation, w, b)) \in Nat
      /\ Cardinality(UnitsOf(reservation, w)) =
           Cardinality(Others(reservation, w, b)) + Cardinality(StakeUnits(b, row))
  BY StakeUnitsSplit DEF HoldsTypeOK
<1>4. wallet[w].locked \in Nat /\ wallet[w].locked >= Cardinality(UnitsOf(reservation, w))
  BY HeldNumbers DEF HeldUnits
<1>5. QED  BY <1>1, <1>2, <1>3, <1>4

LEMMA InvCovers == HoldsInv => HeldCovered
<1> SUFFICES ASSUME HoldsInv PROVE HeldCovered
  OBVIOUS
<1>1. ASSUME NEW w \in Wallets PROVE wallet[w].locked >= Cardinality(HeldUnits(w))
  BY HeldNumbers DEF HoldsInv, LockedMatchesHeld
<1>2. QED  BY <1>1, LockCoversHeld DEF HoldsInv

\* What a reply leaves of the call, and of the others.
LEMMA HoldReplied ==
  ASSUME HoldsTypeOK, NEW r \in HoldRequests, holdReq[r].pc # "idle", NEW outcome, NEW status,
         ReplyHold(r, outcome, status)
  PROVE  /\ holdReq'[r].op = holdReq[r].op /\ holdReq'[r].wallet = holdReq[r].wallet
         /\ holdReq'[r].bet = holdReq[r].bet /\ holdReq'[r].outcome = outcome
         /\ \A q \in HoldRequests \ {r} : holdReq'[q] = holdReq[q]
<1>1. holdReq[r] \in Calls
  BY ActiveCall
<1>2. holdReq' = [holdReq EXCEPT ![r] = [holdReq[r] EXCEPT !.pc = "done", !.outcome = outcome, !.seen = status]]
  BY <1>1 DEF ReplyHold, HoldsTypeOK, Calls
<1>3. QED  BY <1>1, <1>2 DEF HoldsTypeOK, Calls

\* An answer given in this step is true.
LEMMA NewAnswer ==
  ASSUME HoldsTypeOK, NEW r \in HoldRequests, holdReq[r].pc # "idle", NEW outcome, NEW status,
         ReplyHold(r, outcome, status),
         \/ holdReq[r].op = "HOLD"
         \/ outcome \in {"notFound", "conflict"}
         \/ outcome = "ok" /\ reservation'[Slot(r)].status = Target(holdReq[r].op)
         \/ /\ outcome = "finalized"
            /\ reservation'[Slot(r)].status
                 \in {"RELEASED", "CAPTURED"} \ {Target(holdReq[r].op)}
  PROVE  AnswerTrue(holdReq'[r], reservation'[Slot(r)'].status)
<1>1. /\ holdReq'[r].op = holdReq[r].op /\ holdReq'[r].wallet = holdReq[r].wallet
      /\ holdReq'[r].bet = holdReq[r].bet /\ holdReq'[r].outcome = outcome
  BY HoldReplied
<1>2. Slot(r)' = Slot(r)
  BY <1>1 DEF Slot
<1>3. CASE holdReq[r].op = "HOLD"
  BY <1>1, <1>3 DEF AnswerTrue, Finalizers
<1>4. CASE outcome \in {"notFound", "conflict"}
  BY <1>1, <1>4 DEF AnswerTrue
<1>5. CASE outcome = "ok" /\ reservation'[Slot(r)].status = Target(holdReq[r].op)
  BY <1>1, <1>2, <1>5 DEF AnswerTrue
<1>6. CASE /\ outcome = "finalized"
           /\ reservation'[Slot(r)].status \in {"RELEASED", "CAPTURED"} \ {Target(holdReq[r].op)}
  BY <1>1, <1>2, <1>6 DEF AnswerTrue
<1>7. QED  BY <1>3, <1>4, <1>5, <1>6

\* A final status answers for itself.
LEMMA RefinalizeTrue ==
  ASSUME HoldsTypeOK, NEW r \in HoldRequests, holdReq[r].pc # "idle", holdReq[r].op \in Finalizers,
         reservation[Slot(r)].status \in {"RELEASED", "CAPTURED"},
         Refinalize(r), reservation' = reservation
  PROVE  AnswerTrue(holdReq'[r], reservation'[Slot(r)'].status)
<1> DEFINE status == reservation[Slot(r)].status
           outcome == IF status = Target(holdReq[r].op) THEN "ok" ELSE "finalized"
<1>1. ReplyHold(r, outcome, status)
  BY DEF Refinalize
<1>2. \/ outcome = "ok" /\ reservation'[Slot(r)].status = Target(holdReq[r].op)
      \/ /\ outcome = "finalized"
         /\ reservation'[Slot(r)].status \in {"RELEASED", "CAPTURED"} \ {Target(holdReq[r].op)}
  BY DEF Target
<1> HIDE DEF outcome, status
<1>3. QED  BY <1>1, <1>2, NewAnswer

\* What is not answered in a step keeps its answer true: a reservation that an
\* answer speaks of is final, and final reservations stay as they are.
LEMMA OldAnswer ==
  ASSUME HoldsTypeOK, ClaimsHeld, [HoldsNext]_holdsVars, FinalizeAnswersTrue, NEW r \in HoldRequests,
         holdReq'[r] = holdReq[r] \/ holdReq'[r] = Idle \/ holdReq'[r].pc # "done"
  PROVE  AnswerTrue(holdReq'[r], reservation'[Slot(r)'].status)
<1>1. CASE holdReq'[r] = Idle \/ holdReq'[r].pc # "done"
  BY <1>1 DEF AnswerTrue, Idle
<1>2. CASE holdReq'[r] = holdReq[r] /\ holdReq[r].pc = "done"
  <2>1. Slot(r)' = Slot(r)
    BY <1>2 DEF Slot
  <2>2. Slot(r) \in Slots
    BY <1>2, ActiveCall
  <2>3. reservation[Slot(r)].status \in {"RELEASED", "CAPTURED"}
          => reservation'[Slot(r)] = reservation[Slot(r)]
    BY <2>2, HoldsLawfulStep DEF Lawful
  <2>4. AnswerTrue(holdReq[r], reservation[Slot(r)].status)
    BY DEF FinalizeAnswersTrue, AnswerTrue
  <2>5. Target(holdReq[r].op) \in {"RELEASED", "CAPTURED"}
    BY DEF Target
  <2>6. QED  BY <1>2, <2>1, <2>3, <2>4, <2>5 DEF AnswerTrue
<1>3. QED  BY <1>1, <1>2

\* An answer of releaseHeldFunds or captureHeldFunds is true when it is given
\* and no later step makes it false.
LEMMA HoldsAnswersStep ==
  /\ HoldsTypeOK /\ ClaimsHeld /\ HeldCovered
  /\ FinalizeAnswersTrue /\ [HoldsNext]_holdsVars
  => FinalizeAnswersTrue'
<1> SUFFICES ASSUME HoldsTypeOK, ClaimsHeld, HeldCovered, FinalizeAnswersTrue,
                    [HoldsNext]_holdsVars
             PROVE  FinalizeAnswersTrue'
  OBVIOUS
<1>0. HoldsTypeOK /\ ClaimsHeld
  OBVIOUS
<1>a. SUFFICES ASSUME NEW q \in HoldRequests
               PROVE  AnswerTrue(holdReq'[q], reservation'[Slot(q)'].status)
  BY DEF FinalizeAnswersTrue, AnswerTrue
<1>1. CASE UNCHANGED holdReq
  BY <1>1, OldAnswer
<1>2. ASSUME NEW r \in HoldRequests, SubmitHold(r) \/ ReturnHold(r) \/ FailHold(r)
      PROVE  AnswerTrue(holdReq'[q], reservation'[Slot(q)'].status)
  <2>1. holdReq'[q] = holdReq[q] \/ holdReq'[q] = Idle \/ holdReq'[q].pc # "done"
    BY <1>0, <1>2 DEF SubmitHold, ReturnHold, FailHold, Call, HoldsTypeOK
  <2>2. QED  BY <2>1, OldAnswer
<1>3. ASSUME NEW r \in HoldRequests, NEW pc \in {"tx", "reread", "wallet"}, Goto(r, pc), holdReq[r].pc # "idle"
      PROVE  AnswerTrue(holdReq'[q], reservation'[Slot(q)'].status)
  <2>1. holdReq[r] \in Calls
    BY <1>0, <1>3, ActiveCall
  <2>2. holdReq'[q] = holdReq[q] \/ holdReq'[q].pc # "done"
    BY <1>0, <1>3, <2>1 DEF Goto, HoldsTypeOK, Calls
  <2>3. QED  BY <2>2, OldAnswer
<1>4. ASSUME NEW r \in HoldRequests, holdReq[r].pc # "idle", NEW outcome, NEW status,
             ReplyHold(r, outcome, status),
             r = q => AnswerTrue(holdReq'[r], reservation'[Slot(r)'].status)
      PROVE  AnswerTrue(holdReq'[q], reservation'[Slot(q)'].status)
  <2>1. q # r => holdReq'[q] = holdReq[q]
    BY <1>0, <1>4, HoldReplied
  <2>2. QED  BY <1>4, <2>1, OldAnswer
<1>5. ASSUME NEW r \in HoldRequests,
             HoldLookup(r) \/ HoldRefused(r) \/ HoldCommit(r) \/ HoldConflict(r) \/ HoldReread(r)
      PROVE  AnswerTrue(holdReq'[q], reservation'[Slot(q)'].status)
  <2>1. holdReq[r].op = "HOLD" /\ holdReq[r].pc # "idle"
    BY <1>5 DEF HoldLookup, HoldRefused, HoldCommit, HoldConflict, HoldReread, HoldAt
  <2>2. \/ Goto(r, "tx") \/ Goto(r, "reread")
        \/ \E outcome, status : ReplyHold(r, outcome, status)
    BY <1>5 DEF HoldLookup, HoldRefused, HoldCommit, HoldConflict, HoldReread
  <2>3. CASE \E outcome, status : ReplyHold(r, outcome, status)
    <3>1. PICK outcome, status : ReplyHold(r, outcome, status)
      BY <2>3
    <3>2. AnswerTrue(holdReq'[r], reservation'[Slot(r)'].status)
      BY <2>1, <3>1, NewAnswer
    <3>3. QED  BY <1>4, <2>1, <3>1, <3>2
  <2>4. QED  BY <1>3, <2>1, <2>2, <2>3
<1>6. ASSUME NEW r \in HoldRequests, FinalizeLookup(r)
      PROVE  AnswerTrue(holdReq'[q], reservation'[Slot(q)'].status)
  <2>1. holdReq[r].pc # "idle" /\ holdReq[r].op \in Finalizers /\ reservation' = reservation
    BY <1>6 DEF FinalizeLookup
  <2>2. CASE ReplyHold(r, "notFound", "NONE")
    <3>1. AnswerTrue(holdReq'[r], reservation'[Slot(r)'].status)
      BY <2>1, <2>2, NewAnswer
    <3>2. QED  BY <1>4, <2>1, <2>2, <3>1
  <2>3. CASE reservation[Slot(r)].status \in {"RELEASED", "CAPTURED"} /\ Refinalize(r)
    <3>1. AnswerTrue(holdReq'[r], reservation'[Slot(r)'].status)
      BY <2>1, <2>3, RefinalizeTrue
    <3>2. \E outcome, status : ReplyHold(r, outcome, status)
      BY <2>3 DEF Refinalize
    <3>3. QED  BY <1>4, <2>1, <3>1, <3>2
  <2>4. CASE holdReq' = [holdReq EXCEPT ![r].pc = "claim", ![r].amount = reservation[Slot(r)].amount]
    <3>1. holdReq[r] \in Calls
      BY <1>0, <2>1, ActiveCall
    <3>2. holdReq'[q] = holdReq[q] \/ holdReq'[q].pc # "done"
      BY <1>0, <2>4, <3>1 DEF HoldsTypeOK, Calls
    <3>3. QED  BY <3>2, OldAnswer
  <2>5. QED  BY <1>6, <2>2, <2>3, <2>4 DEF FinalizeLookup
<1>7. ASSUME NEW r \in HoldRequests, FinalizeClaim(r)
      PROVE  AnswerTrue(holdReq'[q], reservation'[Slot(q)'].status)
  BY <1>3, <1>7 DEF FinalizeClaim
<1>8. ASSUME NEW r \in HoldRequests, FinalizeLate(r)
      PROVE  AnswerTrue(holdReq'[q], reservation'[Slot(q)'].status)
  <2>1. holdReq[r].pc = "claim" /\ Refinalize(r) /\ reservation' = reservation
    BY <1>8 DEF FinalizeLate
  <2>2. holdReq[r].op \in Finalizers /\ reservation[Slot(r)].status # "NONE"
    BY <1>0, <2>1 DEF ClaimsHeld
  <2>3. reservation[Slot(r)].status \in {"RELEASED", "CAPTURED"}
    <3>1. Slot(r) \in Slots
      BY <1>0, <2>1, ActiveCall
    <3>2. reservation[Slot(r)].status \in Statuses
      BY <1>0, <3>1 DEF HoldsTypeOK, ReservationRows
    <3>3. QED  BY <1>8, <2>2, <3>2 DEF FinalizeLate, Statuses
  <2>4. AnswerTrue(holdReq'[r], reservation'[Slot(r)'].status)
    BY <2>1, <2>2, <2>3, RefinalizeTrue
  <2>5. \E outcome, status : ReplyHold(r, outcome, status)
    BY <2>1 DEF Refinalize
  <2>6. QED  BY <1>4, <2>1, <2>4, <2>5
<1>9. ASSUME NEW r \in HoldRequests, ReleaseCommit(r) \/ CaptureCommit(r)
      PROVE  AnswerTrue(holdReq'[q], reservation'[Slot(q)'].status)
  <2>1. holdReq[r].pc = "wallet" /\ Finalized(r) /\ ReplyHold(r, "ok", Target(holdReq[r].op))
    BY <1>9 DEF ReleaseCommit, CaptureCommit, HoldAt, Finalized
  <2>2. Slot(r) \in Slots /\ reservation[Slot(r)] \in ReservationRows
    BY <1>0, <2>1, ActiveCall DEF HoldsTypeOK
  <2>3. reservation'[Slot(r)].status = Target(holdReq[r].op)
    BY <1>0, <2>1, <2>2 DEF Finalized, HoldsTypeOK, ReservationRows
  <2>4. AnswerTrue(holdReq'[r], reservation'[Slot(r)'].status)
    BY <2>1, <2>3, NewAnswer
  <2>5. QED  BY <1>4, <2>1, <2>4
<1>10. ASSUME NEW r \in HoldRequests, FinalizeAbort(r)
       PROVE  AnswerTrue(holdReq'[q], reservation'[Slot(q)'].status)
  <2>1. /\ holdReq[r].pc = "wallet"
        /\ ReplyHold(r, IF LockCovers(r) THEN "conflict" ELSE "lockViolated", "HELD")
    BY <1>10 DEF FinalizeAbort
  <2>2. LockCovers(r)
    <3>1. /\ reservation[Slot(r)].status = "HELD"
          /\ holdReq[r].amount = reservation[Slot(r)].amount
      BY <1>0, <2>1 DEF ClaimsHeld
    <3>2. holdReq[r].wallet \in Wallets /\ holdReq[r].bet \in Refs
      BY <1>0, <2>1, ActiveCall DEF Calls
    <3>3. QED  BY <3>1, <3>2 DEF HeldCovered, LockCovers, Slot
  <2>3. ReplyHold(r, "conflict", "HELD")
    BY <2>1, <2>2
  <2>4. AnswerTrue(holdReq'[r], reservation'[Slot(r)'].status)
    BY <2>1, <2>3, NewAnswer
  <2>5. QED  BY <1>4, <2>1, <2>3, <2>4
<1>11. CASE UNCHANGED holdsVars \/ \E w \in Wallets, delta \in Deltas, key \in Keys : HoldsAdjust(w, delta, key)
  BY <1>1, <1>11 DEF holdsVars, HoldsAdjust
<1>12. QED
  BY <1>2, <1>5, <1>6, <1>7, <1>8, <1>9, <1>10, <1>11 DEF HoldsNext, ServeHold

\* For any number of wallets, references, keys and calls: the ledger holds one
\* BET_HOLD row for every reservation and one BET_RELEASE or BET_CAPTURE row for
\* every final one, with its stake, and every answer of releaseHeldFunds and
\* captureHeldFunds is true and stays true; the wallet lock is never violated.
THEOREM AnswersAndLedgerAgree == HoldsSpec => []AnswersMatchLedger
<1> DEFINE Inv == HoldsInv /\ PostedOnce /\ FinalizeAnswersTrue
<1>1. HoldsInit => Inv
  <2>1. HoldsInit => FinalizeAnswersTrue
    BY DEF HoldsInit, Idle, FinalizeAnswersTrue
  <2>2. HoldsInit => HoldsInv
    BY HoldsTypeInit, HoldClaimsInit, HoldsLockedInit DEF HoldsInv
  <2>3. QED  BY <2>1, <2>2, PostedInit
<1>2. Inv /\ [HoldsNext]_holdsVars => Inv'
  <2>1. HoldsInv /\ [HoldsNext]_holdsVars => HoldsInv'
    BY HoldsTypeStep, HoldClaimsStep, HoldsLockedStep DEF HoldsInv
  <2>2. HoldsInv => HoldsTypeOK /\ ClaimsHeld /\ HeldCovered
    BY InvCovers DEF HoldsInv
  <2>3. QED  BY <2>1, <2>2, PostedStep, HoldsAnswersStep
<1>3. Inv /\ LedgerContinuity => AnswersMatchLedger
  BY DEF AnswersMatchLedger
<1>4. QED  BY <1>1, <1>2, <1>3, LedgerUnbroken, PTL DEF HoldsSpec

-----------------------------------------------------------------------------
(***************************************************************************)
(* A hold asks for a positive stake.                                       *)
(***************************************************************************)

\* The stake of a running hold is one its caller asked for.
StakesAsked ==
  \A r \in HoldRequests : holdReq[r].pc # "idle" /\ holdReq[r].op = "HOLD" => holdReq[r].amount \in Amounts

\* A hold is submitted with a stake callers ask for and keeps it; only a lookup of
\* a release or a capture fixes an amount later.
LEMMA AskedStep == HoldsTypeOK /\ StakesAsked /\ [HoldsNext]_holdsVars => StakesAsked'
<1> SUFFICES ASSUME HoldsTypeOK, StakesAsked, [HoldsNext]_holdsVars PROVE StakesAsked'
  OBVIOUS
<1>1. CASE UNCHANGED holdReq
  BY <1>1 DEF StakesAsked
<1>2. ASSUME NEW r \in HoldRequests, SubmitHold(r) PROVE StakesAsked'
  <2>1. /\ holdReq'[r].op = "HOLD" => holdReq'[r].amount \in Amounts
        /\ \A q \in HoldRequests \ {r} : holdReq'[q] = holdReq[q]
    BY <1>2 DEF SubmitHold, Call, HoldsTypeOK
  <2>2. QED  BY <2>1 DEF StakesAsked
<1>3. ASSUME NEW r \in HoldRequests, holdReq' = [holdReq EXCEPT ![r] = Idle] PROVE StakesAsked'
  BY <1>3 DEF StakesAsked, HoldsTypeOK, Idle
<1>4. ASSUME NEW r \in HoldRequests, holdReq[r].pc # "idle",
             \/ \E outcome, status : ReplyHold(r, outcome, status)
             \/ \E pc : Goto(r, pc)
             \/ /\ holdReq[r].op \in Finalizers
                /\ \E pc, amount : holdReq' = [holdReq EXCEPT ![r].pc = pc, ![r].amount = amount]
      PROVE  StakesAsked'
  <2>1. holdReq[r] \in Calls
    BY <1>4, ActiveCall
  <2>2. /\ holdReq'[r].op = holdReq[r].op
        /\ holdReq[r].op = "HOLD" => holdReq'[r].amount = holdReq[r].amount
        /\ \A q \in HoldRequests \ {r} : holdReq'[q] = holdReq[q]
    <3>1. CASE \E outcome, status : ReplyHold(r, outcome, status)
      BY <2>1, <3>1 DEF ReplyHold, HoldsTypeOK, Calls
    <3>2. CASE \E pc : Goto(r, pc)
      BY <2>1, <3>2 DEF Goto, HoldsTypeOK, Calls
    <3>3. CASE /\ holdReq[r].op \in Finalizers
               /\ \E pc, amount : holdReq' = [holdReq EXCEPT ![r].pc = pc, ![r].amount = amount]
      BY <2>1, <3>3 DEF HoldsTypeOK, Calls, Finalizers
    <3>4. QED  BY <1>4, <3>1, <3>2, <3>3
  <2>3. QED  BY <1>4, <2>2 DEF StakesAsked
<1>5. ASSUME NEW r \in HoldRequests, ServeHold(r) PROVE StakesAsked'
  <2>1. CASE HoldLookup(r) \/ HoldConflict(r) \/ HoldReread(r) \/ FinalizeClaim(r)
    BY <1>4, <2>1 DEF HoldLookup, HoldConflict, HoldReread, FinalizeClaim, HoldAt
  <2>2. CASE HoldRefused(r) \/ HoldCommit(r)
    BY <1>4, <2>2 DEF HoldRefused, HoldCommit, HoldAt
  <2>3. CASE FinalizeLookup(r) \/ FinalizeLate(r)
    <3>1. CASE Refinalize(r) \/ ReplyHold(r, "notFound", "NONE")
      BY <1>4, <2>3, <3>1 DEF FinalizeLookup, FinalizeLate, Refinalize
    <3>2. CASE /\ holdReq[r].pc = "lookup" /\ holdReq[r].op \in Finalizers
               /\ holdReq' = [holdReq EXCEPT ![r].pc = "claim",
                                    ![r].amount = reservation[Slot(r)].amount]
      BY <1>4, <3>2, Zenon
    <3>3. QED  BY <2>3, <3>1, <3>2, Zenon DEF FinalizeLookup, FinalizeLate
  <2>4. CASE ReleaseCommit(r) \/ CaptureCommit(r) \/ FinalizeAbort(r)
    BY <1>4, <2>4 DEF ReleaseCommit, CaptureCommit, FinalizeAbort, Finalized, HoldAt
  <2>5. CASE ReturnHold(r)
    BY <1>3, <2>5 DEF ReturnHold
  <2>6. QED  BY <1>5, <2>1, <2>2, <2>3, <2>4, <2>5 DEF ServeHold
<1>6. QED
  BY <1>1, <1>2, <1>3, <1>5 DEF HoldsNext, holdsVars, FailHold, HoldsAdjust

-----------------------------------------------------------------------------
(***************************************************************************)
(* The refinement.                                                         *)
(***************************************************************************)

\* A step that writes one wallet row writes one account.
LEMMA FundsMove ==
  ASSUME HoldsTypeOK, NEW w \in Wallets, NEW row \in WalletRows,
         wallet' = [wallet EXCEPT ![w] = row]
  PROVE  Funds' = [Funds EXCEPT ![w] = [available |-> row.balance, locked |-> row.locked]]
<1>1. wallet'[w] = row /\ \A v \in Wallets \ {w} : wallet'[v] = wallet[v]
  BY DEF HoldsTypeOK
<1>2. QED  BY <1>1 DEF Funds

\* A step that writes one reservation writes one stake.
LEMMA StakeMove ==
  ASSUME HoldsTypeOK, NEW s \in Slots, NEW row \in ReservationRows,
         reservation' = [reservation EXCEPT ![s] = row]
  PROVE  Stake' = [Stake EXCEPT ![s] = [status |-> row.status, amount |-> row.amount]]
<1>1. reservation'[s] = row /\ \A t \in Slots \ {s} : reservation'[t] = reservation[t]
  BY DEF HoldsTypeOK
<1>2. QED  BY <1>1 DEF Stake

\* A step that returns a held stake to the available funds in full is a Release.
LEMMA ReleaseMove ==
  ASSUME NEW w, NEW b, NEW available, NEW locked, NEW amount,
         Funds[w] = [available |-> available, locked |-> locked],
         Stake[<<w, b>>] = [status |-> "HELD", amount |-> amount],
         Funds' = [Funds EXCEPT ![w] = [available |-> available + amount,
                                        locked    |-> locked - amount]],
         Stake' = [Stake EXCEPT ![<<w, b>>] = [status |-> "RELEASED", amount |-> amount]]
  PROVE  Held!Release(w, b)
<1>1. [Stake[<<w, b>>] EXCEPT !.status = "RELEASED"] = [status |-> "RELEASED", amount |-> amount]
  OBVIOUS
<1>2. Stake' = [Stake EXCEPT ![<<w, b>>].status = "RELEASED"]
  BY <1>1
<1>3. Stake[<<w, b>>].status = "HELD" /\ Stake[<<w, b>>].amount = amount
  OBVIOUS
<1>4. Funds' = [Funds EXCEPT ![w] = [available |-> Funds[w].available + Stake[<<w, b>>].amount,
                                     locked    |-> Funds[w].locked - Stake[<<w, b>>].amount]]
  BY <1>3
<1>5. QED  BY <1>2, <1>3, <1>4, Zenon DEF Held!Release

\* A step that drops a held stake from the locked funds in full is a Capture.
LEMMA CaptureMove ==
  ASSUME NEW w, NEW b, NEW available, NEW locked, NEW amount,
         Funds[w] = [available |-> available, locked |-> locked],
         Stake[<<w, b>>] = [status |-> "HELD", amount |-> amount],
         Funds' = [Funds EXCEPT ![w] = [available |-> available,
                                        locked    |-> locked - amount]],
         Stake' = [Stake EXCEPT ![<<w, b>>] = [status |-> "CAPTURED", amount |-> amount]]
  PROVE  Held!Capture(w, b)
<1>1. [Stake[<<w, b>>] EXCEPT !.status = "CAPTURED"] = [status |-> "CAPTURED", amount |-> amount]
  OBVIOUS
<1>2. Stake' = [Stake EXCEPT ![<<w, b>>].status = "CAPTURED"]
  BY <1>1
<1>3. [Funds[w] EXCEPT !.locked = Funds[w].locked - amount] =
      [available |-> available, locked |-> locked - amount]
  OBVIOUS
<1>4. Stake[<<w, b>>].status = "HELD" /\ Stake[<<w, b>>].amount = amount
  OBVIOUS
<1>5. Funds' = [Funds EXCEPT ![w].locked = Funds[w].locked - Stake[<<w, b>>].amount]
  BY <1>3, <1>4
<1>6. QED  BY <1>2, <1>4, <1>5, Zenon DEF Held!Capture

\* Empty wallets are accounts without funds, and nothing is staked.
LEMMA RefinesInit == HoldsInit => Held!Init
<1> SUFFICES ASSUME HoldsInit PROVE Held!Init
  OBVIOUS
<1>1. Funds = [w \in Wallets |-> [available |-> 0, locked |-> 0]]
  BY DEF HoldsInit, MoneyInit, Funds
<1>2. Stake = [s \in Slots |-> [status |-> "NONE", amount |-> 0]]
  BY DEF HoldsInit, NoReservation, Stake
<1>3. QED  BY <1>1, <1>2 DEF Held!Init, Held!NoStake, Slots

\* A commit of a hold is a Hold, a commit of a release or a capture is a Release
\* or a Capture, an adjustment is an Adjust; every other step is invisible.
LEMMA RefinesStep ==
  HoldsTypeOK /\ ClaimsHeld /\ StakesAsked /\ [HoldsNext]_holdsVars => [Held!Next]_(Held!vars)
<1> SUFFICES ASSUME HoldsTypeOK, ClaimsHeld, StakesAsked, [HoldsNext]_holdsVars
             PROVE  Held!Next \/ UNCHANGED Held!vars
  OBVIOUS
<1> USE BigintAssumption, RequestAssumption, StakeAssumption
<1>1. CASE UNCHANGED <<wallet, reservation>>
  BY <1>1 DEF Held!vars, Funds, Stake
<1>2. ASSUME NEW r \in HoldRequests, HoldCommit(r) PROVE Held!Next
  <2> DEFINE w == holdReq[r].wallet
             b == holdReq[r].bet
             amount == holdReq[r].amount
             row == [status |-> "HELD", amount |-> amount, holdKey |-> holdReq[r].key,
                     holdTx |-> Len(ledger[w]) + 1, finalTx |-> 0]
             money == [balance |-> wallet[w].balance - amount,
                       locked  |-> wallet[w].locked + amount,
                       wager   |-> ConsumeWager(wallet[w].wager, amount)]
  <2>1. holdReq[r] \in Calls /\ Slot(r) \in Slots /\ Slot(r) = <<w, b>>
    BY <1>2, ActiveCall DEF HoldCommit, HoldAt, Slot
  <2>2. w \in Wallets /\ b \in Refs /\ amount \in 0..BigintMax /\ wallet[w] \in WalletRows
    BY <2>1 DEF Calls, HoldsTypeOK
  <2>3. row \in ReservationRows
    BY <2>1 DEF ReservationRows, Statuses, HoldsTypeOK, Calls
  <2>4. wallet[w].balance >= amount /\ money \in WalletRows
    <3>1. wallet[w].balance >= amount /\ wallet[w].locked + amount \in 0..BigintMax
      BY <1>2 DEF HoldCommit, DebitBalanceInTx, CanDebit, Fits
    <3>2. wallet[w].balance - amount \in 0..BigintMax
      BY <2>2, <3>1 DEF WalletRows
    <3>3. ConsumeWager(wallet[w].wager, amount) \in Nat
      BY <2>2 DEF WalletRows, ConsumeWager
    <3>4. QED  BY <3>1, <3>2, <3>3 DEF WalletRows
  <2>5. /\ wallet' = [wallet EXCEPT ![w] = money]
        /\ reservation' = [reservation EXCEPT ![<<w, b>>] = row]
    BY <1>2, <2>1 DEF HoldCommit, DebitBalanceInTx
  <2>6. /\ Funds' = [Funds EXCEPT ![w] = [available |-> money.balance, locked |-> money.locked]]
        /\ Stake' = [Stake EXCEPT ![<<w, b>>] = [status |-> row.status, amount |-> row.amount]]
    <3>1. Funds' = [Funds EXCEPT ![w] = [available |-> money.balance, locked |-> money.locked]]
      BY <2>2, <2>4, <2>5, FundsMove
    <3>2. Stake' = [Stake EXCEPT ![<<w, b>>] = [status |-> row.status, amount |-> row.amount]]
      BY <2>1, <2>3, <2>5, StakeMove
    <3>3. QED  BY <3>1, <3>2
  <2>7. /\ Funds[w].available = wallet[w].balance /\ Funds[w].locked = wallet[w].locked
        /\ Stake[<<w, b>>].status = "NONE"
    BY <1>2, <2>1, <2>2 DEF Funds, Stake, HoldCommit, HoldUnique
  <2>8. amount \in 1..BigintMax
    BY <1>2 DEF StakesAsked, HoldCommit, HoldAt
  <2>9. Held!Hold(w, b)
    BY <2>4, <2>6, <2>7, <2>8 DEF Held!Hold
  <2>10. QED  BY <2>2, <2>9 DEF Held!Next
<1>3. ASSUME NEW r \in HoldRequests, ReleaseCommit(r) \/ CaptureCommit(r) PROVE Held!Next
  <2> DEFINE w == holdReq[r].wallet
             b == holdReq[r].bet
             amount == holdReq[r].amount
             old == reservation[<<w, b>>]
             row == [old EXCEPT !.status = Target(holdReq[r].op), !.finalTx = Len(ledger[w]) + 1]
  <2>1. holdReq[r].pc = "wallet" /\ holdReq[r].op \in Finalizers /\ Finalized(r) /\ LockCovers(r)
    BY <1>3 DEF ReleaseCommit, CaptureCommit, HoldAt, Finalizers
  <2>2. holdReq[r] \in Calls /\ Slot(r) \in Slots /\ Slot(r) = <<w, b>>
    BY <2>1, ActiveCall DEF Slot
  <2>3. w \in Wallets /\ b \in Refs /\ amount \in 0..BigintMax /\ wallet[w] \in WalletRows
    BY <2>2 DEF Calls, HoldsTypeOK
  <2>4. old \in ReservationRows /\ old.status = "HELD" /\ old.amount = amount
    <3>1. reservation[Slot(r)].status = "HELD" /\ amount = reservation[Slot(r)].amount
      BY <2>1 DEF ClaimsHeld
    <3>2. reservation[Slot(r)] \in ReservationRows
      BY <2>2 DEF HoldsTypeOK
    <3>3. QED  BY <2>2, <3>1, <3>2
  <2>5. Target(holdReq[r].op) \in Statuses /\ Len(ledger[w]) + 1 \in Nat
    BY <2>3 DEF Target, Statuses, HoldsTypeOK
  <2>6. row \in ReservationRows /\ row.status = Target(holdReq[r].op) /\ row.amount = amount
    BY <2>4, <2>5 DEF ReservationRows
  <2>7. reservation' = [reservation EXCEPT ![<<w, b>>] = row]
    BY <2>1, <2>2, <2>4 DEF Finalized, HoldsTypeOK, ReservationRows
  <2> HIDE DEF row
  <2>8. Stake' = [Stake EXCEPT ![<<w, b>>] =
                    [status |-> Target(holdReq[r].op), amount |-> amount]]
    BY <2>2, <2>6, <2>7, StakeMove
  <2>9. /\ Funds[w] = [available |-> wallet[w].balance, locked |-> wallet[w].locked]
        /\ Stake[<<w, b>>] = [status |-> "HELD", amount |-> amount]
    BY <2>2, <2>3, <2>4 DEF Funds, Stake
  <2>10. CASE ReleaseCommit(r)
    <3> DEFINE available == wallet[w].balance + amount
               money == [wallet[w] EXCEPT !.balance = available,
                                          !.locked = wallet[w].locked - amount]
    <3>1. wallet' = [wallet EXCEPT ![w] = money]
      BY <2>3, <2>10 DEF ReleaseCommit, HoldsTypeOK, WalletRows
    <3>2. available \in 0..BigintMax /\ wallet[w].locked - amount \in 0..BigintMax
      <4>1. available \in 0..BigintMax /\ wallet[w].locked >= amount
        BY <2>1, <2>10 DEF ReleaseCommit, LockCovers, Fits
      <4>2. wallet[w].locked \in 0..BigintMax
        BY <2>3 DEF WalletRows
      <4>3. QED  BY <2>3, <4>1, <4>2
    <3>3. /\ money \in WalletRows
          /\ money.balance = available /\ money.locked = wallet[w].locked - amount
      BY <2>3, <3>2 DEF WalletRows
    <3> HIDE DEF money
    <3>4. Funds' = [Funds EXCEPT ![w] = [available |-> money.balance, locked |-> money.locked]]
      BY <2>3, <3>1, <3>3, FundsMove
    <3>5. Funds' = [Funds EXCEPT ![w] = [available |-> wallet[w].balance + amount,
                                         locked    |-> wallet[w].locked - amount]]
      BY <3>3, <3>4
    <3>6. Target(holdReq[r].op) = "RELEASED"
      BY <2>10 DEF ReleaseCommit, HoldAt, Target
    <3>7. Stake' = [Stake EXCEPT ![<<w, b>>] = [status |-> "RELEASED", amount |-> amount]]
      BY <2>8, <3>6
    <3>8. Held!Release(w, b)
      BY <2>9, <3>5, <3>7, ReleaseMove
    <3>9. QED  BY <2>3, <3>8 DEF Held!Next
  <2>11. CASE CaptureCommit(r)
    <3> DEFINE money == [wallet[w] EXCEPT !.locked = wallet[w].locked - amount]
    <3>1. wallet' = [wallet EXCEPT ![w] = money]
      BY <2>3, <2>11 DEF CaptureCommit, HoldsTypeOK, WalletRows
    <3>2. wallet[w].locked - amount \in 0..BigintMax
      BY <2>1, <2>3, <2>11 DEF CaptureCommit, LockCovers, WalletRows
    <3>3. /\ money \in WalletRows
          /\ money.balance = wallet[w].balance /\ money.locked = wallet[w].locked - amount
      BY <2>3, <3>2 DEF WalletRows
    <3> HIDE DEF money
    <3>4. Funds' = [Funds EXCEPT ![w] = [available |-> money.balance, locked |-> money.locked]]
      BY <2>3, <3>1, <3>3, FundsMove
    <3>5. Funds' = [Funds EXCEPT ![w] = [available |-> wallet[w].balance,
                                         locked    |-> wallet[w].locked - amount]]
      BY <3>3, <3>4
    <3>6. Target(holdReq[r].op) = "CAPTURED"
      BY <2>11 DEF CaptureCommit, HoldAt, Target
    <3>7. Stake' = [Stake EXCEPT ![<<w, b>>] = [status |-> "CAPTURED", amount |-> amount]]
      BY <2>8, <3>6
    <3>8. Held!Capture(w, b)
      BY <2>9, <3>5, <3>7, CaptureMove
    <3>9. QED  BY <2>3, <3>8 DEF Held!Next
  <2>12. QED  BY <1>3, <2>10, <2>11
<1>4. ASSUME NEW w \in Wallets, NEW delta \in Deltas, NEW key \in Keys, HoldsAdjust(w, delta, key)
      PROVE  Held!Next
  <2> DEFINE after == wallet[w].balance + delta
             money == [wallet[w] EXCEPT !.balance = after]
  <2>1. wallet[w] \in WalletRows /\ after \in 0..BigintMax /\ after # wallet[w].balance
    BY <1>4 DEF HoldsAdjust, AdjustWalletBalance, Fits, HoldsTypeOK, WalletRows
  <2>2. money \in WalletRows /\ wallet' = [wallet EXCEPT ![w] = money]
    BY <1>4, <2>1 DEF HoldsAdjust, AdjustWalletBalance, WalletRows, HoldsTypeOK
  <2>3. money.balance = after /\ money.locked = wallet[w].locked
    BY <2>1 DEF WalletRows
  <2> HIDE DEF money
  <2>4. Funds' = [Funds EXCEPT ![w] = [available |-> after, locked |-> wallet[w].locked]]
    BY <2>2, <2>3, FundsMove
  <2>5. Stake' = Stake
    BY <1>4 DEF HoldsAdjust, Stake
  <2>6. Funds[w] = [available |-> wallet[w].balance, locked |-> wallet[w].locked]
    BY DEF Funds
  <2> HIDE DEF after
  <2>7. Funds' = [Funds EXCEPT ![w].available = after]
    BY <2>4, <2>6 DEF Funds
  <2>8. after # Funds[w].available
    BY <2>1, <2>6
  <2>9. Held!Adjust(w)
    BY <2>1, <2>5, <2>7, <2>8, Zenon DEF Held!Adjust
  <2>10. QED  BY <2>9 DEF Held!Next
<1>5. QED
  BY <1>1, <1>2, <1>3, <1>4
     DEF HoldsNext, ServeHold, holdsVars, SubmitHold, ReturnHold, FailHold, HoldLookup, HoldRefused, HoldConflict, HoldReread, FinalizeLookup, FinalizeClaim,
         FinalizeLate, FinalizeAbort

\* The reservation service, with its unlocked reads, row locks, retries, failures
\* and ledger, implements HeldFunds.
THEOREM Implementation == HoldsSpec => ImplementsHeldFunds
<1>1. HoldsInit => Held!Init
  BY RefinesInit
<1>2. HoldsInit => StakesAsked
  BY DEF HoldsInit, StakesAsked, Idle
<1>3. HoldsTypeOK /\ StakesAsked /\ [HoldsNext]_holdsVars => StakesAsked'
  BY AskedStep
<1>4. HoldsInv /\ StakesAsked /\ [HoldsNext]_holdsVars => [Held!Next]_(Held!vars)
  BY RefinesStep DEF HoldsInv
<1>5. HoldsInv => HoldsTypeOK
  BY DEF HoldsInv
<1>6. QED
  BY <1>1, <1>2, <1>3, <1>4, <1>5, HoldsInvariance, PTL DEF HoldsSpec, ImplementsHeldFunds, Held!Spec

=============================================================================
