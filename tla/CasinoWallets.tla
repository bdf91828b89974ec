--------------------------- MODULE CasinoWallets ----------------------------
(***************************************************************************)
(* The wallet as its two clients share it: the reservation service, which  *)
(* most games use, and the bets module, with requests of both running at   *)
(* once on the same wallet rows and ledgers.  Each module keeps its own    *)
(* table of stakes, reservation and bet; the locked funds are one column.  *)
(***************************************************************************)
EXTENDS BetReservations, CasinoBets

(***************************************************************************)
(* Both clients write the ids of their stakes into the referenceId of      *)
(* ledger rows.  The games prefix their references ("battle:...") and      *)
(* casino_bets ids are generated, so no stake of one is taken for one of   *)
(* the other; the administrators' hold route takes any reference, and is   *)
(* assumed not to be given the id of a bet.                                *)
(***************************************************************************)
ASSUME OwnReferences == Refs \cap BetIds = {}

holdTables == <<reservation, rowLock, holdReq>>
betTables == <<bet, gameResult, betReq>>
vars == <<wallet, ledger, holdTables, betTables>>

Init == HoldsInit /\ BetsInit

Next ==
  \/ \E r \in HoldRequests : (SubmitHold(r) \/ ServeHold(r) \/ FailHold(r)) /\ UNCHANGED betTables
  \/ \E r \in BetRequests : (SubmitBet(r) \/ ServeBet(r) \/ FailBet(r)) /\ UNCHANGED holdTables
  \/ \E w \in Wallets, delta \in Deltas, key \in Keys :
        AdjustWalletBalance(w, delta, key) /\ UNCHANGED <<holdTables, betTables>>

Spec == Init /\ [][Next]_vars

-----------------------------------------------------------------------------

\* The locked funds are the stakes of both clients together.
LockedMatchesStakes ==
  \A w \in Wallets :
    wallet[w].locked = Cardinality(HeldUnits(w)) + Cardinality(PendingUnits(w))

\* What each client's ledger rows say of its stakes.
StakesPosted == PostedOnce /\ SettledOnce /\ ResultIffSettled

\* What each client's answers say of them; "Wallet lock invariant violated" is never
\* answered.
AnswersStayTrue == FinalizeAnswersTrue /\ AnswersAgree

\* Neither client spends or returns the other's stake, breaks what the other's
\* ledger rows say of it or makes an answer about it untrue: the locked funds are
\* the HELD reservations and the PENDING bets together, every stake is posted and
\* settled once, and the answers of both agree with it.
StakesAddUp == LockedMatchesStakes /\ StakesPosted /\ LedgerContinuity /\ AnswersStayTrue

\* The available funds of a wallet, and what its locked funds hold beyond the
\* stakes of the PENDING bets.
FundsBesideBets ==
  [w \in Wallets |-> [available |-> wallet[w].balance,
                     locked    |-> wallet[w].locked - Cardinality(PendingUnits(w))]]

BesideBets == INSTANCE HeldFunds WITH Accounts <- Wallets, Bets <- Refs,
                                      MaxFunds <- BigintMax,
                                      funds <- FundsBesideBets, stake <- Stake

\* The reservation service keeps its promise to its callers beside the bets
\* module: whatever bets the users of the same wallets place, win and lose, it
\* implements HeldFunds, to which a bet only moves available funds.
HeldFundsBesideBets == BesideBets!Spec

\* And what the locked funds hold beyond the stakes of the HELD reservations.
FundsBesideHolds ==
  [w \in Wallets |-> [available |-> wallet[w].balance,
                      locked    |-> wallet[w].locked - Cardinality(HeldUnits(w))]]

BesideHolds == INSTANCE PlacedBets WITH Accounts <- Wallets, Bets <- BetIds,
                                        NoAccount <- NoWallet, Stakes <- Amounts,
                                        Prize <- FlooredPrize, MaxFunds <- BigintMax,
                                        funds <- FundsBesideHolds, placed <- PlacedRows

\* Nor does the bets module break its own promise: whatever stakes the games hold,
\* release and capture on the same wallets, it implements PlacedBets.
PlacedBetsBesideHolds == BesideHolds!Spec

\* So the wallet rows the two clients share carry both abstract specifications at
\* once: neither client's callers notice the other but by the available funds.
PromisesKept == HeldFundsBesideBets /\ PlacedBetsBesideHolds
=============================================================================
