------------------------------- MODULE Mines --------------------------------
(***************************************************************************)
(* Mines: a game of one player on a board that a server seed and a nonce   *)
(* decide.  Starting a game takes the next nonce of the active seed and    *)
(* holds the stake; a reveal ends the game or adds to the revealed cells;  *)
(* a cashout pays.  The player may also have the server seed rotated,      *)
(* which reveals the old one.                                              *)
(*                                                                         *)
(* The transactions are READ COMMITTED.  A start keeps the profile's row   *)
(* from its first write on and is one step after it; so is a reveal, which *)
(* locks the game.  A cashout locks the game too, but reads the wallet and *)
(* writes it afterwards; a rotation first counts the active games.         *)
(***************************************************************************)
EXTENDS Ledgers

CONSTANTS
  Games,        \* ids games get, in the order they start
  Seeds,        \* server seeds, in the order they are generated, from 1
  Keys,         \* idempotency keys of starts
  Cells,        \* cells of the board
  MineCount,
  Bet,
  Multiplier,   \* [0..Cardinality(Cells) -> percent]: calculateMultiplier
  Balance,      \* what the wallet holds at the start
  Requests,     \* starts, cashouts and rotations that run at the same time
  NoKey

ASSUME MinesAssumption ==
  /\ Games \subseteq Nat \ {0} /\ Seeds \subseteq Nat \ {0} /\ 1 \in Seeds
  /\ IsFiniteSet(Cells) /\ MineCount \in 1..(Cardinality(Cells) - 1)
  /\ Multiplier \in [0..Cardinality(Cells) -> Nat]
  /\ Bet \in Nat \ {0} /\ Balance \in Nat /\ NoKey \notin Keys

VARIABLES
  wallet,      \* [balance, locked]
  profile,     \* provably_fair_profiles: [seed, nonce]
  seedStatus,  \* [Seeds -> "NONE", "ACTIVE" or "REVEALED"]
  game,        \* [Games -> row of mines_games with its reservation's status]
  req          \* [Requests -> Idle or the state of the call]

vars == <<wallet, profile, seedStatus, game, req>>

NoGame ==
  [status |-> "NONE", key |-> NoKey, seed |-> 0, nonce |-> 0, mines |-> {},
   revealed |-> {}, hold |-> "NONE", payout |-> 0]

Idle == [pc |-> "idle"]

\* The profile and its first seed exist: ensureProvablyFairContext.
Init ==
  /\ wallet = [balance |-> Balance, locked |-> 0]
  /\ profile = [seed |-> 1, nonce |-> 0]
  /\ seedStatus = [s \in Seeds |-> IF s = 1 THEN "ACTIVE" ELSE "NONE"]
  /\ game = [g \in Games |-> NoGame]
  /\ req = [r \in Requests |-> Idle]

Answer(r) == req' = [req EXCEPT ![r] = Idle]

\* getActiveMinesGame
Active == {g \in Games : game[g].status = "ACTIVE" /\ game[g].hold = "HELD"}

WithKey(key) == {g \in Games : game[g].key = key}

\* SELECT ... FOR UPDATE of an open cashout.
Locked(g) == \E r \in Requests : req[r].pc = "pay" /\ req[r].game = g

-----------------------------------------------------------------------------
(***************************************************************************)
(* startMinesGame                                                          *)
(***************************************************************************)

\* An active game, or the game of the key, would be the answer.
StartCall(r) ==
  /\ req[r] = Idle
  /\ Active = {}
  /\ \E key \in {k \in Keys : WithKey(k) = {}} : req' = [req EXCEPT ![r] = [pc |-> "start", key |-> key]]
  /\ UNCHANGED <<wallet, profile, seedStatus, game>>

\* Mutant: the nonce is read and not advanced by the same statement.
AdvancedNot == profile

\* SET nonce = nonce + 1 ... RETURNING nonce - 1
Advanced == [profile EXCEPT !.nonce = @ + 1]

\* (walletId, idempotencyKey) is unique, and the stake must be covered.
Startable(r) ==
  /\ seedStatus[profile.seed] = "ACTIVE"
  /\ WithKey(req[r].key) = {}
  /\ wallet.balance >= Bet

\* buildMineIndexes: the seeds and the nonce decide the mines.
Boards == {S \in SUBSET Cells : Cardinality(S) = MineCount}

StartGame(r) ==
  /\ req[r].pc = "start"
  /\ IF Startable(r)
       THEN \E g \in {x \in Games : game[x].status = "NONE"}, mines \in Boards :
              /\ \A x \in Games : x < g => game[x].status # "NONE"
              /\ profile' = Advanced
              /\ wallet' = [balance |-> wallet.balance - Bet, locked |-> wallet.locked + Bet]
              /\ game' = [game EXCEPT ![g] =
                   [NoGame EXCEPT !.status = "ACTIVE", !.key = req[r].key, !.hold = "HELD",
                                  !.seed = profile.seed, !.nonce = profile.nonce,
                                  !.mines = mines]]
       ELSE UNCHANGED <<wallet, profile, game>>
  /\ Answer(r)
  /\ UNCHANGED seedStatus

-----------------------------------------------------------------------------
(***************************************************************************)
(* revealMinesTile and cashoutMinesGame                                    *)
(***************************************************************************)

\* calculatePayoutAtomic
Payout(reveals) == (Bet * Multiplier[reveals]) \div 100

\* Mutant: a reveal does not wait for the row of its game.
PlayableUnlocked(g) == game[g].status = "ACTIVE"

Playable(g) == game[g].status = "ACTIVE" /\ ~Locked(g)

\* captureReservationFunds: the stake leaves the locked funds, if they cover it.
Captured(payout) ==
  /\ wallet.locked >= Bet
  /\ wallet' = [balance |-> wallet.balance + payout, locked |-> wallet.locked - Bet]

Ended(row, status, payout) ==
  [row EXCEPT !.status = status, !.hold = "CAPTURED", !.payout = payout]

HitMine(g, cell) ==
  /\ Playable(g)
  /\ cell \in game[g].mines
  /\ Captured(0)
  /\ game' = [game EXCEPT ![g] = Ended(@, "LOST", 0)]
  /\ UNCHANGED <<profile, seedStatus, req>>

\* The last safe cell cashes the game out.
RevealSafe(g, cell) ==
  LET revealed == game[g].revealed \cup {cell}
      row == [game[g] EXCEPT !.revealed = revealed]
      payout == Payout(Cardinality(revealed))
  IN /\ Playable(g)
     /\ cell \notin game[g].mines \cup game[g].revealed
     /\ IF revealed = Cells \ game[g].mines
          THEN Captured(payout) /\ game' = [game EXCEPT ![g] = Ended(row, "CASHED_OUT", payout)]
          ELSE UNCHANGED wallet /\ game' = [game EXCEPT ![g] = row]
     /\ UNCHANGED <<profile, seedStatus, req>>

\* The game is locked, something was revealed, and the wallet is read.
CashoutRead(r) ==
  /\ req[r] = Idle
  /\ wallet.locked >= Bet
  /\ \E g \in Games :
       /\ Playable(g) /\ game[g].revealed # {}
       /\ req' = [req EXCEPT ![r] = [pc |-> "pay", game |-> g, seen |-> wallet]]
  /\ UNCHANGED <<wallet, profile, seedStatus, game>>

\* Mutant: the balance is written like the locked funds, from what was read.
PaidAbsolute(seen, payout) == [balance |-> seen.balance + payout, locked |-> seen.locked - Bet]

\* balanceAtomic is incremented, lockedAtomic overwritten.
Paid(seen, payout) == [balance |-> wallet.balance + payout, locked |-> seen.locked - Bet]

CashoutPay(r) ==
  LET g == req[r].game
      payout == Payout(Cardinality(game[g].revealed))
  IN /\ req[r].pc = "pay"
     /\ wallet' = Paid(req[r].seen, payout)
     /\ game' = [game EXCEPT ![g] = Ended(@, "CASHED_OUT", payout)]
     /\ Answer(r)
     /\ UNCHANGED <<profile, seedStatus>>

-----------------------------------------------------------------------------
(***************************************************************************)
(* rotateProvablyFairServerSeed                                            *)
(***************************************************************************)

\* No active game may use the seed about to be revealed.
RotateCount(r) ==
  /\ req[r] = Idle
  /\ \A g \in Active : game[g].seed # profile.seed
  /\ req' = [req EXCEPT ![r] = [pc |-> "rotate", seed |-> profile.seed]]
  /\ UNCHANGED <<wallet, profile, seedStatus, game>>

\* A new seed is active from nonce 0 on, the old one is revealed.
Rotate(r) ==
  /\ req[r].pc = "rotate"
  /\ \E s \in Seeds :
       /\ seedStatus[s] = "NONE" /\ \A x \in Seeds : x < s => seedStatus[x] # "NONE"
       /\ seedStatus' = [seedStatus EXCEPT ![s] = "ACTIVE", ![req[r].seed] = "REVEALED"]
       /\ profile' = [seed |-> s, nonce |-> 0]
  /\ Answer(r)
  /\ UNCHANGED <<wallet, game>>

\* The process dies or a statement fails: the transaction rolls back.
Fail(r) ==
  /\ req[r] # Idle
  /\ Answer(r)
  /\ UNCHANGED <<wallet, profile, seedStatus, game>>

Next ==
  \/ \E r \in Requests :
       StartCall(r) \/ StartGame(r) \/ CashoutRead(r) \/ CashoutPay(r)
         \/ RotateCount(r) \/ Rotate(r) \/ Fail(r)
  \/ \E g \in Games, cell \in Cells : HitMine(g, cell) \/ RevealSafe(g, cell)

Spec == Init /\ [][Next]_vars

-----------------------------------------------------------------------------

Played == {g \in Games : game[g].status # "NONE"}

\* No two games are decided by the same seed and nonce, and no two are started
\* with one key, however starts and rotations overlap.
BoardsDistinct ==
  \A g, h \in Played :
    g # h => /\ <<game[g].seed, game[g].nonce>> # <<game[h].seed, game[h].nonce>>
             /\ game[g].key # game[h].key

\* A game that is over stays as it is, whichever reveal or cashout comes late;
\* one that goes on never forgets a revealed cell.
OverIsOver ==
  [][\A g \in Games :
       /\ game[g].status \in {"LOST", "CASHED_OUT"} => game'[g] = game[g]
       /\ game[g].revealed \subseteq game'[g].revealed]_game

\* A game is paid what its revealed cells are worth when it is cashed out.
PaidByReveals ==
  \A g \in Played :
    game[g].payout = IF game[g].status = "CASHED_OUT"
                       THEN Payout(Cardinality(game[g].revealed)) ELSE 0

\* What the games leave of the balance.
MinesNet == Total([g \in Games |-> game[g].payout], Played) - Bet * Cardinality(Played)
=============================================================================
