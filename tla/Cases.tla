------------------------------- MODULE Cases --------------------------------
(***************************************************************************)
(* Cases beside Mines: a player opens a case for its price and is paid the *)
(* value of the item that the server seed and the nonce decide, with the   *)
(* wallet, the keys and the provably fair profile of the player's games of *)
(* Mines, while an administrator edits the case.                           *)
(*                                                                         *)
(* An opening reads the case's row, reads its active items and looks for   *)
(* an opening with its key; its transaction, which takes the nonce first,  *)
(* is one step.                                                            *)
(***************************************************************************)
EXTENDS Mines

CONSTANTS
  Editions,    \* numbers of what administrators save
  Price,       \* [Editions -> priceAtomic]
  Values       \* [Editions -> values of the active items]

ASSUME CasesAssumption ==
  /\ Editions \subseteq Nat /\ 1 \in Editions
  /\ Price \in [Editions -> Nat \ {0}]
  /\ Values \in [Editions -> (SUBSET Nat) \ {{}}]

VARIABLES
  shop,        \* the case: the edition its row and its items are of, isActive
  opened       \* rows of case_openings

caseVars == <<shop, opened>>

allVars == <<vars, caseVars>>

CasesInit ==
  /\ Init
  /\ shop = [edition |-> 1, active |-> TRUE]
  /\ opened = {}

-----------------------------------------------------------------------------
(***************************************************************************)
(* upsertCaseByAdmin and setCaseActiveStatusByAdmin                        *)
(***************************************************************************)

\* The row is updated, the items are replaced and kept as history.
UpsertCase ==
  /\ \E n \in Editions, active \in BOOLEAN :
       /\ n = shop.edition + 1
       /\ shop' = [edition |-> n, active |-> active]
  /\ UNCHANGED <<vars, opened>>

SetCaseActive ==
  /\ shop' = [shop EXCEPT !.active = ~@]
  /\ UNCHANGED <<vars, opened>>

-----------------------------------------------------------------------------
(***************************************************************************)
(* openCase                                                                *)
(***************************************************************************)

OpenedWith(key) == {row \in opened : row.key = key}

\* getCaseForOpen: the case's row.
OpenCall(r) ==
  /\ req[r] = Idle
  /\ shop.active
  /\ \E key \in Keys :
       req' = [req EXCEPT ![r] = [pc |-> "items", key |-> key, row |-> shop.edition]]
  /\ UNCHANGED <<wallet, profile, seedStatus, game, caseVars>>

\* Its items, by a statement of their own; the opening of the key is the answer.
OpenLook(r) ==
  /\ req[r].pc = "items"
  /\ IF OpenedWith(req[r].key) # {}
       THEN Answer(r)
       ELSE req' = [req EXCEPT ![r] =
              [pc |-> "open", key |-> @.key, row |-> @.row, items |-> shop.edition]]
  /\ UNCHANGED <<wallet, profile, seedStatus, game, caseVars>>

\* (walletId, idempotencyKey) is unique among the stakes of all games.
KeyFree(key) == WithKey(key) = {} /\ OpenedWith(key) = {}

\* Hold, opening, capture and payout: what is held is captured at once.
Open(r) ==
  LET price == Price[req[r].row]
  IN /\ req[r].pc = "open"
     /\ seedStatus[profile.seed] = "ACTIVE"
     /\ KeyFree(req[r].key)
     /\ wallet.balance >= price
     /\ \E value \in Values[req[r].items] :
          /\ wallet' = [wallet EXCEPT !.balance = @ - price + value]
          /\ opened' = opened \cup
               {[key |-> req[r].key, price |-> price, payout |-> value,
                 seed |-> profile.seed, nonce |-> profile.nonce]}
     /\ profile' = Advanced
     /\ Answer(r)
     /\ UNCHANGED <<seedStatus, game, shop>>

CasesStep(r) == OpenCall(r) \/ OpenLook(r) \/ Open(r)

-----------------------------------------------------------------------------

\* A start of Mines that an opening has taken the key of is refused (see Fail).
KeyTaken(r) == req[r].pc = "start" /\ OpenedWith(req[r].key) # {}

CasesNext ==
  \/ \E r \in Requests :
       \/ CasesStep(r)
       \/ StartGame(r) /\ ~KeyTaken(r) /\ UNCHANGED caseVars
       \/ (StartCall(r) \/ CashoutRead(r) \/ CashoutPay(r) \/ RotateCount(r) \/ Rotate(r) \/ Fail(r))
            /\ UNCHANGED caseVars
  \/ \E g \in Games, cell \in Cells : (HitMine(g, cell) \/ RevealSafe(g, cell)) /\ UNCHANGED caseVars
  \/ UpsertCase \/ SetCaseActive

CasesSpec == CasesInit /\ [][CasesNext]_allVars

-----------------------------------------------------------------------------

\* Two rows that different requests have paid for and different draws decide.
Apart(x, y) == x.key # y.key /\ <<x.seed, x.nonce>> # <<y.seed, y.nonce>>

\* No opening is decided by the seed and nonce of another opening or of a board,
\* and no key buys two of them, whatever requests and rotations overlap.
OpeningsDistinct ==
  \A o \in opened : /\ \A x \in opened \ {o} : Apart(o, x)
                    /\ \A g \in Played : Apart(o, game[g])

CasesNet == Total([o \in opened |-> o.payout], opened) - Total([o \in opened |-> o.price], opened)

\* The balance is what the boards and the openings leave of it together, each
\* paid once, although a cashout of Mines writes the wallet from what it read
\* before an opening changed it.
GamesAddUp ==
  /\ wallet.balance = Balance + MinesNet + CasesNet
  /\ OpeningsDistinct /\ PaidByReveals
=============================================================================
