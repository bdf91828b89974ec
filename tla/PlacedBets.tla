----------------------------- MODULE PlacedBets -----------------------------
(***************************************************************************)
(* What the bets module promises its callers, without requests, keys,      *)
(* signatures, nonces, retries or a ledger: a bet is placed once, with a   *)
(* stake taken from the available funds of an account and the terms it     *)
(* will be settled by, and is afterwards won or lost, once.  CasinoBets    *)
(* implements this specification.                                          *)
(***************************************************************************)
EXTENDS Integers

CONSTANTS
  Accounts, Bets, NoAccount,
  Stakes, Multipliers,
  Prize,       \* [Stakes -> [Multipliers -> what a won bet pays]]
  MaxFunds     \* the largest amount an account can hold

VARIABLES
  funds,   \* [Accounts -> [available, locked]]
  placed   \* [Bets -> [status, account, stake, multiplier]]

vars == <<funds, placed>>

NotPlaced == [status |-> "NONE", account |-> NoAccount, stake |-> 0, multiplier |-> 0]

Init ==
  /\ funds = [a \in Accounts |-> [available |-> 0, locked |-> 0]]
  /\ placed = [b \in Bets |-> NotPlaced]

(***************************************************************************)
(* Funds enter or leave an account from outside; never below zero.         *)
(***************************************************************************)
Adjust(a) ==
  \E after \in 0..MaxFunds :
     /\ after # funds[a].available
     /\ funds' = [funds EXCEPT ![a].available = after]
     /\ UNCHANGED placed

(***************************************************************************)
(* The stake is moved aside and the terms are fixed.                       *)
(***************************************************************************)
Place(a, b) ==
  \E stake \in Stakes, m \in Multipliers :
     /\ placed[b] = NotPlaced
     /\ funds[a].available >= stake
     /\ funds' = [funds EXCEPT ![a] = [available |-> @.available - stake,
                                       locked    |-> @.locked + stake]]
     /\ placed' = [placed EXCEPT ![b] = [status |-> "PENDING", account |-> a,
                                         stake |-> stake, multiplier |-> m]]

(***************************************************************************)
(* The stake of a pending bet is spent; a won bet pays its prize, the one  *)
(* its terms said, to the account that placed it.                          *)
(***************************************************************************)
Win(a, b) ==
  /\ placed[b].status = "PENDING" /\ placed[b].account = a
  /\ LET prize == Prize[placed[b].stake][placed[b].multiplier]
     IN funds' = [funds EXCEPT ![a] = [available |-> @.available + prize,
                                       locked    |-> @.locked - placed[b].stake]]
  /\ placed' = [placed EXCEPT ![b].status = "WON"]

Lose(a, b) ==
  /\ placed[b].status = "PENDING" /\ placed[b].account = a
  /\ funds' = [funds EXCEPT ![a].locked = @ - placed[b].stake]
  /\ placed' = [placed EXCEPT ![b].status = "LOST"]

Next ==
  \E a \in Accounts :
     \/ Adjust(a)
     \/ \E b \in Bets : Place(a, b) \/ Win(a, b) \/ Lose(a, b)

Spec == Init /\ [][Next]_vars
=============================================================================
