----------------------------- MODULE HeldFunds ------------------------------
(***************************************************************************)
(* What the wallet module promises its callers, without requests, keys,    *)
(* row locks or a ledger: an account has available and locked funds; a     *)
(* stake on a bet reference is taken from the available funds once, and is *)
(* afterwards either given back or spent, once.  BetReservations           *)
(* implements this specification.                                          *)
(***************************************************************************)
EXTENDS Integers

CONSTANTS
  Accounts, Bets,
  MaxFunds     \* the largest amount an account can hold

VARIABLES
  funds,   \* [Accounts -> [available, locked]]
  stake    \* [Accounts \X Bets -> [status, amount]]

vars == <<funds, stake>>

NoStake == [status |-> "NONE", amount |-> 0]

Init ==
  /\ funds = [a \in Accounts |-> [available |-> 0, locked |-> 0]]
  /\ stake = [s \in Accounts \X Bets |-> NoStake]

(***************************************************************************)
(* Funds enter or leave an account from outside; never below zero.         *)
(***************************************************************************)
Adjust(a) ==
  \E after \in 0..MaxFunds :
     /\ after # funds[a].available
     /\ funds' = [funds EXCEPT ![a].available = after]
     /\ UNCHANGED stake

(***************************************************************************)
(* The first hold of a reference moves the stake aside.                    *)
(***************************************************************************)
Hold(a, b) ==
  /\ stake[<<a, b>>].status = "NONE"
  /\ \E amount \in 1..MaxFunds :
        /\ funds[a].available >= amount
        /\ funds' = [funds EXCEPT ![a] = [available |-> @.available - amount,
                                          locked    |-> @.locked + amount]]
        /\ stake' = [stake EXCEPT ![<<a, b>>] =
                       [status |-> "HELD", amount |-> amount]]

(***************************************************************************)
(* A held stake returns to the available funds in full, or is spent in     *)
(* full; either way its status is then final.                              *)
(***************************************************************************)
Release(a, b) ==
  LET amount == stake[<<a, b>>].amount
  IN /\ stake[<<a, b>>].status = "HELD"
     /\ funds' = [funds EXCEPT ![a] = [available |-> @.available + amount,
                                       locked    |-> @.locked - amount]]
     /\ stake' = [stake EXCEPT ![<<a, b>>].status = "RELEASED"]

Capture(a, b) ==
  LET amount == stake[<<a, b>>].amount
  IN /\ stake[<<a, b>>].status = "HELD"
     /\ funds' = [funds EXCEPT ![a].locked = @ - amount]
     /\ stake' = [stake EXCEPT ![<<a, b>>].status = "CAPTURED"]

Next ==
  \E a \in Accounts :
     \/ Adjust(a)
     \/ \E b \in Bets : Hold(a, b) \/ Release(a, b) \/ Capture(a, b)

Spec == Init /\ [][Next]_vars
=============================================================================
