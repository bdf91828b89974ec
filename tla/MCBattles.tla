----------------------------- MODULE MCBattles ------------------------------
(***************************************************************************)
(* A battle of three seats, one per team, its creator and two players.     *)
(***************************************************************************)
EXTENDS Battles, TLC

CONSTANT c

MCTeam == [n \in Seats |-> n]
=============================================================================
