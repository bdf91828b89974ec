---------------------------- MODULE RouletteRules ---------------------------
(***************************************************************************)
(* The 15-slot wheel: 0 is green, the odd numbers are red, the even ones   *)
(* black, and 14 and 1, the neighbours of 0, are the bait.                 *)
(***************************************************************************)
EXTENDS Integers

Slots15 == 0..14

BetTypes == {"RED", "BLACK", "GREEN", "BAIT"}

GetColor(number) ==
  IF number = 0 THEN "GREEN"
  ELSE IF number \in {1, 3, 5, 7, 9, 11, 13} THEN "RED" ELSE "BLACK"

Won(type, number) ==
  IF type = "BAIT" THEN number \in {14, 1} ELSE GetColor(number) = type

PayoutMultiplier(type) ==
  CASE type \in {"RED", "BLACK"} -> 2
    [] type = "GREEN" -> 14
    [] type = "BAIT" -> 7

ComputePayout(type, stake, number) ==
  IF Won(type, number) THEN stake * PayoutMultiplier(type) ELSE 0
=============================================================================
