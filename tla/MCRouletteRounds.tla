-------------------------- MODULE MCRouletteRounds --------------------------
(***************************************************************************)
(* Up to two rounds and two bets of one player, red or green.  The wheel   *)
(* has the slots 0 (green wins) and 1 (red wins), or slot 0 alone where    *)
(* one outcome, with a winning and a losing bet in it, is enough.          *)
(***************************************************************************)
EXTENDS RouletteRounds, TLC

Symmetry == Permutations(Keys) \cup Permutations(Bets) \cup Permutations(Replicas)
              \cup Permutations(Requests)
=============================================================================
