---------------------------- MODULE MCCasinoBets ----------------------------
(***************************************************************************)
(* Two concurrent requests on one wallet and two bets.  The engine signed  *)
(* both outcomes for b1 under different nonces, and used the nonce n1      *)
(* again for b2.  Multipliers are in halves: 1 pays half the stake, so a   *)
(* winning stake of 1 pays nothing.  One of the callers' keys is a key     *)
(* the engine's settlements use.                                           *)
(***************************************************************************)
EXTENDS CasinoBets, TLC

CONSTANTS b1, b2, n1, n2, k1, k2

MCKeys == {k1, k2, <<n1, "payout">>}

MCSigned == {[bet |-> b1, outcome |-> "WON",  nonce |-> n1],
             [bet |-> b1, outcome |-> "LOST", nonce |-> n2],
             [bet |-> b2, outcome |-> "WON",  nonce |-> n1],
             [bet |-> b2, outcome |-> "LOST", nonce |-> n1]}

MCPostingKeys == {k1, k2} \cup ({n1, n2} \X {"capture", "payout"})

MCDeltas == {1, -1, 2, -2}

Symmetry == Permutations(BetRequests) \cup Permutations({k1, k2})
=============================================================================
