------------------------- MODULE MCBetReservations --------------------------
(***************************************************************************)
(* Two concurrent requests on one wallet and two bet references.  Every    *)
(* posting uses up an idempotency key, so the set of keys bounds the       *)
(* ledger; the stake and BigintMax are chosen so that the balance runs out *)
(* and credits and releases overflow the balance.  The run checks          *)
(* liveness, so it takes no symmetry.                                      *)
(***************************************************************************)
EXTENDS BetReservations

\* Credits that cover two stakes, debits of as much.
MCDeltas == {2, -2}
=============================================================================
