-------------------------- MODULE MCIntegrityAudit --------------------------
(***************************************************************************)
(* One request of each client, one reservation reference, one bet, and one *)
(* run of the audit beside them.  Three idempotency keys and two nonces    *)
(* bound the ledger at five rows.                                          *)
(***************************************************************************)
EXTENDS IntegrityAudit, TLC

CONSTANTS f1, b1, n1, n2

MCSigned == {[bet |-> b1, outcome |-> "WON",  nonce |-> n1],
             [bet |-> b1, outcome |-> "LOST", nonce |-> n2]}

MCDeltas == {1, -1}

MCPostingKeys == Keys \cup ({n1, n2} \X {"capture", "payout"})

Symmetry == Permutations(Keys)
=============================================================================
