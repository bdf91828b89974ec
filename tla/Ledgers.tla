------------------------------ MODULE Ledgers -------------------------------
(***************************************************************************)
(* What an unbroken ledger is, and the sum of the amounts of some rows.    *)
(***************************************************************************)
EXTENDS Integers, Sequences, FiniteSets

(***************************************************************************)
(* The rows of a ledger chain: the first starts from an empty wallet, each *)
(* later one starts from the balance its predecessor left, and the last    *)
(* one left the balance the wallet has now.                                *)
(***************************************************************************)
ChainFrom(rows, balance) ==
  /\ rows = <<>> => balance = 0
  /\ rows # <<>> => /\ rows[1].before = 0
                    /\ rows[Len(rows)].after = balance
  /\ \A i \in 1..(Len(rows) - 1) : rows[i + 1].before = rows[i].after

KeysDistinct(rows) ==
  \A i, j \in DOMAIN rows : rows[i].key = rows[j].key => i = j

(***************************************************************************)
(* The sum of amounts, each a natural number, over a finite set of rows:   *)
(* every row stands for as many pieces as its amount.                      *)
(***************************************************************************)
Pieces(amount, rows) == UNION {{row} \X (1..amount[row]) : row \in rows}

Total(amount, rows) == Cardinality(Pieces(amount, rows))
=============================================================================
