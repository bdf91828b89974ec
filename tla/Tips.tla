-------------------------------- MODULE Tips --------------------------------
(***************************************************************************)
(* tipUser: one transaction that locks the sender's wallet, then the       *)
(* recipient's, and writes both balances from what it read.  The key of    *)
(* its rows holds the time of the call, so two tips between the same users *)
(* at the same time collide.                                               *)
(***************************************************************************)
EXTENDS WalletLocks

TipCall(r) ==
  \E from, to \in Wallets, amount \in Amounts :
    /\ from # to
    /\ Start(r, [op |-> "TIP", pc |-> "lock", from |-> from, to |-> to,
                 amount |-> amount, order |-> <<from, to>>, read |-> <<>>,
                 now |-> clock])

TipKey(r) == <<"tip", req[r].from, req[r].to, req[r].now>>

\* The balance covers the tip, and neither row exists yet.
TipAllowed(r) ==
  /\ req[r].read[req[r].from] >= req[r].amount
  /\ ~KeyUsed(req[r].from, TipKey(r)) /\ ~KeyUsed(req[r].to, TipKey(r))

TipEntry(r, direction, before, after) ==
  Entry("USER_TIP", direction, req[r].amount, before, after, TipKey(r),
        <<req[r].from, req[r].to>>)

TipCommit(r) ==
  LET from == req[r].from
      to == req[r].to
      amount == req[r].amount
      paid == req[r].read[from]
      got == req[r].read[to]
  IN /\ At(r, "TIP", "lock")
     /\ req[r].order = <<>>
     /\ IF TipAllowed(r) /\ Fits(got + amount)
          THEN /\ wallet' = [wallet EXCEPT ![from].balance = paid - amount,
                                           ![to].balance = got + amount]
               /\ ledger' = [ledger EXCEPT
                    ![from] = Append(@, TipEntry(r, "DEBIT", paid, paid - amount)),
                    ![to] = Append(@, TipEntry(r, "CREDIT", got, got + amount))]
          ELSE UNCHANGED moneyVars
     /\ Answer(r)
     /\ UNCHANGED <<clock, calls>>

-----------------------------------------------------------------------------

TipRows(w, direction) ==
  {i \in DOMAIN ledger[w] : /\ ledger[w][i].reason = "USER_TIP"
                            /\ ledger[w][i].direction = direction}

\* Every tip taken from a wallet arrives in the recipient's, once and whole.
TipsArrive ==
  \A w \in Wallets : \A i \in TipRows(w, "DEBIT") :
    LET row == ledger[w][i]
        to == row.ref[2]
    IN Cardinality({j \in TipRows(to, "CREDIT") : /\ ledger[to][j].key = row.key
                                                  /\ ledger[to][j].amount = row.amount}) = 1
=============================================================================
