-------------------------------- MODULE Rain --------------------------------
(***************************************************************************)
(* The half-hourly rain: a pot of a base amount and the tips of users,     *)
(* shared when the round has ended by those who joined in its last minute. *)
(* Nobody schedules the settlement: whichever call comes first after the   *)
(* end (a look at the round, a join, a tip, the chat being opened) settles *)
(* the oldest unsettled round inside its own transaction, from the joins   *)
(* and the pot it read, locking the wallets it pays one after the other.   *)
(***************************************************************************)
EXTENDS WalletLocks

CONSTANTS
  RainBase,    \* RAIN_BASE_ATOMIC
  Joined       \* wallets that have joined the first round at the start

\* The base pot, five coins in their smallest units, has a unit for everyone.
ASSUME RainAssumption ==
  /\ RainBase \in Nat /\ RainBase >= Cardinality(Wallets)
  /\ Joined \subseteq Wallets

VARIABLE rain      \* [Rounds -> row of rain_rounds, with its joins]

Rounds == 0..(MaxClock \div 2)

NoRain == [exists |-> FALSE, tipped |-> 0, settled |-> FALSE, joins |-> {}]

\* The first round is open, some have joined it.
RainInit ==
  rain = [n \in Rounds |-> IF n = 0 THEN [NoRain EXCEPT !.exists = TRUE, !.joins = Joined]
                           ELSE NoRain]

\* halfHourStart, and the last minute of the half hour.
RoundOf(time) == time \div 2
LastMinute(time) == time % 2 = 1

AnyWallet == CHOOSE w \in Wallets : TRUE

RainCall(r) ==
  /\ \E w \in Wallets, amount \in Amounts, op \in {"LOOK", "JOIN", "RAINTIP"} :
       /\ op = "LOOK" => w = AnyWallet
       /\ Start(r, [op |-> op, pc |-> "previous", from |-> w, amount |-> amount,
                    order |-> <<>>, read |-> <<>>, settles |-> {}, joined |-> <<>>,
                    pot |-> 0, now |-> clock])
  /\ UNCHANGED rain

\* endsAt <= now and settledAt null, the oldest first.
Previous(now) ==
  {n \in Rounds : /\ rain[n].exists /\ ~rain[n].settled /\ n < RoundOf(now)
                  /\ \A m \in Rounds : rain[m].exists /\ ~rain[m].settled => n <= m}

\* The order the database returns the joins in.
Orders(S) == {s \in [1..Cardinality(S) -> S] : \A i, j \in DOMAIN s : s[i] = s[j] => i = j}

\* settlePreviousRoundIfNeeded reads the round, its pot and its joins; a tip
\* locks the tipper's wallet after those it pays.
ReadPrevious(r) ==
  LET found == Previous(req[r].now)
      tipper == IF req[r].op = "RAINTIP" THEN <<req[r].from>> ELSE <<>>
  IN /\ req[r].pc = "previous"
     /\ \E joined \in Orders(UNION {rain[n].joins : n \in found}) :
          req' = [req EXCEPT ![r] =
            [@ EXCEPT !.pc = "lock", !.settles = found, !.joined = joined,
                      !.pot = IF found = {} THEN 0
                              ELSE RainBase + rain[CHOOSE n \in found : TRUE].tipped,
                      !.order = joined \o tipper]]
     /\ UNCHANGED <<moneyVars, walletLock, clock, calls, rain>>

\* Mutant: the key of a payout is the call's.
PayoutKeyPerCall(r) == <<"rain", req[r].settles, r>>

PayoutKey(r) == <<"rain", req[r].settles>>

\* The pot is shared evenly, the first ones get one more of what is left.
Share(r, i) ==
  LET n == Len(req[r].joined)
  IN (req[r].pot \div n) + (IF i <= req[r].pot % n THEN 1 ELSE 0)

\* The participants this call pays, by their place.
Places(r, w) == {i \in DOMAIN req[r].joined : req[r].joined[i] = w /\ Share(r, i) > 0}

PaidWallet(r) ==
  [w \in Wallets |->
     IF Places(r, w) = {} THEN wallet[w]
     ELSE [wallet[w] EXCEPT !.balance = req[r].read[w] + Share(r, CHOOSE i \in Places(r, w) : TRUE)]]

PaidLedger(r) ==
  [w \in Wallets |->
     IF Places(r, w) = {} THEN ledger[w]
     ELSE LET share == Share(r, CHOOSE i \in Places(r, w) : TRUE)
              before == req[r].read[w]
          IN Append(ledger[w], Entry("RAIN_PAYOUT", "CREDIT", share, before, before + share,
                                     PayoutKey(r), req[r].settles))]

\* (walletId, idempotencyKey) is unique: a participant paid before aborts it all.
Payable(r) ==
  \A w \in Wallets : Places(r, w) # {} => ~KeyUsed(w, PayoutKey(r)) /\ Fits(PaidWallet(r)[w].balance)

\* The rounds after settling the one read, and opening the current one.
RainAfter(r) ==
  [n \in Rounds |-> [rain[n] EXCEPT !.settled = @ \/ n \in req[r].settles,
                                    !.exists = @ \/ n = RoundOf(req[r].now)]]

Ready(r) == req[r].pc = "lock" /\ req[r].order = <<>>

\* A look: settle and open, nothing else.
LookCommit(r) ==
  /\ Ready(r) /\ req[r].op = "LOOK" /\ Payable(r)
  /\ wallet' = PaidWallet(r) /\ ledger' = PaidLedger(r)
  /\ rain' = RainAfter(r)
  /\ Answer(r)
  /\ UNCHANGED <<clock, calls>>

\* A join, in the last minute only; joining twice is refused by (roundId, userId).
JoinCommit(r) ==
  LET n == RoundOf(req[r].now)
  IN /\ Ready(r) /\ req[r].op = "JOIN" /\ Payable(r)
     /\ LastMinute(req[r].now)
     /\ req[r].from \notin rain[n].joins
     /\ wallet' = PaidWallet(r) /\ ledger' = PaidLedger(r)
     /\ rain' = [RainAfter(r) EXCEPT ![n].joins = @ \cup {req[r].from}]
     /\ Answer(r)
     /\ UNCHANGED <<clock, calls>>

\* The tipper pays from the balance its own share may just have raised.
TipperBalance(r) ==
  IF Places(r, req[r].from) = {} THEN req[r].read[req[r].from]
                                 ELSE PaidWallet(r)[req[r].from].balance

RainTipAllowed(r) == TipperBalance(r) >= req[r].amount

RainTipCommit(r) ==
  LET n == RoundOf(req[r].now)
      w == req[r].from
      amount == req[r].amount
      before == TipperBalance(r)
      key == <<"raintip", n, w, req[r].now>>
  IN /\ Ready(r) /\ req[r].op = "RAINTIP" /\ Payable(r)
     /\ RainTipAllowed(r) /\ ~KeyUsed(w, key)
     /\ wallet' = [PaidWallet(r) EXCEPT ![w].balance = before - amount]
     /\ ledger' = [PaidLedger(r) EXCEPT ![w] =
          Append(@, Entry("RAIN_TIP", "DEBIT", amount, before, before - amount, key, n))]
     /\ rain' = [RainAfter(r) EXCEPT ![n].tipped = @ + amount]
     /\ Answer(r)
     /\ UNCHANGED <<clock, calls>>

\* An error thrown inside the transaction rolls everything back, the settlement
\* of the previous round included.
RainRefused(r) ==
  /\ Ready(r) /\ req[r].op \in {"LOOK", "JOIN", "RAINTIP"}
  /\ \/ ~Payable(r)
     \/ req[r].op = "JOIN" /\ (~LastMinute(req[r].now) \/ req[r].from \in rain[RoundOf(req[r].now)].joins)
     \/ req[r].op = "RAINTIP" /\ ~RainTipAllowed(r)
     \/ req[r].op = "RAINTIP" /\ KeyUsed(req[r].from, <<"raintip", RoundOf(req[r].now), req[r].from, req[r].now>>)
  /\ Answer(r)
  /\ UNCHANGED <<moneyVars, clock, calls, rain>>

RainStep(r) ==
  ReadPrevious(r) \/ LookCommit(r) \/ JoinCommit(r) \/ RainTipCommit(r) \/ RainRefused(r)

-----------------------------------------------------------------------------

PayoutRows(n) ==
  {x \in UNION {{w} \X DOMAIN ledger[w] : w \in Wallets} :
     /\ ledger[x[1]][x[2]].reason = "RAIN_PAYOUT"
     /\ ledger[x[1]][x[2]].ref = {n}}

\* However many calls settle a round at the same time, from whatever joins each
\* of them read, its participants together are paid no more than its pot and
\* nobody is paid twice; once anyone is paid, the whole base amount is.
RainWithinPot ==
  \A n \in Rounds :
    LET rows == PayoutRows(n)
        paid == Total([x \in rows |-> ledger[x[1]][x[2]].amount], rows)
    IN /\ paid <= RainBase + rain[n].tipped
       /\ rows # {} => paid >= RainBase
       /\ \A x \in rows : x[1] \in rain[n].joins
       /\ Cardinality({x[1] : x \in rows}) = Cardinality(rows)
=============================================================================
