---------------------------- MODULE Games_proofs ----------------------------
(***************************************************************************)
(* What is proved of the cases module and of the battles that open cases:  *)
(* first battles, then Mines and Cases on one wallet.  The two models      *)
(* share no state; the theorems of each are about its own specification.   *)
(***************************************************************************)
EXTENDS Battles, Cases, Ledgers_proofs

(***************************************************************************)
(* Battles.  No seat of a battle is paid twice, however many settlements   *)
(* run at once, every stake is spent or given back, and funds are never    *)
(* made or lost, for any players, seats, teams, prices and number of       *)
(* calls.                                                                  *)
(***************************************************************************)

\* The key of a payout row names its battle and seat and nothing of the call.
KeysOfSeats == \A x \in paid : x.by = NoUser

PaymentsOnce == KeysOfSeats /\ SeatPaidOnce

\* Only the commit of a settlement posts payouts.
LEMMA OthersPostNothing ==
  ASSUME NEW r \in BattleCalls,
         CreateCall(r) \/ JoinCall(r) \/ BotCall(r) \/ HoldLookup(r) \/ HoldStake(r)
           \/ CreateBattle(r) \/ ClaimSeat(r) \/ CaptureStake(r) \/ ReopenSeat(r)
           \/ ReleaseStake(r) \/ DeleteBattle(r) \/ FillBot(r) \/ SettleLook(r)
           \/ SettleRead(r) \/ StatementFails(r) \/ SettleAborts(r)
  PROVE  paid' = paid
<1>1. CASE CreateCall(r) \/ JoinCall(r) \/ BotCall(r)
  BY <1>1 DEF CreateCall, JoinCall, BotCall
<1>2. CASE HoldLookup(r) \/ HoldStake(r) \/ CreateBattle(r) \/ ClaimSeat(r)
  BY <1>2 DEF HoldLookup, HoldStake, CreateBattle, ClaimSeat
<1>3. CASE CaptureStake(r) \/ ReopenSeat(r) \/ ReleaseStake(r) \/ DeleteBattle(r)
  BY <1>3 DEF CaptureStake, ReopenSeat, ReleaseStake, DeleteBattle
<1>4. CASE FillBot(r) \/ SettleLook(r) \/ SettleRead(r) \/ StatementFails(r)
  BY <1>4 DEF FillBot, SettleLook, SettleRead, StatementFails
<1>5. CASE SettleAborts(r)
  BY <1>5 DEF SettleAborts
<1>6. QED  BY <1>1, <1>2, <1>3, <1>4, <1>5

\* Rows that pay distinct seats, none of which was posted before.
NewRows(rows) ==
  /\ \A x \in rows : x.by = NoUser
  /\ \A x, y \in rows : x.seat = y.seat => x = y
  /\ ~PostedBefore(rows)

\* A set with one payout row for each of some seats has one row for each seat.
LEMMA OneRowForEachSeat ==
  ASSUME NEW S, NEW user, NEW amount, NEW r, NEW rows,
         rows = {PayoutRow(n, user[n], amount[n], r) : n \in S},
         ~PostedBefore(rows)
  PROVE  NewRows(rows)
<1>1. \A x \in rows : x.by = NoUser
  BY DEF PayoutRow
<1>2. ASSUME NEW x \in rows, NEW y \in rows, x.seat = y.seat
      PROVE  x = y
  <2>1. PICK n \in S : x = PayoutRow(n, user[n], amount[n], r)
    OBVIOUS
  <2>2. PICK m \in S : y = PayoutRow(m, user[m], amount[m], r)
    OBVIOUS
  <2>3. x.seat = n /\ y.seat = m
    BY <2>1, <2>2 DEF PayoutRow
  <2>4. QED  BY <1>2, <2>1, <2>2, <2>3
<1>3. QED  BY <1>1, <1>2 DEF NewRows

\* A settlement posts nothing, or new rows.
LEMMA SettlementPosts ==
  ASSUME NEW r \in BattleCalls, SettleCommit(r)
  PROVE  paid' = paid \/ \E rows : NewRows(rows) /\ paid' = paid \cup rows
<1>1. CASE battle.status = "DELETED"
  BY <1>1 DEF SettleCommit
<1>2. CASE battle.status # "DELETED"
  <2> DEFINE payout(w) == [n \in Seats |->
               IF n \in w THEN WinnerPayout(w, calls[r].seats[n].percent, battle.mode) ELSE 0]
             payees(w) == {m \in w : calls[r].seats[m].user # NoUser /\ payout(w)[m] > 0}
             rows(w) == {PayoutRow(n, calls[r].seats[n].user, payout(w)[n], r) : n \in payees(w)}
  <2>1. PICK w \in Winners(battle.mode) :
          \/ paid' = paid
          \/ ~PostedBefore(rows(w)) /\ paid' = paid \cup rows(w)
    BY <1>2 DEF SettleCommit
  <2>2. CASE ~PostedBefore(rows(w)) /\ paid' = paid \cup rows(w)
    <3> DEFINE user == [n \in payees(w) |-> calls[r].seats[n].user]
               amount == payout(w)
               R == rows(w)
    <3>2. R = {PayoutRow(n, user[n], amount[n], r) : n \in payees(w)}
      <4> HIDE DEF payout, payees
      <4> QED  BY Zenon
    <3>3. NewRows(R)
      <4>1. ~PostedBefore(R)
        BY <2>2
      <4> HIDE DEF payout, payees, rows, user, amount, R
      <4>2. QED  BY <3>2, <4>1, OneRowForEachSeat
    <3>4. QED  BY <2>2, <3>3
  <2>3. QED  BY <2>1, <2>2
<1>3. QED  BY <1>1, <1>2

\* New rows pay distinct seats, and the unique key keeps them apart from old ones.
LEMMA PaidStep == PaymentsOnce /\ [BattlesNext]_battlesVars => PaymentsOnce'
<1> SUFFICES ASSUME PaymentsOnce, [BattlesNext]_battlesVars PROVE PaymentsOnce'
  OBVIOUS
<1> USE DEF PaymentsOnce
<1>1. CASE paid' = paid
  BY <1>1 DEF KeysOfSeats, SeatPaidOnce
<1>2. ASSUME NEW rows, NewRows(rows), paid' = paid \cup rows
      PROVE  PaymentsOnce'
  <2>1. \A x \in rows, y \in paid : ~(y.seat = x.seat /\ y.user = x.user)
    BY <1>2 DEF NewRows, PostedBefore, KeysOfSeats
  <2>2. KeysOfSeats'
    BY <1>2 DEF NewRows, KeysOfSeats
  <2>3. SeatPaidOnce'
    BY <1>2, <2>1 DEF NewRows, SeatPaidOnce
  <2>4. QED  BY <2>2, <2>3
<1>3. ASSUME NEW r \in BattleCalls, SettleCommit(r) PROVE PaymentsOnce'
  BY <1>1, <1>2, <1>3, SettlementPosts
<1>4. QED
  BY <1>1, <1>3, OthersPostNothing DEF BattlesNext, Serve, battlesVars

\* Two settlements of one battle never pay the same player for the same seat.
THEOREM SeatsPaidOnce == BattlesSpec => []SeatPaidOnce
<1>1. BattlesInit => PaymentsOnce
  BY DEF BattlesInit, PaymentsOnce, KeysOfSeats, SeatPaidOnce
<1>2. PaymentsOnce => SeatPaidOnce
  BY DEF PaymentsOnce
<1>3. QED  BY <1>1, <1>2, PaidStep, PTL DEF BattlesSpec

-----------------------------------------------------------------------------
(***************************************************************************)
(* What calls and stakes know of each other.                               *)
(***************************************************************************)

Slots == Users \X Seats

StakeRows == [status : {"NONE", "HELD", "RELEASED", "CAPTURED"}, amount : Nat]

SeatRows ==
  [state : {"OPEN", "JOINED", "BOT"}, user : Users \cup {NoUser}, percent : 20..100,
   paid : Nat, payout : Nat]

\* A call of createBattle or joinBattle, of the bots, and the transaction of a settlement.
Entries ==
  [op : {"CREATE", "JOIN"},
   pc : {"hold", "debit", "create", "claim", "capture", "reopen", "release", "delete",
         "settle", "read"},
   user : Users, seat : Seats, percent : Percents, paid : Nat]

Fills ==
  [op : {"BOTS"}, pc : {"bots", "settle", "read"}, user : Users, todo : SUBSET Seats]

Payments == [pc : {"pay"}, seats : [Seats -> SeatRows]]

Shapes ==
  /\ stake \in [Slots -> StakeRows]
  /\ battle \in [status : {"NONE", "OPEN", "SETTLED", "DELETED"}, mode : Modes \cup {"TEAM"}]
  /\ seat \in [Seats -> SeatRows]
  /\ \A x \in paid : x.seat \in Seats /\ x.user \in Users /\ x.amount \in Nat
  /\ IsFiniteSet(paid)
  /\ calls \in [BattleCalls -> {NoCall} \cup Entries \cup Fills \cup Payments]


Entering(r) == calls[r] \in Entries

In(r, pcs) == Entering(r) /\ calls[r].pc \in pcs

\* The creation that runs before there is a battle runs alone.
Creating(r) == In(r, {"hold", "debit", "create"}) /\ calls[r].op = "CREATE"

InOrder(r) ==
  /\ In(r, {"claim", "reopen"}) => calls[r].op = "JOIN"
  /\ In(r, {"create", "delete"}) => calls[r].op = "CREATE"
  /\ Entering(r) /\ calls[r].op = "CREATE" => Slot(r) = <<Creator, 0>>
  /\ Creating(r) => /\ battle.status = "NONE"
                    /\ \A x \in BattleCalls \ {r} : calls[x] = NoCall

CallsInOrder == \A r \in BattleCalls : InOrder(r)

\* Before there is a battle only its creation runs, and nobody sits.
BeforeOK(r) ==
  \/ calls[r] = NoCall
  \/ Creating(r)
  \/ In(r, {"release"}) /\ calls[r].op = "CREATE"

BeforeBattle ==
  battle.status = "NONE" =>
    (\A n \in Seats : seat[n].user = NoUser) /\ (\A r \in BattleCalls : BeforeOK(r))

\* A call past its hold knows the stake of its slot.
StakesKnown ==
  \A r \in BattleCalls :
    In(r, {"create", "claim", "capture"}) =>
      stake[Slot(r)].status # "NONE" /\ stake[Slot(r)].amount = calls[r].paid

\* A call that will capture or release the stake of a slot runs ...
Finishes(r, s) ==
  In(r, {"create", "claim", "capture", "reopen", "release"}) /\ Slot(r) = s

HeldForCall ==
  \A s \in Slots : stake[s].status = "HELD" => \E r \in BattleCalls : Finishes(r, s)

\* ... or one that will capture it or open the seat again.
Undoes(r, s) ==
  /\ Entering(r) /\ Slot(r) = s
  /\ \/ In(r, {"capture", "reopen"})
     \/ In(r, {"release", "delete"}) /\ calls[r].op = "CREATE"

Backed(n) ==
  LET s == <<seat[n].user, n>>
  IN seat[n].user # NoUser =>
       /\ stake[s].status # "NONE" /\ stake[s].amount = seat[n].paid
       /\ stake[s].status = "CAPTURED" \/ \E r \in BattleCalls : Undoes(r, s)

SeatsBacked == \A n \in Seats : Backed(n)

StakesInv ==
  Shapes /\ CallsInOrder /\ BeforeBattle /\ StakesKnown /\ HeldForCall /\ SeatsBacked

LEMMA StakesInit == BattlesInit => StakesInv
<1> SUFFICES ASSUME BattlesInit PROVE StakesInv
  OBVIOUS
<1> USE DEF BattlesInit, NoCall
<1>1. Shapes
  <2>1. stake \in [Slots -> StakeRows]
    BY DEF Slots, StakeRows, Wallet!NoStake
  <2>2. seat \in [Seats -> SeatRows]
    BY DEF SeatRows, OpenSeat
  <2>3. IsFiniteSet(paid)
    BY FS_EmptySet
  <2>4. QED  BY <2>1, <2>2, <2>3 DEF Shapes
<1>2. \A r \in BattleCalls : ~Entering(r)
  BY DEF Entering, Entries
<1>3. CallsInOrder /\ StakesKnown
  BY <1>2 DEF CallsInOrder, InOrder, StakesKnown, In, Creating
<1>4. BeforeBattle
  BY DEF BeforeBattle, BeforeOK, OpenSeat
<1>5. HeldForCall
  BY DEF HeldForCall, Slots, Wallet!NoStake
<1>6. SeatsBacked
  BY DEF SeatsBacked, Backed, OpenSeat
<1>7. QED  BY <1>1, <1>3, <1>4, <1>5, <1>6 DEF StakesInv

-----------------------------------------------------------------------------
(***************************************************************************)
(* One call moves at a time.                                               *)
(***************************************************************************)

\* The other calls stay as they are.
Others(r) == \A x \in BattleCalls \ {r} : calls'[x] = calls[x]

\* What the others do, and where they are, they keep.
LEMMA OthersStay ==
  ASSUME NEW r \in BattleCalls, Others(r)
  PROVE  \A x \in BattleCalls \ {r} :
           /\ Entering(x)' <=> Entering(x)
           /\ \A pcs : In(x, pcs)' <=> In(x, pcs)
           /\ Creating(x)' <=> Creating(x)
           /\ Slot(x)' = Slot(x)
           /\ \A s : (Finishes(x, s)' <=> Finishes(x, s)) /\ (Undoes(x, s)' <=> Undoes(x, s))
BY DEF Others, Entering, In, Creating, Slot, Finishes, Undoes

\* A running call excludes another one's creation of the battle.
LEMMA NobodyElseCreates ==
  ASSUME CallsInOrder, NEW r \in BattleCalls, calls[r] # NoCall
  PROVE  \A x \in BattleCalls \ {r} : ~Creating(x)
BY DEF CallsInOrder, InOrder

\* When a call moves, the order of calls depends on it alone ...
LEMMA OrderKept ==
  ASSUME StakesInv, NEW r \in BattleCalls, Others(r), InOrder(r)',
         \A x \in BattleCalls \ {r} : ~Creating(x)
  PROVE  CallsInOrder'
<1>1. ASSUME NEW x \in BattleCalls, x # r PROVE InOrder(x)'
  <2>1. InOrder(x) /\ ~Creating(x)
    BY <1>1 DEF StakesInv, CallsInOrder
  <2>2. /\ Entering(x)' <=> Entering(x)
        /\ \A pcs : In(x, pcs)' <=> In(x, pcs)
        /\ Creating(x)' <=> Creating(x)
        /\ Slot(x)' = Slot(x) /\ calls'[x] = calls[x]
    BY <1>1, OthersStay DEF Others
  <2>3. QED  BY <2>1, <2>2 DEF InOrder
<1>2. QED  BY <1>1 DEF CallsInOrder

\* ... and so does what the calls know of their stakes, when no amount changes, ...
LEMMA KnownKept ==
  ASSUME StakesInv, NEW r \in BattleCalls, Others(r),
         \A s \in Slots : stake[s].status # "NONE" =>
           stake'[s].status # "NONE" /\ stake'[s].amount = stake[s].amount,
         In(r, {"create", "claim", "capture"})' =>
           stake'[Slot(r)'].status # "NONE" /\ stake'[Slot(r)'].amount = calls'[r].paid
  PROVE  StakesKnown'
<1>1. ASSUME NEW x \in BattleCalls, x # r, In(x, {"create", "claim", "capture"})'
      PROVE  stake'[Slot(x)'].status # "NONE" /\ stake'[Slot(x)'].amount = calls'[x].paid
  <2>1. /\ In(x, {"create", "claim", "capture"}) /\ Slot(x)' = Slot(x) /\ calls'[x] = calls[x]
    BY <1>1, OthersStay DEF Others
  <2>2. Slot(x) \in Slots
    BY <2>1 DEF In, Entering, Entries, Slot, Slots
  <2>3. QED  BY <2>1, <2>2 DEF StakesInv, StakesKnown
<1>2. QED  BY <1>1 DEF StakesKnown

\* ... who finishes a held stake ...
LEMMA HeldKept ==
  ASSUME StakesInv, NEW r \in BattleCalls, Others(r),
         \A s \in Slots : stake'[s].status = "HELD" =>
           (stake[s].status = "HELD" /\ ~Finishes(r, s)) \/ Finishes(r, s)'
  PROVE  HeldForCall'
<1>1. ASSUME NEW s \in Slots, stake'[s].status = "HELD"
      PROVE  \E x \in BattleCalls : Finishes(x, s)'
  <2>1. CASE Finishes(r, s)'
    BY <2>1
  <2>2. CASE stake[s].status = "HELD" /\ ~Finishes(r, s)
    <3>1. PICK x \in BattleCalls : Finishes(x, s)
      BY <2>2 DEF StakesInv, HeldForCall
    <3>2. Finishes(x, s)'
      BY <2>2, <3>1, OthersStay
    <3>3. QED  BY <3>2
  <2>3. QED  BY <1>1, <2>1, <2>2
<1>2. QED  BY <1>1 DEF HeldForCall, Slots

\* ..., who will pay for a seat or open it again.
LEMMA BackedKept ==
  ASSUME StakesInv, NEW r \in BattleCalls, Others(r), NEW n \in Seats, NEW s,
         s = <<seat[n].user, n>>, seat'[n].user = seat[n].user, seat'[n].paid = seat[n].paid,
         stake[s].status # "NONE" =>
           stake'[s].status # "NONE" /\ stake'[s].amount = stake[s].amount,
         stake[s].status = "CAPTURED" => stake'[s].status = "CAPTURED",
         Undoes(r, s) => stake'[s].status = "CAPTURED" \/ Undoes(r, s)'
  PROVE  Backed(n)'
<1>1. CASE seat[n].user = NoUser
  BY <1>1 DEF Backed
<1>2. CASE seat[n].user # NoUser
  <2>1. /\ stake[s].status # "NONE" /\ stake[s].amount = seat[n].paid
        /\ stake[s].status = "CAPTURED" \/ \E x \in BattleCalls : Undoes(x, s)
    BY <1>2 DEF StakesInv, SeatsBacked, Backed
  <2>2. stake'[s].status = "CAPTURED" \/ \E x \in BattleCalls : Undoes(x, s)'
    BY <2>1, OthersStay
  <2>3. QED  BY <2>1, <2>2 DEF Backed
<1>3. QED  BY <1>1, <1>2

\* ..., and, before there is a battle, that only its creation runs.
LEMMA BeforeKept ==
  ASSUME StakesInv, NEW r \in BattleCalls, Others(r),
         battle'.status = "NONE" =>
           battle.status = "NONE" /\ BeforeOK(r)' /\ \A n \in Seats : seat'[n].user = NoUser
  PROVE  BeforeBattle'
<1>1. ASSUME battle'.status = "NONE", NEW x \in BattleCalls PROVE BeforeOK(x)'
  <2>1. CASE x = r
    BY <1>1, <2>1
  <2>2. CASE x # r
    <3>0. battle.status = "NONE"
      BY <1>1
    <3>1. BeforeOK(x)
      BY <3>0 DEF StakesInv, BeforeBattle, BeforeOK
    <3>2. /\ \A pcs : In(x, pcs)' <=> In(x, pcs)
          /\ Creating(x)' <=> Creating(x)
          /\ calls'[x] = calls[x]
      BY <2>2, OthersStay DEF Others
    <3>3. QED  BY <3>1, <3>2 DEF BeforeOK, NoCall
  <2>3. QED  BY <2>1, <2>2
<1>2. QED  BY <1>1 DEF BeforeBattle, BeforeOK

Running == {NoCall} \cup Entries \cup Fills \cup Payments

EntryPcs == {"hold", "debit", "create", "claim", "capture", "reopen", "release", "delete",
             "settle", "read"}

\* A call of createBattle or joinBattle goes to another of its steps, or is over.
LEMMA EntryMoves ==
  ASSUME Shapes, NEW r \in BattleCalls, Entering(r), NEW pc \in EntryPcs, Goto(r, pc)
  PROVE  /\ Others(r) /\ calls' \in [BattleCalls -> Running] /\ Entering(r)'
         /\ calls'[r].pc = pc /\ calls'[r].op = calls[r].op /\ calls'[r].paid = calls[r].paid
         /\ Slot(r)' = Slot(r)
<1>1. calls[r] \in Entries /\ calls \in [BattleCalls -> Running]
  BY DEF Entering, Shapes, Running
<1>2. calls' = [calls EXCEPT ![r].pc = pc]
  BY DEF Goto
<1>3. /\ calls'[r] \in Entries /\ calls'[r].pc = pc /\ calls'[r].op = calls[r].op
      /\ calls'[r].paid = calls[r].paid /\ calls'[r].user = calls[r].user /\ calls'[r].seat = calls[r].seat
      /\ Others(r)
  BY <1>1, <1>2 DEF Entries, EntryPcs, Others
<1>4. calls' \in [BattleCalls -> Running]
  BY <1>1, <1>2, <1>3 DEF Running, Others
<1>5. QED  BY <1>3, <1>4 DEF Entering, Slot

LEMMA CallEnds ==
  ASSUME Shapes, NEW r \in BattleCalls, EndCall(r)
  PROVE  /\ Others(r) /\ calls' \in [BattleCalls -> Running] /\ calls'[r] = NoCall /\ ~Entering(r)'
         /\ \A pcs : ~In(r, pcs)'
         /\ \A s : ~Finishes(r, s)' /\ ~Undoes(r, s)'
         /\ InOrder(r)' /\ BeforeOK(r)'
<1>1. Others(r) /\ calls'[r] = NoCall
  BY DEF EndCall, Others, Shapes
<1>2. calls' \in [BattleCalls -> Running]
  BY DEF EndCall, Shapes, Running
<1>3. ~Entering(r)'
  BY <1>1 DEF Entering, Entries, NoCall
<1>4. \A pcs : ~In(r, pcs)'
  BY <1>3 DEF In
<1>5. \A s : ~Finishes(r, s)' /\ ~Undoes(r, s)'
  BY <1>3, <1>4 DEF Finishes, Undoes
<1>6. InOrder(r)' /\ BeforeOK(r)'
  <2>1. ~Creating(r)' /\ NoCall' = NoCall
    BY <1>4 DEF Creating, NoCall
  <2>2. InOrder(r)'
    BY <1>3, <1>4, <2>1 DEF InOrder
  <2>3. QED  BY <1>1, <2>1, <2>2 DEF BeforeOK
<1>7. QED  BY <1>1, <1>2, <1>3, <1>4, <1>5, <1>6

LEMMA SlotOfEntry ==
  ASSUME NEW r \in BattleCalls, Entering(r)
  PROVE  /\ calls[r].user \in Users /\ calls[r].seat \in Seats /\ calls[r].paid \in Nat
         /\ calls[r].percent \in Percents /\ calls[r].op \in {"CREATE", "JOIN"}
         /\ Slot(r) = <<calls[r].user, calls[r].seat>> /\ Slot(r) \in Slots /\ calls[r] # NoCall
BY DEF Entering, Entries, Slot, Slots, NoCall

\* Which calls the steps of an entry are taken by.
LEMMA EntryAt ==
  ASSUME Shapes, NEW r \in BattleCalls,
         calls[r].pc \in {"hold", "debit", "create", "claim", "capture", "reopen", "release", "delete"}
  PROVE  Entering(r)
BY DEF Shapes, Entering, NoCall, Fills, Payments

\* A step that moves a call and nothing else.
LEMMA OnlyCallMoves ==
  ASSUME StakesInv, NEW r \in BattleCalls, \A x \in BattleCalls \ {r} : ~Creating(x), Others(r),
         calls' \in [BattleCalls -> Running], UNCHANGED <<stake, battle, seat, paid>>,
         InOrder(r)', battle.status = "NONE" => BeforeOK(r)',
         In(r, {"create", "claim", "capture"})' =>
           stake[Slot(r)'].status # "NONE" /\ stake[Slot(r)'].amount = calls'[r].paid,
         \A s \in Slots : stake[s].status = "HELD" => ~Finishes(r, s) \/ Finishes(r, s)',
         \A n \in Seats : seat[n].user # NoUser /\ Undoes(r, <<seat[n].user, n>>) =>
           \/ stake[<<seat[n].user, n>>].status = "CAPTURED"
           \/ Undoes(r, <<seat[n].user, n>>)'
  PROVE  StakesInv'
<1>1. Shapes'
  BY DEF StakesInv, Shapes, Running
<1>2. CallsInOrder'
  BY OrderKept
<1>3. BeforeBattle'
  BY BeforeKept DEF StakesInv, BeforeBattle
<1>4. StakesKnown'
  BY KnownKept
<1>5. HeldForCall'
  BY HeldKept
<1>6. SeatsBacked'
  <2> SUFFICES ASSUME NEW n \in Seats PROVE Backed(n)'
    BY DEF SeatsBacked
  <2>1. CASE seat[n].user = NoUser
    BY <2>1 DEF Backed
  <2>2. CASE seat[n].user # NoUser
    <3>1. PICK s : s = <<seat[n].user, n>>
      OBVIOUS
    <3>2. Undoes(r, s) => stake'[s].status = "CAPTURED" \/ Undoes(r, s)'
      BY <2>2, <3>1
    <3>3. /\ seat'[n].user = seat[n].user /\ seat'[n].paid = seat[n].paid
          /\ stake[s].status # "NONE" =>
               stake'[s].status # "NONE" /\ stake'[s].amount = stake[s].amount
          /\ stake[s].status = "CAPTURED" => stake'[s].status = "CAPTURED"
      OBVIOUS
    <3>4. QED  BY <3>1, <3>2, <3>3, BackedKept
  <2>3. QED  BY <2>1, <2>2
<1>7. QED  BY <1>1, <1>2, <1>3, <1>4, <1>5, <1>6 DEF StakesInv

-----------------------------------------------------------------------------
(***************************************************************************)
(* Every step keeps StakesInv.                                             *)
(***************************************************************************)

\* A call begins with nothing on hold and no seat.
LEMMA StartSteps ==
  ASSUME StakesInv, NEW r \in BattleCalls, CreateCall(r) \/ JoinCall(r) \/ BotCall(r)
  PROVE  StakesInv'
<1>1. calls[r] = NoCall /\ UNCHANGED <<stake, battle, seat, paid>> /\ ~Entering(r)
  <2>1. calls[r] = NoCall /\ UNCHANGED <<stake, battle, seat, paid>>
    BY DEF CreateCall, JoinCall, BotCall, fundsVars
  <2>2. QED  BY <2>1 DEF Entering, Entries, NoCall
<1>2. \A s : ~Finishes(r, s) /\ ~Undoes(r, s)
  BY <1>1 DEF Finishes, Undoes, In
<1>3. CASE CreateCall(r)
  <2>1. PICK percent \in Percents : calls' = [calls EXCEPT ![r] = Call("CREATE", Creator, 0, percent)]
    BY <1>3 DEF CreateCall
  <2>2. Call("CREATE", Creator, 0, percent) \in Entries
    BY BattlesAssumption DEF Call, Entries
  <2>3. Others(r) /\ calls' \in [BattleCalls -> Running] /\ calls'[r] = Call("CREATE", Creator, 0, percent)
    BY <2>1, <2>2 DEF StakesInv, Shapes, Running, Others
  <2>4. /\ Entering(r)' /\ calls'[r].op = "CREATE" /\ calls'[r].pc = "hold"
        /\ Slot(r)' = <<Creator, 0>>
    BY <2>2, <2>3 DEF Entering, Call, Slot
  <2>5. battle.status = "NONE" /\ \A x \in BattleCalls : calls[x] = NoCall
    BY <1>3 DEF CreateCall
  <2>6. \A x \in BattleCalls \ {r} : ~Creating(x)
    BY <2>5 DEF Creating, In, Entering, Entries, NoCall
  <2>7. InOrder(r)'
    <3>1. battle'.status = "NONE" /\ \A x \in BattleCalls \ {r} : calls'[x] = NoCall
      BY <1>1, <2>3, <2>5 DEF Others
    <3>2. QED  BY <2>4, <3>1 DEF InOrder, In, NoCall
  <2>8. BeforeOK(r)' /\ ~In(r, {"create", "claim", "capture"})'
    BY <2>4 DEF BeforeOK, Creating, In
  <2>9. QED  BY <1>1, <1>2, <2>3, <2>6, <2>7, <2>8, OnlyCallMoves
<1>4. CASE JoinCall(r) \/ BotCall(r)
  <2>1. battle.status = "OPEN"
    BY <1>4 DEF JoinCall, BotCall, Joinable
  <2>2. \A x \in BattleCalls \ {r} : ~Creating(x)
    BY <2>1 DEF StakesInv, CallsInOrder, InOrder
  <2>3. CASE JoinCall(r)
    <3>1. PICK u \in Users, n \in OpenSeats, percent \in Percents :
            calls' = [calls EXCEPT ![r] = Call("JOIN", u, n, percent)]
      BY <2>3 DEF JoinCall
    <3>2. Call("JOIN", u, n, percent) \in Entries
      BY DEF Call, Entries, OpenSeats
    <3>3. Others(r) /\ calls' \in [BattleCalls -> Running] /\ calls'[r] = Call("JOIN", u, n, percent)
      BY <3>1, <3>2 DEF StakesInv, Shapes, Running, Others
    <3>4. calls'[r].op = "JOIN" /\ calls'[r].pc = "hold"
      BY <3>3 DEF Call
    <3>5. InOrder(r)' /\ ~In(r, {"create", "claim", "capture"})'
      BY <3>4 DEF InOrder, In, Creating
    <3>6. QED  BY <1>1, <1>2, <2>1, <2>2, <3>3, <3>5, OnlyCallMoves
  <2>4. CASE BotCall(r)
    <3>1. PICK u \in Users, todo \in {{n} : n \in OpenSeats} \cup {OpenSeats} :
            calls' = [calls EXCEPT ![r] = [op |-> "BOTS", pc |-> "bots", user |-> u, todo |-> todo]]
      BY <2>4 DEF BotCall
    <3>2. todo \in SUBSET Seats
      BY DEF OpenSeats
    <3>3. [op |-> "BOTS", pc |-> "bots", user |-> u, todo |-> todo] \in Fills
      BY <3>2 DEF Fills
    <3>4. /\ Others(r) /\ calls' \in [BattleCalls -> Running]
          /\ calls'[r] = [op |-> "BOTS", pc |-> "bots", user |-> u, todo |-> todo]
      BY <3>1, <3>3 DEF StakesInv, Shapes, Running, Others
    <3>5. ~Entering(r)'
      BY <3>4 DEF Entering, Entries
    <3>6. InOrder(r)' /\ ~In(r, {"create", "claim", "capture"})'
      BY <3>5 DEF InOrder, In, Creating
    <3>7. QED  BY <1>1, <1>2, <2>1, <2>2, <3>4, <3>6, OnlyCallMoves
  <2>5. QED  BY <1>4, <2>3, <2>4
<1>5. QED  BY <1>3, <1>4

\* A call that ends without a stake on hold or a seat unpaid may end.
LEMMA EndSteps ==
  ASSUME StakesInv, NEW r \in BattleCalls, calls[r] # NoCall, EndCall(r),
         UNCHANGED <<stake, battle, seat, paid>>,
         \A s \in Slots : stake[s].status = "HELD" => ~Finishes(r, s),
         \A n \in Seats : seat[n].user # NoUser /\ Undoes(r, <<seat[n].user, n>>) =>
           stake[<<seat[n].user, n>>].status = "CAPTURED"
  PROVE  StakesInv'
<1>1. /\ Others(r) /\ calls' \in [BattleCalls -> Running]
      /\ ~In(r, {"create", "claim", "capture"})'
      /\ InOrder(r)' /\ BeforeOK(r)'
  BY CallEnds DEF StakesInv
<1>2. \A x \in BattleCalls \ {r} : ~Creating(x)
  BY NobodyElseCreates DEF StakesInv
<1>3. QED  BY <1>1, <1>2, OnlyCallMoves

\* The answer of a hold is the stake that is there.
LEMMA HeldMoves ==
  ASSUME Shapes, NEW r \in BattleCalls, Entering(r), Held(r), stake'[Slot(r)].amount \in Nat
  PROVE  /\ Others(r) /\ calls' \in [BattleCalls -> Running] /\ Entering(r)'
         /\ calls'[r].pc = AfterHold(r) /\ calls'[r].op = calls[r].op
         /\ calls'[r].paid = stake'[Slot(r)].amount /\ Slot(r)' = Slot(r)
<1>1. calls[r] \in Entries /\ calls \in [BattleCalls -> Running]
  BY DEF Entering, Shapes, Running
<1>2. PICK pc, amount :
        /\ pc = AfterHold(r) /\ amount = stake'[Slot(r)].amount
        /\ calls' = [calls EXCEPT ![r].pc = pc, ![r].paid = amount]
  BY DEF Held
<1>3. pc \in {"create", "claim"} /\ amount \in Nat
  BY <1>2 DEF AfterHold
<1>4. /\ calls'[r] \in Entries /\ calls'[r].pc = pc /\ calls'[r].op = calls[r].op
      /\ calls'[r].paid = amount /\ calls'[r].user = calls[r].user /\ calls'[r].seat = calls[r].seat
      /\ Others(r)
  BY <1>1, <1>2, <1>3 DEF Entries, Others
<1>5. calls' \in [BattleCalls -> Running]
  BY <1>1, <1>2, <1>4 DEF Running, Others
<1>6. Slot(r)' = Slot(r)
  BY <1>4 DEF Slot
<1>7. QED  BY <1>2, <1>4, <1>5, <1>6 DEF Entering

\* What a call that is entering keeps in order as it moves on.
LEMMA OrderOfEntry ==
  ASSUME StakesInv, NEW r \in BattleCalls, Entering(r), Others(r), Entering(r)',
         calls'[r].op = calls[r].op, Slot(r)' = Slot(r),
         calls'[r].pc \in {"claim", "reopen"} => calls[r].op = "JOIN",
         calls'[r].pc \in {"create", "delete"} => calls[r].op = "CREATE",
         Creating(r)' => Creating(r) /\ UNCHANGED battle
  PROVE  InOrder(r)'
<1>1. InOrder(r)
  BY DEF StakesInv, CallsInOrder
<1>2. Creating(r)' => battle'.status = "NONE" /\ \A x \in BattleCalls \ {r} : calls'[x] = NoCall'
  BY <1>1 DEF InOrder, Others, NoCall
<1>3. QED  BY <1>1, <1>2 DEF InOrder, In

\* The lookup before the hold, with its three answers.
LEMMA LookupSteps ==
  ASSUME StakesInv, NEW r \in BattleCalls, HoldLookup(r)
  PROVE  StakesInv'
<1>1. /\ Entering(r) /\ calls[r].pc = "hold" /\ calls[r] # NoCall /\ Slot(r) \in Slots
      /\ calls[r].op \in {"CREATE", "JOIN"} /\ UNCHANGED <<stake, battle, seat, paid>>
  BY EntryAt, SlotOfEntry DEF HoldLookup, StakesInv, fundsVars
<1>2. \A s : ~Finishes(r, s) /\ ~Undoes(r, s)
  BY <1>1 DEF Finishes, Undoes, In
<1>3. \A x \in BattleCalls \ {r} : ~Creating(x)
  BY <1>1, NobodyElseCreates DEF StakesInv
<1>4. battle.status = "NONE" => BeforeOK(r)
  BY DEF StakesInv, BeforeBattle
<1>5. CASE Goto(r, "debit")
  <2>1. /\ Others(r) /\ calls' \in [BattleCalls -> Running] /\ Entering(r)'
        /\ calls'[r].pc = "debit" /\ calls'[r].op = calls[r].op /\ Slot(r)' = Slot(r)
    BY <1>1, <1>5, EntryMoves DEF StakesInv, EntryPcs
  <2>2. Creating(r)' <=> Creating(r)
    BY <1>1, <2>1 DEF Creating, In
  <2>3. InOrder(r)' /\ ~In(r, {"create", "claim", "capture"})'
    BY <1>1, <2>1, <2>2, OrderOfEntry DEF In
  <2>4. battle.status = "NONE" => BeforeOK(r)'
    BY <1>1, <1>4, <2>2 DEF BeforeOK, In
  <2>5. QED  BY <1>1, <1>2, <1>3, <2>1, <2>3, <2>4, OnlyCallMoves
<1>6. CASE stake[Slot(r)].status = "HELD" /\ Held(r)
  <2>1. stake'[Slot(r)].amount \in Nat /\ stake[Slot(r)].status # "NONE"
    BY <1>1, <1>6 DEF StakesInv, Shapes, StakeRows
  <2>2. /\ Others(r) /\ calls' \in [BattleCalls -> Running] /\ Entering(r)'
        /\ calls'[r].pc = AfterHold(r) /\ calls'[r].op = calls[r].op
        /\ calls'[r].paid = stake'[Slot(r)].amount /\ Slot(r)' = Slot(r)
    BY <1>1, <1>6, <2>1, HeldMoves DEF StakesInv
  <2>3. /\ calls'[r].pc \in {"create", "claim"}
        /\ calls'[r].pc = "create" <=> calls[r].op = "CREATE"
    BY <2>2 DEF AfterHold
  <2>4. Creating(r)' <=> Creating(r)
    BY <1>1, <2>2, <2>3 DEF Creating, In
  <2>5. InOrder(r)'
    BY <1>1, <2>2, <2>3, <2>4, OrderOfEntry
  <2>6. battle.status = "NONE" => BeforeOK(r)'
    BY <1>1, <1>4, <2>4 DEF BeforeOK, In
  <2>7. stake[Slot(r)'].status # "NONE" /\ stake[Slot(r)'].amount = calls'[r].paid
    BY <1>1, <2>1, <2>2
  <2>8. QED  BY <1>1, <1>2, <1>3, <2>2, <2>5, <2>6, <2>7, OnlyCallMoves
<1>7. CASE EndCall(r)
  BY <1>1, <1>2, <1>7, EndSteps
<1>8. QED  BY <1>5, <1>6, <1>7 DEF HoldLookup

\* The transaction of the hold: the stake of the slot is set aside, or it is there.
LEMMA HoldSteps ==
  ASSUME StakesInv, NEW r \in BattleCalls, HoldStake(r)
  PROVE  StakesInv'
<1>1. /\ Entering(r) /\ calls[r].pc = "debit" /\ calls[r] # NoCall /\ Slot(r) \in Slots
      /\ calls[r].op \in {"CREATE", "JOIN"} /\ UNCHANGED <<battle, seat, paid>>
      /\ Slot(r) = <<calls[r].user, calls[r].seat>>
  BY EntryAt, SlotOfEntry DEF HoldStake, StakesInv
<1>2. \A s : ~Finishes(r, s) /\ ~Undoes(r, s)
  BY <1>1 DEF Finishes, Undoes, In
<1>3. \A x \in BattleCalls \ {r} : ~Creating(x)
  BY <1>1, NobodyElseCreates DEF StakesInv
<1>4. CASE EndCall(r) /\ UNCHANGED stake
  BY <1>1, <1>2, <1>4, EndSteps
<1>5. ASSUME Held(r),
             /\ stake' \in [Slots -> StakeRows] /\ stake'[Slot(r)].status # "NONE"
             /\ \A s \in Slots : s # Slot(r) \/ stake[s].status # "NONE" => stake'[s] = stake[s]
      PROVE  StakesInv'
  <2>1. stake'[Slot(r)].amount \in Nat
    BY <1>1, <1>5 DEF StakeRows
  <2>2. /\ Others(r) /\ calls' \in [BattleCalls -> Running] /\ Entering(r)'
        /\ calls'[r].pc = AfterHold(r) /\ calls'[r].op = calls[r].op
        /\ calls'[r].paid = stake'[Slot(r)].amount /\ Slot(r)' = Slot(r)
    BY <1>1, <1>5, <2>1, HeldMoves DEF StakesInv
  <2>3. /\ calls'[r].pc \in {"create", "claim"}
        /\ calls'[r].pc = "create" <=> calls[r].op = "CREATE"
    BY <2>2 DEF AfterHold
  <2>4. Creating(r)' <=> Creating(r)
    BY <1>1, <2>2, <2>3 DEF Creating, In
  <2>5. Shapes'
    BY <1>1, <1>5, <2>2 DEF StakesInv, Shapes, Running
  <2>6. CallsInOrder'
    BY <1>1, <1>3, <2>2, <2>3, <2>4, OrderOfEntry, OrderKept
  <2>7. BeforeBattle'
    <3>1. battle'.status = "NONE" => BeforeOK(r)'
      BY <1>1, <2>4 DEF StakesInv, BeforeBattle, BeforeOK, In
    <3>2. QED  BY <1>1, <2>2, <3>1, BeforeKept DEF StakesInv, BeforeBattle
  <2>8. StakesKnown'
    BY <1>1, <1>5, <2>2, KnownKept
  <2>9. HeldForCall'
    <3>1. Finishes(r, Slot(r))'
      BY <2>2, <2>3 DEF Finishes, In
    <3>2. \A s \in Slots : s # Slot(r) => stake'[s] = stake[s]
      BY <1>5
    <3>3. QED  BY <1>2, <2>2, <3>1, <3>2, HeldKept
  <2>10. SeatsBacked'
    <3> SUFFICES ASSUME NEW n \in Seats PROVE Backed(n)'
      BY DEF SeatsBacked
    <3>1. CASE seat[n].user = NoUser
      BY <1>1, <3>1 DEF Backed
    <3>2. CASE seat[n].user # NoUser
      <4>1. PICK s : s = <<seat[n].user, n>>
        OBVIOUS
      <4>2. s \in Slots
        BY <3>2, <4>1 DEF StakesInv, Shapes, SeatRows, Slots
      <4>3. QED  BY <1>1, <1>2, <1>5, <2>2, <4>1, <4>2, BackedKept
    <3>3. QED  BY <3>1, <3>2
  <2>11. QED  BY <2>5, <2>6, <2>7, <2>8, <2>9, <2>10 DEF StakesInv
<1>6. CASE Wallet!Hold(calls[r].user, calls[r].seat) /\ Held(r)
  <2>1. PICK amount \in 1..MaxFunds :
          /\ stake[Slot(r)].status = "NONE"
          /\ stake' = [stake EXCEPT ![Slot(r)] = [status |-> "HELD", amount |-> amount]]
    BY <1>1, <1>6 DEF Wallet!Hold
  <2>2. /\ stake' \in [Slots -> StakeRows] /\ stake'[Slot(r)].status = "HELD"
        /\ \A s \in Slots : s # Slot(r) \/ stake[s].status # "NONE" => stake'[s] = stake[s]
    BY <1>1, <2>1, BattlesAssumption DEF StakesInv, Shapes, StakeRows
  <2>3. QED  BY <1>5, <1>6, <2>2
<1>7. CASE stake[Slot(r)].status # "NONE" /\ UNCHANGED stake /\ Held(r)
  BY <1>5, <1>7 DEF StakesInv, Shapes
<1>8. QED  BY <1>4, <1>6, <1>7 DEF HoldStake, fundsVars

\* A seat that is taken for a stake that is known, by a call that pays or undoes it.
LEMMA SeatTaken ==
  ASSUME StakesInv, NEW r \in BattleCalls, In(r, {"create", "claim"}), UNCHANGED stake,
         NEW n \in Seats, n = calls[r].seat, seat'[n] = Taken(r),
         Goto(r, "capture")
  PROVE  Backed(n)'
<1>1. /\ Entering(r) /\ Slot(r) = <<calls[r].user, n>>
      /\ stake[Slot(r)].status # "NONE" /\ stake[Slot(r)].amount = calls[r].paid
  BY DEF StakesInv, StakesKnown, In, Slot
<1>2. Entering(r)' /\ calls'[r].pc = "capture" /\ Slot(r)' = Slot(r)
  BY <1>1, EntryMoves DEF StakesInv, EntryPcs
<1>3. PICK s : s = Slot(r)
  OBVIOUS
<1>4. seat'[n].user = calls[r].user /\ seat'[n].paid = calls[r].paid
  BY DEF Taken
<1>5. Undoes(r, s)'
  BY <1>2, <1>3 DEF Undoes, In
<1>6. Undoes(r, s)' /\ stake'[s].status # "NONE" /\ stake'[s].amount = seat'[n].paid
  BY <1>1, <1>3, <1>4, <1>5
<1>7. <<seat'[n].user, n>> = s
  BY <1>1, <1>3, <1>4
<1>8. QED  BY <1>6, <1>7 DEF Backed

LEMMA TakenIsRow ==
  ASSUME Shapes, NEW r \in BattleCalls, Entering(r)
  PROVE  Taken(r) \in SeatRows
<1>1. /\ calls[r].user \in Users /\ calls[r].seat \in Seats /\ calls[r].paid \in Nat
      /\ calls[r].percent \in 20..100
  BY SlotOfEntry, BattlesAssumption
<1>2. seat[calls[r].seat].payout \in Nat
  BY <1>1 DEF Shapes, SeatRows
<1>3. QED  BY <1>1, <1>2 DEF Taken, SeatRows

\* The seats others have stay backed when a call and its own seat move.
LEMMA OtherSeats ==
  ASSUME StakesInv, NEW r \in BattleCalls, Others(r), UNCHANGED stake, NEW m \in Seats,
         seat'[m].user = seat[m].user, seat'[m].paid = seat[m].paid,
         \A s : Undoes(r, s) => s[2] # m \/ Undoes(r, s)'
  PROVE  Backed(m)'
<1>1. PICK s : s = <<seat[m].user, m>>
  OBVIOUS
<1>2. Undoes(r, s) => Undoes(r, s)'
  BY <1>1
<1>3. QED  BY <1>1, <1>2, BackedKept

\* The creation inserts the battle with its creator in the first seat.
LEMMA CreateSteps ==
  ASSUME StakesInv, NEW r \in BattleCalls, CreateBattle(r)
  PROVE  StakesInv'
<1>1. /\ Entering(r) /\ calls[r].pc = "create" /\ UNCHANGED <<stake, paid>> /\ Goto(r, "capture")
      /\ seat' = [seat EXCEPT ![0] = Taken(r)]
  BY EntryAt DEF CreateBattle, StakesInv, fundsVars
<1>2. calls[r] # NoCall /\ Slot(r) \in Slots
  BY <1>1, SlotOfEntry
<1>3. In(r, {"create"}) /\ In(r, {"create", "claim"}) /\ In(r, {"create", "claim", "capture"})
  BY <1>1 DEF In
<1>4. calls[r].op = "CREATE" /\ Slot(r) = <<Creator, 0>> /\ calls[r].seat = 0
  <2>1. In(r, {"create", "delete"}) /\ InOrder(r)
    BY <1>1 DEF In, StakesInv, CallsInOrder
  <2>2. calls[r].op = "CREATE" /\ Slot(r) = <<Creator, 0>>
    BY <1>1, <2>1 DEF InOrder
  <2>3. QED  BY <2>2 DEF Slot
<1>5. Creating(r) /\ \A x \in BattleCalls \ {r} : ~Creating(x)
  BY <1>1, <1>2, <1>4, NobodyElseCreates DEF StakesInv, Creating, In
<1>6. /\ Others(r) /\ calls' \in [BattleCalls -> Running] /\ Entering(r)'
      /\ calls'[r].pc = "capture" /\ calls'[r].op = calls[r].op /\ calls'[r].paid = calls[r].paid
      /\ Slot(r)' = Slot(r)
  BY <1>1, EntryMoves DEF StakesInv, EntryPcs
<1>7. PICK mode \in Modes : battle' = [status |-> "OPEN", mode |-> mode]
  BY DEF CreateBattle
<1>8. Shapes'
  <2>1. seat' \in [Seats -> SeatRows]
    BY <1>1, TakenIsRow DEF StakesInv, Shapes
  <2>2. QED  BY <1>1, <1>6, <1>7, <2>1 DEF StakesInv, Shapes, Running
<1>9. CallsInOrder'
  <2>1. ~Creating(r)'
    BY <1>6 DEF Creating, In
  <2>2. InOrder(r)'
    BY <1>1, <1>6, <2>1, OrderOfEntry
  <2>3. QED  BY <1>5, <1>6, <2>2, OrderKept
<1>10. BeforeBattle'
  BY <1>7 DEF BeforeBattle
<1>11. StakesKnown'
  <2>1. stake[Slot(r)].status # "NONE" /\ stake[Slot(r)].amount = calls[r].paid
    BY <1>3 DEF StakesInv, StakesKnown
  <2>2. QED  BY <1>1, <1>6, <2>1, KnownKept
<1>12. HeldForCall'
  <2>1. \A s : Finishes(r, s) => Finishes(r, s)'
    BY <1>6 DEF Finishes, In
  <2>2. QED  BY <1>1, <1>6, <2>1, HeldKept
<1>13. SeatsBacked'
  <2>1. 0 \in Seats /\ seat'[0] = Taken(r)
    BY <1>1, BattlesAssumption DEF StakesInv, Shapes
  <2>2. Backed(0)'
    BY <1>1, <1>3, <1>4, <2>1, SeatTaken
  <2>3. ASSUME NEW m \in Seats, m # 0 PROVE Backed(m)'
    <3>1. seat'[m] = seat[m]
      BY <1>1, <2>3 DEF StakesInv, Shapes
    <3>2. \A s : ~Undoes(r, s)
      BY <1>1 DEF Undoes, In
    <3>3. QED  BY <1>1, <1>6, <3>1, <3>2, OtherSeats
  <2>4. \A m \in Seats : Backed(m)'
    BY <2>2, <2>3
  <2>5. QED  BY <2>4 DEF SeatsBacked
<1>14. QED  BY <1>8, <1>9, <1>10, <1>11, <1>12, <1>13 DEF StakesInv

\* A join claims an open seat, or has lost it and gives its stake back.
LEMMA ClaimSteps ==
  ASSUME StakesInv, NEW r \in BattleCalls, ClaimSeat(r)
  PROVE  StakesInv'
<1>1. Entering(r) /\ calls[r].pc = "claim" /\ UNCHANGED <<stake, battle, paid>>
  BY EntryAt DEF ClaimSeat, StakesInv, fundsVars
<1>2. calls[r] # NoCall /\ Slot(r) \in Slots /\ calls[r].seat \in Seats
  BY <1>1, SlotOfEntry
<1>3. In(r, {"claim", "reopen"}) /\ In(r, {"create", "claim"}) /\ In(r, {"create", "claim", "capture"})
  BY <1>1 DEF In
<1>4. calls[r].op = "JOIN" /\ ~Creating(r)
  BY <1>3 DEF StakesInv, CallsInOrder, InOrder, Creating
<1>5. battle.status # "NONE" /\ \A x \in BattleCalls \ {r} : ~Creating(x)
  <2>1. ~BeforeOK(r)
    BY <1>1, <1>2, <1>4 DEF BeforeOK, In
  <2>2. QED  BY <1>2, <2>1, NobodyElseCreates DEF StakesInv, BeforeBattle
<1>6. \A s : ~Undoes(r, s)
  BY <1>1 DEF Undoes, In
<1>7. CASE Goto(r, "release") /\ UNCHANGED seat
  <2>1. /\ Others(r) /\ calls' \in [BattleCalls -> Running] /\ Entering(r)'
        /\ calls'[r].pc = "release" /\ calls'[r].op = calls[r].op /\ Slot(r)' = Slot(r)
    BY <1>1, <1>7, EntryMoves DEF StakesInv, EntryPcs
  <2>2. ~Creating(r)' /\ ~In(r, {"create", "claim", "capture"})'
    BY <2>1 DEF Creating, In
  <2>3. InOrder(r)'
    BY <1>1, <2>1, <2>2, OrderOfEntry
  <2>4. \A s : Finishes(r, s) => Finishes(r, s)'
    BY <2>1 DEF Finishes, In
  <2>5. QED  BY <1>1, <1>5, <1>6, <1>7, <2>1, <2>2, <2>3, <2>4, OnlyCallMoves
<1>8. CASE Goto(r, "capture") /\ seat' = [seat EXCEPT ![calls[r].seat] = Taken(r)]
  <2>1. /\ Others(r) /\ calls' \in [BattleCalls -> Running] /\ Entering(r)'
        /\ calls'[r].pc = "capture" /\ calls'[r].op = calls[r].op /\ calls'[r].paid = calls[r].paid
        /\ Slot(r)' = Slot(r)
    BY <1>1, <1>8, EntryMoves DEF StakesInv, EntryPcs
  <2>2. ~Creating(r)'
    BY <2>1 DEF Creating, In
  <2>3. CallsInOrder'
    <3>1. InOrder(r)'
      BY <1>1, <2>1, <2>2, OrderOfEntry
    <3>2. QED  BY <1>5, <2>1, <3>1, OrderKept
  <2>4. Shapes'
    <3>1. seat' \in [Seats -> SeatRows]
      BY <1>1, <1>8, TakenIsRow DEF StakesInv, Shapes
    <3>2. QED  BY <1>1, <2>1, <3>1 DEF StakesInv, Shapes, Running
  <2>5. BeforeBattle'
    BY <1>1, <1>5 DEF BeforeBattle
  <2>6. StakesKnown'
    <3>1. stake[Slot(r)].status # "NONE" /\ stake[Slot(r)].amount = calls[r].paid
      BY <1>3 DEF StakesInv, StakesKnown
    <3>2. QED  BY <1>1, <2>1, <3>1, KnownKept
  <2>7. HeldForCall'
    <3>1. \A s : Finishes(r, s) => Finishes(r, s)'
      BY <2>1 DEF Finishes, In
    <3>2. QED  BY <1>1, <2>1, <3>1, HeldKept
  <2>8. SeatsBacked'
    <3> SUFFICES ASSUME NEW m \in Seats PROVE Backed(m)'
      BY DEF SeatsBacked
    <3>1. CASE m = calls[r].seat
      <4>1. seat'[m] = Taken(r)
        BY <1>2, <1>8, <3>1 DEF StakesInv, Shapes
      <4>2. QED  BY <1>1, <1>3, <1>8, <3>1, <4>1, SeatTaken
    <3>2. CASE m # calls[r].seat
      <4>1. seat'[m] = seat[m]
        BY <1>8, <3>2 DEF StakesInv, Shapes
      <4>2. QED  BY <1>1, <1>6, <2>1, <4>1, OtherSeats
    <3>3. QED  BY <3>1, <3>2
  <2>9. QED  BY <2>3, <2>4, <2>5, <2>6, <2>7, <2>8 DEF StakesInv
<1>9. QED  BY <1>7, <1>8 DEF ClaimSeat, AfterLostSeat

\* A step that makes the stake of its call's slot final, or finds it final.
LEMMA StakeEnds ==
  ASSUME StakesInv, NEW r \in BattleCalls, Entering(r), Others(r), calls' \in [BattleCalls -> Running],
         UNCHANGED <<battle, seat, paid>>, stake' \in [Slots -> StakeRows],
         \A s \in Slots : s # Slot(r) \/ stake[s].status # "HELD" => stake'[s] = stake[s],
         stake'[Slot(r)].status # "HELD",
         stake[Slot(r)].status = "HELD" =>
           /\ stake'[Slot(r)].status # "NONE"
           /\ stake'[Slot(r)].amount = stake[Slot(r)].amount,
         InOrder(r)', battle.status = "NONE" => BeforeOK(r)',
         ~In(r, {"create", "claim", "capture"})',
         battle.status # "NONE" =>
           \A s \in Slots : Undoes(r, s) => stake'[s].status = "CAPTURED" \/ Undoes(r, s)'
  PROVE  StakesInv'
<1>1. Slot(r) \in Slots /\ calls[r] # NoCall
  BY SlotOfEntry
<1>2. \A s \in Slots : /\ stake[s].status # "NONE" =>
                            stake'[s].status # "NONE" /\ stake'[s].amount = stake[s].amount
                       /\ stake[s].status = "CAPTURED" => stake'[s].status = "CAPTURED"
  OBVIOUS
<1>3. Shapes'
  BY DEF StakesInv, Shapes, Running
<1>4. CallsInOrder'
  BY <1>1, NobodyElseCreates, OrderKept DEF StakesInv
<1>5. BeforeBattle'
  BY BeforeKept DEF StakesInv, BeforeBattle
<1>6. StakesKnown'
  BY <1>2, KnownKept
<1>7. HeldForCall'
  <2>1. \A s \in Slots : stake'[s].status = "HELD" =>
          (stake[s].status = "HELD" /\ ~Finishes(r, s)) \/ Finishes(r, s)'
    BY DEF Finishes
  <2>2. QED  BY <2>1, HeldKept
<1>8. SeatsBacked'
  <2> SUFFICES ASSUME NEW n \in Seats PROVE Backed(n)'
    BY DEF SeatsBacked
  <2>1. CASE seat[n].user = NoUser
    BY <2>1 DEF Backed
  <2>2. CASE seat[n].user # NoUser
    <3>1. PICK s : s = <<seat[n].user, n>>
      OBVIOUS
    <3>2. s \in Slots /\ battle.status # "NONE"
      BY <2>2, <3>1 DEF StakesInv, Shapes, SeatRows, Slots, BeforeBattle
    <3>3. QED  BY <1>2, <3>1, <3>2, BackedKept
  <2>3. QED  BY <2>1, <2>2
<1>9. QED  BY <1>3, <1>4, <1>5, <1>6, <1>7, <1>8 DEF StakesInv

\* A capture spends the stake on hold; a released one sends the call to undo.
LEMMA CaptureSteps ==
  ASSUME StakesInv, NEW r \in BattleCalls, CaptureStake(r)
  PROVE  StakesInv'
<1>1. /\ Entering(r) /\ calls[r].pc = "capture" /\ UNCHANGED <<battle, seat, paid>>
      /\ Slot(r) \in Slots /\ Slot(r) = <<calls[r].user, calls[r].seat>> /\ calls[r] # NoCall
      /\ calls[r].op \in {"CREATE", "JOIN"}
  BY EntryAt, SlotOfEntry DEF CaptureStake, StakesInv
<1>2. stake[Slot(r)].status # "NONE"
  BY <1>1 DEF StakesInv, StakesKnown, In
<1>3. /\ stake' \in [Slots -> StakeRows]
      /\ \A s \in Slots : s # Slot(r) \/ stake[s].status # "HELD" => stake'[s] = stake[s]
      /\ stake'[Slot(r)].amount = stake[Slot(r)].amount
      /\ stake[Slot(r)].status # "RELEASED" => stake'[Slot(r)].status = "CAPTURED"
  <2>1. CASE Wallet!Capture(calls[r].user, calls[r].seat)
    <3>1. /\ stake[Slot(r)].status = "HELD"
          /\ stake' = [stake EXCEPT ![Slot(r)].status = "CAPTURED"]
      BY <1>1, <2>1 DEF Wallet!Capture
    <3>2. QED  BY <1>1, <3>1 DEF StakesInv, Shapes, StakeRows
  <2>2. CASE stake[Slot(r)].status # "HELD" /\ UNCHANGED stake
    BY <1>1, <1>2, <2>2 DEF StakesInv, Shapes, StakeRows
  <2>3. QED  BY <2>1, <2>2 DEF CaptureStake, fundsVars
<1>4. ~BeforeOK(r) /\ battle.status # "NONE"
  <2>1. ~BeforeOK(r)
    BY <1>1 DEF BeforeOK, Creating, In
  <2>2. QED  BY <2>1 DEF StakesInv, BeforeBattle
<1>5. ASSUME NEW pc \in {"release", "reopen", "settle"}, Goto(r, pc),
             pc = "release" => calls[r].op = "CREATE", pc = "reopen" => calls[r].op = "JOIN",
             pc = "settle" => stake[Slot(r)].status # "RELEASED"
      PROVE  StakesInv'
  <2>1. /\ Others(r) /\ calls' \in [BattleCalls -> Running] /\ Entering(r)'
        /\ calls'[r].pc = pc /\ calls'[r].op = calls[r].op /\ Slot(r)' = Slot(r)
    BY <1>1, <1>5, EntryMoves DEF StakesInv, EntryPcs
  <2>2. ~Creating(r)' /\ ~In(r, {"create", "claim", "capture"})'
    BY <1>5, <2>1 DEF Creating, In
  <2>3. InOrder(r)'
    BY <1>1, <1>5, <2>1, <2>2, OrderOfEntry
  <2>4. \A s \in Slots : Undoes(r, s) => stake'[s].status = "CAPTURED" \/ Undoes(r, s)'
    BY <1>3, <1>5, <2>1 DEF Undoes, In
  <2>5. stake'[Slot(r)].status # "HELD" /\ stake'[Slot(r)].status # "NONE"
    BY <1>1, <1>2, <1>3
  <2>6. QED  BY <1>1, <1>3, <1>4, <2>1, <2>2, <2>3, <2>4, <2>5, StakeEnds
<1>6. CASE stake[Slot(r)].status # "RELEASED" /\ EndCall(r)
  <2>1. /\ Others(r) /\ calls' \in [BattleCalls -> Running] /\ InOrder(r)'
        /\ ~In(r, {"create", "claim", "capture"})'
    BY <1>6, CallEnds DEF StakesInv
  <2>2. \A s \in Slots : Undoes(r, s) => stake'[s].status = "CAPTURED"
    BY <1>3, <1>6 DEF Undoes
  <2>3. stake'[Slot(r)].status # "HELD" /\ stake'[Slot(r)].status # "NONE"
    BY <1>3, <1>6
  <2>4. QED  BY <1>1, <1>3, <1>4, <2>1, <2>2, <2>3, StakeEnds
<1>7. QED  BY <1>1, <1>5, <1>6 DEF CaptureStake, AfterFailure

\* A statement that fails sends its call to undo.
LEMMA FailSteps ==
  ASSUME StakesInv, NEW r \in BattleCalls, StatementFails(r)
  PROVE  StakesInv'
<1>1. /\ calls[r].pc \in {"create", "capture"} /\ UNCHANGED <<stake, battle, seat, paid>>
      /\ Goto(r, AfterFailure(r))
  BY DEF StatementFails, fundsVars
<1>2. Entering(r) /\ calls[r] # NoCall /\ calls[r].op \in {"CREATE", "JOIN"}
  BY <1>1, EntryAt, SlotOfEntry DEF StakesInv
<1>3. PICK pc : /\ pc = AfterFailure(r) /\ pc \in {"release", "reopen"}
                /\ pc = "release" <=> calls[r].op = "CREATE"
  BY DEF AfterFailure
<1>4. /\ Others(r) /\ calls' \in [BattleCalls -> Running] /\ Entering(r)'
      /\ calls'[r].pc = pc /\ calls'[r].op = calls[r].op /\ Slot(r)' = Slot(r)
  BY <1>1, <1>2, <1>3, EntryMoves DEF StakesInv, EntryPcs
<1>5. ~Creating(r)' /\ ~In(r, {"create", "claim", "capture"})'
  BY <1>3, <1>4 DEF Creating, In
<1>6. InOrder(r)'
  BY <1>2, <1>3, <1>4, <1>5, OrderOfEntry
<1>7. battle.status = "NONE" => BeforeOK(r)'
  <2>1. battle.status = "NONE" => BeforeOK(r)
    BY DEF StakesInv, BeforeBattle
  <2>2. BeforeOK(r) => calls[r].op = "CREATE"
    BY <1>2 DEF BeforeOK, Creating
  <2>3. calls[r].op = "CREATE" => BeforeOK(r)'
    BY <1>3, <1>4 DEF BeforeOK, In
  <2>4. QED  BY <2>1, <2>2, <2>3
<1>8. \A s : Finishes(r, s) => Finishes(r, s)'
  BY <1>3, <1>4 DEF Finishes, In
<1>9. \A s : Undoes(r, s) => Undoes(r, s)'
  BY <1>2, <1>3, <1>4 DEF Undoes, In
<1>10. QED
  BY <1>1, <1>2, <1>4, <1>5, <1>6, <1>7, <1>8, <1>9, NobodyElseCreates, OnlyCallMoves DEF StakesInv

\* A release gives back what is on hold; then a failed creation deletes its battle.
LEMMA ReleaseSteps ==
  ASSUME StakesInv, NEW r \in BattleCalls, ReleaseStake(r)
  PROVE  StakesInv'
<1>1. /\ Entering(r) /\ calls[r].pc = "release" /\ UNCHANGED <<battle, seat, paid>>
      /\ Slot(r) \in Slots /\ Slot(r) = <<calls[r].user, calls[r].seat>> /\ calls[r] # NoCall
  BY EntryAt, SlotOfEntry DEF ReleaseStake, StakesInv
<1>2. /\ stake' \in [Slots -> StakeRows] /\ stake'[Slot(r)].status # "HELD"
      /\ \A s \in Slots : s # Slot(r) \/ stake[s].status # "HELD" => stake'[s] = stake[s]
      /\ stake[Slot(r)].status = "HELD" =>
           /\ stake'[Slot(r)].status # "NONE"
           /\ stake'[Slot(r)].amount = stake[Slot(r)].amount
  <2>1. CASE Wallet!Release(calls[r].user, calls[r].seat)
    <3>1. /\ stake[Slot(r)].status = "HELD"
          /\ stake' = [stake EXCEPT ![Slot(r)].status = "RELEASED"]
      BY <1>1, <2>1 DEF Wallet!Release
    <3>2. QED  BY <1>1, <3>1 DEF StakesInv, Shapes, StakeRows
  <2>2. CASE stake[Slot(r)].status # "HELD" /\ UNCHANGED stake
    BY <1>1, <2>2 DEF StakesInv, Shapes
  <2>3. QED  BY <2>1, <2>2 DEF ReleaseStake, fundsVars
<1>3. CASE calls[r].op = "CREATE" /\ battle.status # "NONE" /\ Goto(r, "delete")
  <2>1. /\ Others(r) /\ calls' \in [BattleCalls -> Running] /\ Entering(r)'
        /\ calls'[r].pc = "delete" /\ calls'[r].op = calls[r].op /\ Slot(r)' = Slot(r)
    BY <1>1, <1>3, EntryMoves DEF StakesInv, EntryPcs
  <2>2. ~Creating(r)' /\ ~In(r, {"create", "claim", "capture"})'
    BY <2>1 DEF Creating, In
  <2>3. InOrder(r)'
    BY <1>1, <1>3, <2>1, <2>2, OrderOfEntry
  <2>4. \A s : Undoes(r, s) => Undoes(r, s)'
    BY <1>3, <2>1 DEF Undoes, In
  <2>5. QED  BY <1>1, <1>2, <1>3, <2>1, <2>2, <2>3, <2>4, StakeEnds
<1>4. CASE ~(calls[r].op = "CREATE" /\ battle.status # "NONE") /\ EndCall(r)
  <2>1. /\ Others(r) /\ calls' \in [BattleCalls -> Running] /\ InOrder(r)' /\ BeforeOK(r)'
        /\ ~In(r, {"create", "claim", "capture"})'
    BY <1>4, CallEnds DEF StakesInv
  <2>2. battle.status # "NONE" => \A s : ~Undoes(r, s)
    BY <1>1, <1>4 DEF Undoes, In
  <2>3. QED  BY <1>1, <1>2, <2>1, <2>2, StakeEnds
<1>5. QED  BY <1>3, <1>4 DEF ReleaseStake

\* A step of a running call that changes seats, and no stake.
LEMMA SeatsChange ==
  ASSUME StakesInv, NEW r \in BattleCalls, calls[r] # NoCall, Others(r), UNCHANGED stake, Shapes',
         InOrder(r)', battle.status # "NONE", battle'.status # "NONE",
         ~In(r, {"create", "claim", "capture"})',
         \A s : Finishes(r, s) => Finishes(r, s)',
         \A n \in Seats : Backed(n)'
  PROVE  StakesInv'
<1>1. CallsInOrder'
  BY NobodyElseCreates, OrderKept DEF StakesInv
<1>2. BeforeBattle'
  BY DEF BeforeBattle
<1>3. StakesKnown'
  BY KnownKept
<1>4. HeldForCall'
  BY HeldKept
<1>5. QED  BY <1>1, <1>2, <1>3, <1>4 DEF StakesInv, SeatsBacked

\* A join whose stake was not captured opens its seat again.
LEMMA ReopenSteps ==
  ASSUME StakesInv, NEW r \in BattleCalls, ReopenSeat(r)
  PROVE  StakesInv'
<1>1. /\ Entering(r) /\ calls[r].pc = "reopen" /\ UNCHANGED <<stake, battle, paid>>
      /\ Slot(r) \in Slots /\ Slot(r) = <<calls[r].user, calls[r].seat>> /\ calls[r] # NoCall
      /\ calls[r].seat \in Seats /\ Goto(r, "release")
      /\ seat' = [seat EXCEPT ![calls[r].seat] = Reopened(calls[r].seat, calls[r].user)]
  BY EntryAt, SlotOfEntry DEF ReopenSeat, StakesInv, fundsVars
<1>2. calls[r].op = "JOIN"
  BY <1>1 DEF StakesInv, CallsInOrder, InOrder, In
<1>3. battle.status # "NONE"
  <2>1. ~BeforeOK(r)
    BY <1>1, <1>2 DEF BeforeOK, Creating, In
  <2>2. QED  BY <2>1 DEF StakesInv, BeforeBattle
<1>4. /\ Others(r) /\ calls' \in [BattleCalls -> Running] /\ Entering(r)'
      /\ calls'[r].pc = "release" /\ calls'[r].op = calls[r].op /\ Slot(r)' = Slot(r)
  BY <1>1, EntryMoves DEF StakesInv, EntryPcs
<1>5. ~Creating(r)' /\ ~In(r, {"create", "claim", "capture"})'
  BY <1>4 DEF Creating, In
<1>6. InOrder(r)'
  BY <1>1, <1>2, <1>4, <1>5, OrderOfEntry
<1>7. \A s : Finishes(r, s) => Finishes(r, s)'
  BY <1>4 DEF Finishes, In
<1>8. PICK n \in Seats : n = calls[r].seat
  BY <1>1
<1>9. PICK row : row = Reopened(n, calls[r].user)
  OBVIOUS
<1>10. /\ row \in SeatRows
       /\ seat[n].user = calls[r].user => row.user = NoUser
       /\ seat[n].user # calls[r].user => row = seat[n]
  BY <1>9 DEF Reopened, OpenSeat, StakesInv, Shapes, SeatRows
<1>11. seat' = [seat EXCEPT ![n] = row]
  BY <1>1, <1>8, <1>9
<1>12. Shapes'
  <2>1. seat' \in [Seats -> SeatRows]
    BY <1>10, <1>11 DEF StakesInv, Shapes
  <2>2. QED  BY <1>1, <1>4, <2>1 DEF StakesInv, Shapes, Running
<1>13. ASSUME NEW m \in Seats PROVE Backed(m)'
  <2>1. CASE m = n /\ seat[n].user = calls[r].user
    <3>1. seat'[m].user = NoUser
      BY <1>10, <1>11, <2>1 DEF StakesInv, Shapes
    <3>2. QED  BY <3>1 DEF Backed
  <2>2. CASE m # n \/ seat[n].user # calls[r].user
    <3>1. seat'[m] = seat[m]
      BY <1>10, <1>11, <2>2 DEF StakesInv, Shapes
    <3>2. PICK s : s = <<seat[m].user, m>>
      OBVIOUS
    <3>3. ~Undoes(r, s)
      BY <1>1, <1>8, <2>2, <3>2 DEF Undoes
    <3>4. QED  BY <1>1, <1>4, <3>1, <3>2, <3>3, BackedKept
  <2>3. QED  BY <2>1, <2>2
<1>14. QED  BY <1>1, <1>3, <1>4, <1>5, <1>6, <1>7, <1>12, <1>13, SeatsChange

\* Seats nobody sits in need no stake.
LEMMA FreeSeat ==
  ASSUME NEW n \in Seats, seat'[n].user = NoUser
  PROVE  Backed(n)'
BY DEF Backed

\* A failed creation takes the battle and its seats away.
LEMMA DeleteSteps ==
  ASSUME StakesInv, NEW r \in BattleCalls, DeleteBattle(r)
  PROVE  StakesInv'
<1>1. /\ Entering(r) /\ calls[r].pc = "delete" /\ UNCHANGED <<stake, paid>> /\ calls[r] # NoCall
      /\ EndCall(r) /\ seat' = [n \in Seats |-> OpenSeat]
      /\ battle' = [battle EXCEPT !.status = "DELETED"]
  BY EntryAt, SlotOfEntry DEF DeleteBattle, StakesInv, fundsVars
<1>2. /\ Others(r) /\ calls' \in [BattleCalls -> Running] /\ InOrder(r)'
      /\ ~In(r, {"create", "claim", "capture"})'
  BY <1>1, CallEnds DEF StakesInv
<1>3. \A s : ~Finishes(r, s)
  BY <1>1 DEF Finishes, In
<1>4. battle.status # "NONE"
  <2>1. ~BeforeOK(r)
    BY <1>1 DEF BeforeOK, Creating, In
  <2>2. QED  BY <2>1 DEF StakesInv, BeforeBattle
<1>5. Shapes'
  <2>1. OpenSeat \in SeatRows
    BY DEF OpenSeat, SeatRows
  <2>2. seat' \in [Seats -> SeatRows]
    BY <1>1, <2>1
  <2>3. QED  BY <1>1, <1>2, <2>2 DEF StakesInv, Shapes, Running
<1>6. \A n \in Seats : Backed(n)'
  BY <1>1, FreeSeat DEF OpenSeat
<1>7. battle'.status # "NONE"
  BY <1>1 DEF StakesInv, Shapes
<1>8. QED  BY <1>1, <1>2, <1>3, <1>4, <1>5, <1>6, <1>7, SeatsChange

\* Calls that fill or settle are no entries and run when there is a battle.
LEMMA NoEntry ==
  ASSUME StakesInv, NEW r \in BattleCalls, calls[r] \in Fills \cup Payments
  PROVE  /\ calls[r] # NoCall /\ ~Entering(r) /\ battle.status # "NONE"
         /\ \A s : ~Finishes(r, s) /\ ~Undoes(r, s)
<1>1. calls[r] # NoCall /\ ~Entering(r)
  BY DEF Fills, Payments, NoCall, Entering, Entries
<1>2. ~BeforeOK(r)
  BY <1>1 DEF BeforeOK, Creating, In
<1>3. battle.status # "NONE"
  BY <1>2 DEF StakesInv, BeforeBattle
<1>4. QED  BY <1>1, <1>3 DEF Finishes, Undoes, In

\* A bot takes a seat, or the seat of the player who came first.
LEMMA FillSteps ==
  ASSUME StakesInv, NEW r \in BattleCalls, FillBot(r)
  PROVE  StakesInv'
<1>1. calls[r].pc = "bots" /\ calls[r] \in Fills /\ UNCHANGED <<stake, battle, paid>>
  BY DEF FillBot, StakesInv, Shapes, NoCall, Entries, Payments, fundsVars
<1>2. /\ calls[r] # NoCall /\ ~Entering(r) /\ battle.status # "NONE"
      /\ \A s : ~Finishes(r, s) /\ ~Undoes(r, s)
  BY <1>1, NoEntry
<1>3. CASE EndCall(r) /\ UNCHANGED seat
  BY <1>1, <1>2, <1>3, EndSteps
<1>4. CASE battle.status # "DELETED"
  <2> DEFINE n == Min(calls[r].todo)
             todo == calls[r].todo \ {n}
             pc == IF calls[r].todo = {n} THEN "settle" ELSE "bots"
  <2>0. /\ seat' = [seat EXCEPT ![n] = [state |-> "BOT", user |-> NoUser, percent |-> 100,
                                          paid |-> CasesPrice, payout |-> @.payout]]
        /\ calls' = [calls EXCEPT ![r].todo = todo, ![r].pc = pc]
    BY <1>1, <1>4 DEF FillBot
  <2>1. pc \in {"settle", "bots"} /\ todo \in SUBSET Seats
    BY <1>1 DEF Fills
  <2> HIDE DEF n, todo, pc
  <2>2. calls'[r] \in Fills /\ Others(r)
    BY <1>1, <2>0, <2>1 DEF Fills, Others, StakesInv, Shapes
  <2>3. calls' \in [BattleCalls -> Running]
    BY <2>0, <2>2 DEF StakesInv, Shapes, Running, Others
  <2>4. ~Entering(r)'
    BY <2>2 DEF Fills, Entering, Entries
  <2>5. InOrder(r)' /\ ~In(r, {"create", "claim", "capture"})'
    BY <2>4 DEF InOrder, Creating, In
  <2>6. /\ seat' \in [Seats -> SeatRows]
        /\ \A m \in Seats : m # n => seat'[m] = seat[m]
        /\ n \in Seats => seat'[n].user = NoUser
    <3>1. CASE n \in Seats
      <4>1. seat[n].payout \in Nat /\ CasesPrice \in Nat
        BY <3>1, BattlesAssumption DEF StakesInv, Shapes, SeatRows
      <4>2. QED  BY <2>0, <3>1, <4>1 DEF StakesInv, Shapes, SeatRows
    <3>2. CASE n \notin Seats
      BY <2>0, <3>2 DEF StakesInv, Shapes
    <3>3. QED  BY <3>1, <3>2
  <2>7. Shapes'
    BY <1>1, <2>3, <2>6 DEF StakesInv, Shapes, Running
  <2>8. ASSUME NEW m \in Seats PROVE Backed(m)'
    <3>1. CASE m = n
      BY <2>6, <3>1, FreeSeat
    <3>2. CASE m # n
      BY <1>1, <1>2, <2>2, <2>6, <3>2, OtherSeats
    <3>3. QED  BY <3>1, <3>2
  <2>9. QED  BY <1>1, <1>2, <2>2, <2>5, <2>7, <2>8, SeatsChange
<1>5. QED  BY <1>3, <1>4 DEF FillBot

\* The two reads of a settlement.
LEMMA ReadSteps ==
  ASSUME StakesInv, NEW r \in BattleCalls, SettleLook(r) \/ SettleRead(r)
  PROVE  StakesInv'
<1>1. /\ calls[r].pc \in {"settle", "read"} /\ UNCHANGED <<stake, battle, seat, paid>>
      /\ calls[r] \in Entries \cup Fills
  BY DEF SettleLook, SettleRead, StakesInv, Shapes, NoCall, Payments, fundsVars
<1>2. /\ calls[r] # NoCall /\ ~Creating(r)
      /\ \A s : ~Finishes(r, s) /\ ~Undoes(r, s)
  BY <1>1 DEF Entries, Fills, NoCall, Finishes, Undoes, In, Creating
<1>3. \A x \in BattleCalls \ {r} : ~Creating(x)
  BY <1>2, NobodyElseCreates DEF StakesInv
<1>4. battle.status # "NONE"
  <2>1. ~BeforeOK(r)
    BY <1>1, <1>2 DEF BeforeOK, In
  <2>2. QED  BY <2>1 DEF StakesInv, BeforeBattle
<1>5. CASE EndCall(r)
  BY <1>1, <1>2, <1>5, EndSteps
<1>6. CASE Goto(r, "read")
  <2>1. CASE Entering(r)
    <3>1. /\ Others(r) /\ calls' \in [BattleCalls -> Running] /\ Entering(r)'
          /\ calls'[r].pc = "read" /\ calls'[r].op = calls[r].op /\ Slot(r)' = Slot(r)
      BY <1>6, <2>1, EntryMoves DEF StakesInv, EntryPcs
    <3>2. ~Creating(r)' /\ ~In(r, {"create", "claim", "capture"})'
      BY <3>1 DEF Creating, In
    <3>3. InOrder(r)'
      BY <2>1, <3>1, <3>2, OrderOfEntry
    <3>4. QED  BY <1>1, <1>2, <1>3, <1>4, <3>1, <3>2, <3>3, OnlyCallMoves
  <2>2. CASE calls[r] \in Fills
    <3>1. calls'[r] \in Fills /\ Others(r)
      BY <1>6, <2>2 DEF Goto, Fills, Others, StakesInv, Shapes
    <3>2. calls' \in [BattleCalls -> Running]
      BY <1>6, <3>1 DEF Goto, StakesInv, Shapes, Running, Others
    <3>3. ~Entering(r)'
      BY <3>1 DEF Fills, Entering, Entries
    <3>4. InOrder(r)' /\ ~In(r, {"create", "claim", "capture"})'
      BY <3>3 DEF InOrder, Creating, In
    <3>5. QED  BY <1>1, <1>2, <1>3, <1>4, <3>1, <3>2, <3>4, OnlyCallMoves
  <2>3. QED  BY <1>1, <2>1, <2>2 DEF Entering
<1>7. CASE calls' = [calls EXCEPT ![r] = [pc |-> "pay", seats |-> seat]]
  <2>1. calls'[r] \in Payments /\ Others(r)
    BY <1>7 DEF Payments, Others, StakesInv, Shapes
  <2>2. calls' \in [BattleCalls -> Running]
    BY <1>7, <2>1 DEF StakesInv, Shapes, Running, Others
  <2>3. ~Entering(r)'
    BY <2>1 DEF Payments, Entering, Entries
  <2>4. InOrder(r)' /\ ~In(r, {"create", "claim", "capture"})'
    BY <2>3 DEF InOrder, Creating, In
  <2>5. QED  BY <1>1, <1>2, <1>3, <1>4, <2>1, <2>2, <2>4, OnlyCallMoves
<1>8. QED  BY <1>5, <1>6, <1>7 DEF SettleLook, SettleRead

\* A seat that wins is paid a natural amount.
LEMMA PayoutType ==
  ASSUME NEW mode, NEW winners \in Winners(mode), NEW percent \in 20..100
  PROVE  winners \subseteq Seats /\ WinnerPayout(winners, percent, mode) \in Nat
<1>1. winners \subseteq Seats /\ winners # {}
  BY BattlesAssumption DEF Winners
<1>2. IsFiniteSet(winners) /\ Cardinality(winners) \in Nat /\ Cardinality(winners) # 0
  BY <1>1, BattlesAssumption, FS_Subset, FS_CardinalityType, FS_EmptySet
<1>3. Cardinality(Seats) \in Nat
  BY BattlesAssumption, FS_CardinalityType
<1>4. Pot \in Nat
  BY <1>3, BattlesAssumption DEF Pot
<1>5. WinnerPool(mode) \in Nat
  BY <1>4, BattlesAssumption DEF WinnerPool
<1>6. WinnerPool(mode) \div Cardinality(winners) \in Nat
  BY <1>2, <1>5
<1>7. QED  BY <1>1, <1>6 DEF WinnerPayout, Scaled

\* What a settlement pays every seat, and the rows it posts.
SeatPayout(seats, winners) ==
  [n \in Seats |->
     IF n \in winners THEN WinnerPayout(winners, seats[n].percent, battle.mode) ELSE 0]

Payees(seats, winners, payout) ==
  {m \in winners : seats[m].user # NoUser /\ payout[m] > 0}

Rows(seats, winners, payout, r) ==
  {PayoutRow(n, seats[n].user, payout[n], r) : n \in Payees(seats, winners, payout)}

\* A settlement finds the battle deleted or a seat paid, or settles it.
LEMMA SettlementWrites ==
  ASSUME Shapes, NEW r \in BattleCalls, SettleCommit(r)
  PROVE  /\ calls[r] \in Payments /\ EndCall(r) /\ UNCHANGED stake
         /\ \/ UNCHANGED <<funds, battle, seat, paid>>
            \/ \E winners \in Winners(battle.mode) : \E payout \in [Seats -> Nat] :
                 LET seats == calls[r].seats
                     rows == Rows(seats, winners, payout, r)
                 IN /\ winners \subseteq Seats
                    /\ \A n \in Seats \ winners : payout[n] = 0
                    /\ ~PostedBefore(rows)
                    /\ battle' = [battle EXCEPT !.status = "SETTLED"]
                    /\ seat' = [n \in Seats |-> [seat[n] EXCEPT !.payout = payout[n]]]
                    /\ funds' = [u \in Users |-> [funds[u] EXCEPT
                         !.available = @ + Total(payout, {n \in Seats : seats[n].user = u})]]
                    /\ paid' = paid \cup rows
<1>1. calls[r].pc = "pay" /\ EndCall(r) /\ UNCHANGED stake
  BY DEF SettleCommit, fundsVars
<1>2. calls[r] \in Payments
  BY <1>1 DEF Shapes, Entries, Fills, NoCall
<1>3. CASE UNCHANGED <<fundsVars, battle, seat, paid>>
  BY <1>1, <1>2, <1>3 DEF fundsVars
<1>4. CASE ~UNCHANGED <<fundsVars, battle, seat, paid>>
  <2> DEFINE seats == calls[r].seats
  <2>2. PICK winners \in Winners(battle.mode) :
          /\ ~PostedBefore(Rows(seats, winners, SeatPayout(seats, winners), r))
          /\ battle' = [battle EXCEPT !.status = "SETTLED"]
          /\ seat' = [n \in Seats |->
                        [seat[n] EXCEPT !.payout = SeatPayout(seats, winners)[n]]]
          /\ funds' = [u \in Users |-> [funds[u] EXCEPT
               !.available = @ + Total(SeatPayout(seats, winners),
                                       {n \in Seats : seats[n].user = u})]]
          /\ paid' = paid \cup Rows(seats, winners, SeatPayout(seats, winners), r)
    BY <1>4 DEF SettleCommit, Rows, Payees, SeatPayout
  <2>3. PICK payout : payout = SeatPayout(seats, winners)
    OBVIOUS
  <2>4. winners \subseteq Seats
    BY PayoutType DEF Winners
  <2>5. \A n \in Seats : seats[n].percent \in 20..100
    BY <1>2 DEF Payments, SeatRows
  <2>6. \A n \in winners : WinnerPayout(winners, seats[n].percent, battle.mode) \in Nat
    BY <2>4, <2>5, PayoutType
  <2>7. payout \in [Seats -> Nat] /\ \A n \in Seats \ winners : payout[n] = 0
    BY <2>3, <2>6 DEF SeatPayout
  <2>8. QED  BY <1>1, <1>2, <2>2, <2>3, <2>4, <2>7
<1>5. QED  BY <1>3, <1>4

\* The rows of a settlement pay players for seats.
LEMMA RowsType ==
  ASSUME NEW seats \in [Seats -> SeatRows], NEW winners \in SUBSET Seats,
         NEW payout \in [Seats -> Nat], NEW r
  PROVE  /\ IsFiniteSet(Payees(seats, winners, payout))
         /\ Payees(seats, winners, payout) \subseteq Seats
         /\ IsFiniteSet(Rows(seats, winners, payout, r))
         /\ \A x \in Rows(seats, winners, payout, r) :
              x.seat \in Seats /\ x.user \in Users /\ x.amount \in Nat
<1> DEFINE S == Payees(seats, winners, payout)
           R == Rows(seats, winners, payout, r)
           row == [n \in S |-> PayoutRow(n, seats[n].user, payout[n], r)]
<1>1. S \subseteq Seats /\ \A n \in S : seats[n].user \in Users
  BY DEF Payees, SeatRows
<1>2. IsFiniteSet(S)
  BY <1>1, BattlesAssumption, FS_Subset
<1>3. R = {row[n] : n \in S}
  BY Zenon DEF Rows
<1>4. row \in Surjection(S, R)
  BY <1>3 DEF Surjection
<1>5. IsFiniteSet(R)
  <2> HIDE DEF S, R, row
  <2> QED  BY <1>2, <1>4, FS_Surjection
<1>6. ASSUME NEW x \in R PROVE x.seat \in Seats /\ x.user \in Users /\ x.amount \in Nat
  <2>1. PICK n \in S : x = PayoutRow(n, seats[n].user, payout[n], r)
    BY DEF Rows
  <2>2. QED  BY <1>1, <2>1 DEF PayoutRow
<1>7. QED  BY <1>1, <1>2, <1>5, <1>6

\* A settlement changes no stake and no seat's owner.
LEMMA SettleSteps ==
  ASSUME StakesInv, NEW r \in BattleCalls, SettleCommit(r)
  PROVE  StakesInv'
<1>1. calls[r] \in Payments /\ EndCall(r) /\ UNCHANGED stake
  BY SettlementWrites DEF StakesInv
<1>2. /\ calls[r] # NoCall /\ ~Entering(r) /\ battle.status # "NONE"
      /\ \A s : ~Finishes(r, s) /\ ~Undoes(r, s)
  BY <1>1, NoEntry
<1>3. CASE UNCHANGED <<funds, battle, seat, paid>>
  BY <1>1, <1>2, <1>3, EndSteps
<1>4. CASE ~UNCHANGED <<funds, battle, seat, paid>>
  <2>1. PICK winners \in Winners(battle.mode), payout \in [Seats -> Nat] :
          /\ winners \subseteq Seats
          /\ battle' = [battle EXCEPT !.status = "SETTLED"]
          /\ seat' = [n \in Seats |-> [seat[n] EXCEPT !.payout = payout[n]]]
          /\ paid' = paid \cup Rows(calls[r].seats, winners, payout, r)
    BY <1>4, SettlementWrites DEF StakesInv
  <2>2. calls[r].seats \in [Seats -> SeatRows]
    BY <1>1 DEF Payments
  <2>3. PICK rows : /\ paid' = paid \cup rows /\ IsFiniteSet(rows)
                    /\ \A x \in rows : x.seat \in Seats /\ x.user \in Users /\ x.amount \in Nat
    BY <2>1, <2>2, RowsType
  <2>4. /\ Others(r) /\ calls' \in [BattleCalls -> Running] /\ InOrder(r)'
        /\ ~In(r, {"create", "claim", "capture"})'
    BY <1>1, CallEnds DEF StakesInv
  <2>5. /\ seat' \in [Seats -> SeatRows]
        /\ \A n \in Seats : seat'[n].user = seat[n].user /\ seat'[n].paid = seat[n].paid
    <3>1. \A n \in Seats : seat'[n] = [seat[n] EXCEPT !.payout = payout[n]]
      BY <2>1
    <3>2. ASSUME NEW n \in Seats
          PROVE  /\ seat'[n] \in SeatRows
                 /\ seat'[n].user = seat[n].user /\ seat'[n].paid = seat[n].paid
      <4>1. seat[n] \in SeatRows /\ payout[n] \in Nat
        BY DEF StakesInv, Shapes
      <4>2. QED  BY <3>1, <4>1 DEF SeatRows
    <3>3. seat' \in [Seats -> SeatRows]
      BY <2>1, <3>1, <3>2
    <3>4. QED  BY <3>2, <3>3
  <2>6. IsFiniteSet(paid')
    BY <2>3, FS_Union DEF StakesInv, Shapes
  <2>7. Shapes' /\ battle'.status # "NONE"
    BY <1>1, <2>1, <2>3, <2>4, <2>5, <2>6 DEF StakesInv, Shapes, Running
  <2>8. \A n \in Seats : Backed(n)'
    BY <1>1, <1>2, <2>4, <2>5, OtherSeats
  <2>9. QED  BY <1>1, <1>2, <2>4, <2>7, <2>8, SeatsChange
<1>5. QED  BY <1>3, <1>4

\* A settlement that is rolled back only ends its call.
LEMMA AbortSteps ==
  ASSUME StakesInv, NEW r \in BattleCalls, SettleAborts(r)
  PROVE  StakesInv'
<1>1. /\ calls[r].pc = "pay" /\ EndCall(r) /\ UNCHANGED <<stake, battle, seat, paid>>
      /\ calls[r] \in Payments
  BY DEF SettleAborts, StakesInv, Shapes, Running, Entries, Fills, NoCall, fundsVars
<1>2. /\ calls[r] # NoCall /\ ~Entering(r) /\ battle.status # "NONE"
      /\ \A s : ~Finishes(r, s) /\ ~Undoes(r, s)
  BY <1>1, NoEntry
<1>3. QED  BY <1>1, <1>2, EndSteps

LEMMA StakesStep == StakesInv /\ [BattlesNext]_battlesVars => StakesInv'
<1> SUFFICES ASSUME StakesInv, [BattlesNext]_battlesVars PROVE StakesInv'
  OBVIOUS
<1>1. CASE UNCHANGED battlesVars
  <2>1. UNCHANGED <<stake, battle, seat, paid, calls>>
    BY <1>1 DEF battlesVars
  <2>2. Shapes' /\ \A r \in BattleCalls : Others(r)
    BY <2>1 DEF StakesInv, Shapes, Others
  <2>3. \A r \in BattleCalls : Slot(r)' = Slot(r) /\ (Creating(r)' <=> Creating(r))
    BY <2>1 DEF Slot, Creating, In, Entering
  <2>4. \A r \in BattleCalls : /\ \A pcs : In(r, pcs)' <=> In(r, pcs)
                               /\ \A s : (Finishes(r, s)' <=> Finishes(r, s))
                                        /\ (Undoes(r, s)' <=> Undoes(r, s))
    BY <2>1, <2>3 DEF In, Finishes, Undoes, Entering
  <2>5. CallsInOrder' /\ BeforeBattle'
    BY <2>1, <2>3, <2>4 DEF StakesInv, CallsInOrder, InOrder, BeforeBattle, BeforeOK, Entering, NoCall
  <2>6. StakesKnown'
    BY <2>1, <2>3, <2>4 DEF StakesInv, StakesKnown
  <2>7. HeldForCall'
    BY <2>1, <2>4 DEF StakesInv, HeldForCall
  <2>8. SeatsBacked'
    BY <2>1, <2>4 DEF StakesInv, SeatsBacked, Backed
  <2>9. QED  BY <2>2, <2>5, <2>6, <2>7, <2>8 DEF StakesInv
<1>2. ASSUME NEW r \in BattleCalls, Serve(r) PROVE StakesInv'
  BY <1>2, LookupSteps, HoldSteps, CreateSteps, ClaimSteps, CaptureSteps, ReopenSteps,
     ReleaseSteps, DeleteSteps, FillSteps, ReadSteps, SettleSteps, AbortSteps DEF Serve
<1>3. QED  BY <1>1, <1>2, StartSteps, FailSteps DEF BattlesNext

\* Who is not in a call has nothing on hold and has paid for the seats it has.
LEMMA SettledWhenIdle == StakesInv => StakesSettled
<1> SUFFICES ASSUME StakesInv PROVE StakesSettled
  OBVIOUS
<1>1. ASSUME NEW r \in BattleCalls, Entering(r) PROVE Busy(calls[r].user)
  BY <1>1, SlotOfEntry DEF Busy
<1>2. ASSUME NEW u \in Users, ~Busy(u), NEW s \in StakesOf(u, "HELD") PROVE FALSE
  <2>1. s \in Slots /\ stake[s].status = "HELD" /\ s[1] = u
    BY <1>2 DEF StakesOf, Slots
  <2>2. PICK r \in BattleCalls : Finishes(r, s)
    BY <2>1 DEF StakesInv, HeldForCall
  <2>3. Entering(r) /\ calls[r].user = u
    BY <2>1, <2>2 DEF Finishes, In, Slot
  <2>4. QED  BY <1>1, <1>2, <2>3
<1>3. ASSUME NEW n \in Seats, seat[n].user # NoUser, ~Busy(seat[n].user)
      PROVE  /\ stake[<<seat[n].user, n>>].status = "CAPTURED"
             /\ stake[<<seat[n].user, n>>].amount = seat[n].paid
  <2>1. PICK s : s = <<seat[n].user, n>>
    OBVIOUS
  <2>2. ASSUME NEW r \in BattleCalls, Undoes(r, s) PROVE FALSE
    <3>1. Entering(r) /\ calls[r].user = seat[n].user
      BY <2>1, <2>2 DEF Undoes, Slot
    <3>2. QED  BY <1>1, <1>3, <3>1
  <2>3. stake[s].status = "CAPTURED" /\ stake[s].amount = seat[n].paid
    BY <1>3, <2>1, <2>2 DEF StakesInv, SeatsBacked, Backed
  <2>4. QED  BY <2>1, <2>3
<1>4. QED  BY <1>2, <1>3 DEF StakesSettled, NothingLeftHeld, SeatsPaidFor

\* When its calls are over, a player has paid for its seats and has nothing on
\* hold, however many calls overlap, lose a seat, fail and undo what they did.
THEOREM StakesAlwaysSettled == BattlesSpec => []StakesSettled
<1>1. QED  BY StakesInit, StakesStep, SettledWhenIdle, PTL DEF BattlesSpec

-----------------------------------------------------------------------------
(***************************************************************************)
(* The funds of the players add up.                                        *)
(***************************************************************************)

FundsInv == funds \in [Users -> [available : Nat, locked : Nat]] /\ FundsAddUp

\* The total of the stakes of a player in one state of the reservations.
SlotsAt(rows, u, status) == {s \in {u} \X Seats : rows[s].status = status}

TotalAt(rows, u, status) == Total([s \in Slots |-> rows[s].amount], SlotsAt(rows, u, status))

LEMMA StakedIs ==
  ASSUME NEW u, NEW status
  PROVE  /\ Staked(u, status) = TotalAt(stake, u, status)
         /\ Staked(u, status)' = TotalAt(stake', u, status)
BY DEF Staked, StakesOf, TotalAt, SlotsAt, Slots

LEMMA SlotsFinite ==
  ASSUME NEW u, NEW rows, NEW status
  PROVE  /\ IsFiniteSet(SlotsAt(rows, u, status))
         /\ u \in Users => SlotsAt(rows, u, status) \subseteq Slots
<1>1. IsFiniteSet({u} \X Seats)
  BY BattlesAssumption, FS_Singleton, FS_Product
<1>2. SlotsAt(rows, u, status) \subseteq {u} \X Seats
  BY DEF SlotsAt
<1>3. QED  BY <1>1, <1>2, FS_Subset DEF Slots

LEMMA TotalAtType ==
  ASSUME NEW rows \in [Slots -> StakeRows], NEW u \in Users, NEW status
  PROVE  TotalAt(rows, u, status) \in Nat
<1> DEFINE amount == [s \in Slots |-> rows[s].amount]
<1>1. \A s \in SlotsAt(rows, u, status) : amount[s] \in Nat
  BY SlotsFinite DEF StakeRows
<1> HIDE DEF amount
<1>2. Total(amount, SlotsAt(rows, u, status)) \in Nat
  BY <1>1, SlotsFinite, TotalType
<1>3. QED  BY <1>2 DEF TotalAt, amount

\* Rows that agree on which slots have a status, and on their amounts, have one total.
LEMMA TotalAtSame ==
  ASSUME NEW old, NEW new, NEW u \in Users, NEW status,
         \A s \in {u} \X Seats :
           /\ new[s].status = status <=> old[s].status = status
           /\ old[s].status = status => new[s].amount = old[s].amount
  PROVE  TotalAt(new, u, status) = TotalAt(old, u, status)
<1> DEFINE S == SlotsAt(old, u, status)
           f == [s \in Slots |-> new[s].amount]
           g == [s \in Slots |-> old[s].amount]
<1>1. SlotsAt(new, u, status) = S
  BY DEF SlotsAt
<1>2. \A s \in S : f[s] = g[s]
  BY DEF SlotsAt, Slots
<1> HIDE DEF S, f, g
<1>3. Total(f, S) = Total(g, S)
  BY <1>2, TotalSame
<1>4. TotalAt(new, u, status) = Total(f, SlotsAt(new, u, status)) /\ TotalAt(old, u, status) = Total(g, S)
  BY DEF TotalAt, S, f, g
<1>5. QED  BY <1>1, <1>3, <1>4, Zenon

\* One slot that gets a status adds its amount to the total.
LEMMA TotalAtAdds ==
  ASSUME NEW old \in [Slots -> StakeRows], NEW new \in [Slots -> StakeRows], NEW u \in Users,
         NEW status, NEW s \in {u} \X Seats, old[s].status # status, new[s].status = status,
         \A x \in Slots : x # s => new[x] = old[x]
  PROVE  TotalAt(new, u, status) = TotalAt(old, u, status) + new[s].amount
<1> DEFINE S == SlotsAt(old, u, status)
           f == [x \in Slots |-> new[x].amount]
           g == [x \in Slots |-> old[x].amount]
<1>1. s \in Slots /\ {u} \X Seats \subseteq Slots
  BY DEF Slots
<1>2. SlotsAt(new, u, status) = S \cup {s} /\ s \notin S
  BY <1>1 DEF SlotsAt
<1>3. S \subseteq Slots /\ IsFiniteSet(S)
  BY SlotsFinite
<1>4. \A x \in S : f[x] = g[x]
  BY <1>2, <1>3
<1>5. \A x \in S \cup {s} : f[x] \in Nat
  BY <1>1, <1>3 DEF StakeRows
<1>6. f[s] = new[s].amount
  BY <1>1
<1> HIDE DEF S, f, g
<1>7. Total(f, S \cup {s}) = Total(f, S) + f[s]
  <2>1. s \notin S /\ IsFiniteSet(S) /\ \A x \in S \cup {s} : f[x] \in Nat
    BY <1>2, <1>3, <1>5
  <2>2. QED  BY <2>1, TotalAdd
<1>8. Total(f, S) = Total(g, S)
  BY <1>4, TotalSame
<1>9. TotalAt(new, u, status) = Total(f, SlotsAt(new, u, status)) /\ TotalAt(old, u, status) = Total(g, S)
  BY DEF TotalAt, S, f, g
<1>10. TotalAt(new, u, status) = Total(f, S \cup {s})
  BY <1>2, <1>9, Zenon
<1>11. QED  BY <1>6, <1>7, <1>8, <1>9, <1>10

\* Funds and reservations as they were leave the sums as they were.
LEMMA NothingPaid ==
  ASSUME FundsInv, UNCHANGED <<funds, stake, paid>>
  PROVE  FundsInv'
<1>1. /\ \A u, status : Staked(u, status)' = Staked(u, status)
      /\ \A u : PaidTo(u)' = PaidTo(u)
  BY DEF Staked, StakesOf, PaidTo
<1>2. QED  BY <1>1 DEF FundsInv, FundsAddUp

\* One stake changes: what the player has with it changes by as much as its funds.
LEMMA OneStakeMoves ==
  ASSUME FundsInv, Shapes, stake' \in [Slots -> StakeRows], UNCHANGED paid,
         NEW a \in Users, NEW b \in Seats,
         \A x \in Slots : x # <<a, b>> => stake'[x] = stake[x],
         funds' \in [Users -> [available : Int, locked : Int]],
         \A u \in Users \ {a} : funds'[u] = funds[u],
         funds'[a].available \in Nat,
         funds'[a].locked = TotalAt(stake', a, "HELD"),
         funds'[a].available + funds'[a].locked + TotalAt(stake', a, "CAPTURED")
           = funds[a].available + funds[a].locked + TotalAt(stake, a, "CAPTURED")
  PROVE  FundsInv'
<1>1. ASSUME NEW u \in Users \ {a}, NEW status
      PROVE  TotalAt(stake', u, status) = TotalAt(stake, u, status)
  <2>1. \A x \in {u} \X Seats : stake'[x] = stake[x]
    BY DEF Slots
  <2>2. PICK old, new : old = stake /\ new = stake'
    OBVIOUS
  <2>3. \A x \in {u} \X Seats : new[x] = old[x]
    BY <2>1, <2>2
  <2>4. TotalAt(new, u, status) = TotalAt(old, u, status)
    <3>1. /\ u \in Users
          /\ \A x \in {u} \X Seats :
               /\ new[x].status = status <=> old[x].status = status
               /\ old[x].status = status => new[x].amount = old[x].amount
      BY <2>3
    <3>2. QED  BY <3>1, TotalAtSame
  <2>5. QED  BY <2>2, <2>4
<1>2. \A u \in Users : PaidTo(u)' = PaidTo(u)
  BY DEF PaidTo
<1>3. FundsAddUp'
  <2> SUFFICES ASSUME NEW u \in Users
               PROVE  /\ funds'[u].locked = Staked(u, "HELD")'
                      /\ funds'[u].available + funds'[u].locked + Staked(u, "CAPTURED")'
                           = StartingFunds + PaidTo(u)'
    BY DEF FundsAddUp
  <2>1. /\ funds[u].locked = TotalAt(stake, u, "HELD")
        /\ funds[u].available + funds[u].locked + TotalAt(stake, u, "CAPTURED")
             = StartingFunds + PaidTo(u)
    BY StakedIs DEF FundsInv, FundsAddUp
  <2>2. CASE u = a
    BY <1>2, <2>1, <2>2, StakedIs
  <2>3. CASE u # a
    BY <1>1, <1>2, <2>1, <2>3, StakedIs
  <2>4. QED  BY <2>2, <2>3
<1>4. funds' \in [Users -> [available : Nat, locked : Nat]]
  <2>1. funds'[a].locked \in Nat
    BY TotalAtType
  <2>2. \A u \in Users : funds'[u] \in [available : Nat, locked : Nat]
    BY <2>1 DEF FundsInv
  <2>3. QED  BY <2>2
<1>5. QED  BY <1>3, <1>4 DEF FundsInv

\* A slot that changes its status takes its amount from one total to another.
LEMMA TotalsMove ==
  ASSUME NEW old \in [Slots -> StakeRows], NEW new \in [Slots -> StakeRows], NEW u \in Users,
         NEW s \in {u} \X Seats, \A x \in Slots : x # s => new[x] = old[x], NEW status
  PROVE  /\ TotalAt(old, u, status) \in Nat /\ TotalAt(new, u, status) \in Nat
         /\ old[s].status # status /\ new[s].status # status =>
              TotalAt(new, u, status) = TotalAt(old, u, status)
         /\ old[s].status # status /\ new[s].status = status =>
              TotalAt(new, u, status) = TotalAt(old, u, status) + new[s].amount
         /\ old[s].status = status /\ new[s].status # status =>
              TotalAt(old, u, status) = TotalAt(new, u, status) + old[s].amount
<1>1. TotalAt(old, u, status) \in Nat /\ TotalAt(new, u, status) \in Nat
  BY TotalAtType
<1>2. CASE old[s].status # status /\ new[s].status # status
  <2>1. \A x \in {u} \X Seats :
          /\ new[x].status = status <=> old[x].status = status
          /\ old[x].status = status => new[x].amount = old[x].amount
    BY <1>2 DEF Slots
  <2>2. QED  BY <1>1, <1>2, <2>1, TotalAtSame
<1>3. CASE old[s].status # status /\ new[s].status = status
  BY <1>1, <1>3, TotalAtAdds
<1>4. CASE old[s].status = status /\ new[s].status # status
  <2>1. \A x \in Slots : x # s => old[x] = new[x]
    OBVIOUS
  <2>2. TotalAt(old, u, status) = TotalAt(new, u, status) + old[s].amount
    BY <1>4, <2>1, TotalAtAdds
  <2>3. QED  BY <1>1, <1>4, <2>2
<1>5. QED  BY <1>1, <1>2, <1>3, <1>4

\* A stake that is held, released or captured moves with its player's funds.
LEMMA StakeFunds ==
  ASSUME FundsInv, Shapes, UNCHANGED paid, NEW a \in Users, NEW b \in Seats,
         Wallet!Hold(a, b) \/ Wallet!Release(a, b) \/ Wallet!Capture(a, b)
  PROVE  FundsInv'
<1>1. PICK s \in {a} \X Seats : s = <<a, b>> /\ s \in Slots
  <2>1. <<a, b>> \in {a} \X Seats /\ <<a, b>> \in Slots
    BY DEF Slots
  <2>2. QED  BY <2>1
<1>2. PICK old : old = stake /\ old \in [Slots -> StakeRows]
  BY DEF Shapes
<1>3. funds \in [Users -> [available : Nat, locked : Nat]] /\ funds[a].available \in Nat /\ funds[a].locked \in Nat
  BY DEF FundsInv
<1>4. funds[a].locked = TotalAt(old, a, "HELD")
  BY <1>2, StakedIs DEF FundsInv, FundsAddUp
<1>5. ASSUME NEW new \in [Slots -> StakeRows], stake' = new,
             \A x \in Slots : x # s => new[x] = old[x],
             funds' \in [Users -> [available : Int, locked : Int]],
             \A u \in Users \ {a} : funds'[u] = funds[u],
             funds'[a].available \in Nat,
             funds'[a].locked = TotalAt(new, a, "HELD"),
             funds'[a].available + funds'[a].locked + TotalAt(new, a, "CAPTURED")
               = funds[a].available + funds[a].locked + TotalAt(old, a, "CAPTURED")
      PROVE  FundsInv'
  BY <1>1, <1>2, <1>5, OneStakeMoves
<1>6. CASE Wallet!Hold(a, b)
  <2>1. PICK amount \in 1..MaxFunds :
          /\ old[s].status = "NONE" /\ funds[a].available >= amount
          /\ funds' = [funds EXCEPT ![a] = [available |-> @.available - amount,
                                            locked |-> @.locked + amount]]
          /\ stake' = [old EXCEPT ![s] = [status |-> "HELD", amount |-> amount]]
    BY <1>1, <1>2, <1>6 DEF Wallet!Hold
  <2>2. PICK new : new = [old EXCEPT ![s] = [status |-> "HELD", amount |-> amount]]
    OBVIOUS
  <2>3. amount \in Nat
    BY BattlesAssumption
  <2>4. /\ new \in [Slots -> StakeRows] /\ new[s].status = "HELD" /\ new[s].amount = amount
        /\ \A x \in Slots : x # s => new[x] = old[x]
    BY <1>1, <1>2, <2>2, <2>3 DEF StakeRows
  <2>5. /\ TotalAt(new, a, "HELD") = TotalAt(old, a, "HELD") + amount
        /\ TotalAt(new, a, "CAPTURED") = TotalAt(old, a, "CAPTURED")
        /\ TotalAt(old, a, "CAPTURED") \in Nat
    <3>1. \A p : /\ TotalAt(old, a, p) \in Nat /\ TotalAt(new, a, p) \in Nat
                 /\ old[s].status # p /\ new[s].status # p =>
                      TotalAt(new, a, p) = TotalAt(old, a, p)
                 /\ old[s].status # p /\ new[s].status = p =>
                      TotalAt(new, a, p) = TotalAt(old, a, p) + new[s].amount
                 /\ old[s].status = p /\ new[s].status # p =>
                      TotalAt(old, a, p) = TotalAt(new, a, p) + old[s].amount
      BY <1>2, <2>4, TotalsMove
    <3>2. QED  BY <2>1, <2>4, <3>1
  <2>6. /\ funds' \in [Users -> [available : Int, locked : Int]]
        /\ \A u \in Users \ {a} : funds'[u] = funds[u]
        /\ funds'[a].available = funds[a].available - amount
        /\ funds'[a].locked = funds[a].locked + amount
    BY <1>3, <2>1, <2>3
  <2>7. funds'[a].available \in Nat
    BY <1>3, <2>1, <2>3, <2>6
  <2>8. /\ funds'[a].locked = TotalAt(new, a, "HELD")
        /\ funds'[a].available + funds'[a].locked + TotalAt(new, a, "CAPTURED")
             = funds[a].available + funds[a].locked + TotalAt(old, a, "CAPTURED")
    BY <1>3, <1>4, <2>3, <2>5, <2>6
  <2>9. stake' = new
    BY <2>1, <2>2
  <2>10. QED  BY <1>5, <2>4, <2>6, <2>7, <2>8, <2>9
<1>7. CASE Wallet!Release(a, b) \/ Wallet!Capture(a, b)
  <2>1. PICK amount, status :
          /\ amount = old[s].amount /\ old[s].status = "HELD"
          /\ status \in {"RELEASED", "CAPTURED"}
          /\ stake' = [old EXCEPT ![s].status = status]
          /\ status = "RELEASED" =>
               funds' = [funds EXCEPT ![a] = [available |-> @.available + amount,
                                              locked |-> @.locked - amount]]
          /\ status = "CAPTURED" => funds' = [funds EXCEPT ![a].locked = @ - amount]
    BY <1>1, <1>2, <1>7 DEF Wallet!Release, Wallet!Capture
  <2>2. PICK new : new = [old EXCEPT ![s].status = status]
    OBVIOUS
  <2>3. amount \in Nat
    BY <1>1, <1>2, <2>1 DEF StakeRows
  <2>4. /\ new \in [Slots -> StakeRows] /\ new[s].status = status /\ new[s].amount = amount
        /\ \A x \in Slots : x # s => new[x] = old[x]
    <3>1. old[s] \in StakeRows /\ new[s] = [old[s] EXCEPT !.status = status]
      BY <1>1, <1>2, <2>2
    <3>2. new[s] \in StakeRows /\ new[s].status = status /\ new[s].amount = amount
      BY <2>1, <3>1 DEF StakeRows
    <3>3. QED  BY <1>1, <1>2, <2>2, <3>2
  <2>5. /\ TotalAt(old, a, "HELD") = TotalAt(new, a, "HELD") + amount
        /\ TotalAt(new, a, "HELD") \in Nat
        /\ status = "RELEASED" => TotalAt(new, a, "CAPTURED") = TotalAt(old, a, "CAPTURED")
        /\ status = "CAPTURED" =>
             TotalAt(new, a, "CAPTURED") = TotalAt(old, a, "CAPTURED") + amount
        /\ TotalAt(old, a, "CAPTURED") \in Nat
    <3>1. \A p : /\ TotalAt(old, a, p) \in Nat /\ TotalAt(new, a, p) \in Nat
                 /\ old[s].status # p /\ new[s].status # p =>
                      TotalAt(new, a, p) = TotalAt(old, a, p)
                 /\ old[s].status # p /\ new[s].status = p =>
                      TotalAt(new, a, p) = TotalAt(old, a, p) + new[s].amount
                 /\ old[s].status = p /\ new[s].status # p =>
                      TotalAt(old, a, p) = TotalAt(new, a, p) + old[s].amount
      BY <1>2, <2>4, TotalsMove
    <3>2. QED  BY <2>1, <2>4, <3>1
  <2>6. /\ funds' \in [Users -> [available : Int, locked : Int]]
        /\ \A u \in Users \ {a} : funds'[u] = funds[u]
        /\ funds'[a].locked = funds[a].locked - amount
        /\ status = "RELEASED" => funds'[a].available = funds[a].available + amount
        /\ status = "CAPTURED" => funds'[a].available = funds[a].available
    BY <1>3, <2>1, <2>3
  <2>7. funds'[a].available \in Nat
    BY <1>3, <2>1, <2>3, <2>6
  <2>8. /\ funds'[a].locked = TotalAt(new, a, "HELD")
        /\ funds'[a].available + funds'[a].locked + TotalAt(new, a, "CAPTURED")
             = funds[a].available + funds[a].locked + TotalAt(old, a, "CAPTURED")
    BY <1>3, <1>4, <2>1, <2>3, <2>5, <2>6
  <2>9. stake' = new
    BY <2>1, <2>2
  <2>10. QED  BY <1>5, <2>4, <2>6, <2>7, <2>8, <2>9
<1>8. QED  BY <1>6, <1>7

\* The rows of a settlement give a player what its seats won.
LEMMA RowsPay ==
  ASSUME NEW seats \in [Seats -> SeatRows], NEW winners \in SUBSET Seats,
         NEW payout \in [Seats -> Nat], \A n \in Seats \ winners : payout[n] = 0,
         NEW r, NEW u \in Users, NEW amount,
         \A x \in Rows(seats, winners, payout, r) : amount[x] = x.amount
  PROVE  Total(amount, {x \in Rows(seats, winners, payout, r) : x.user = u})
           = Total(payout, {n \in Seats : seats[n].user = u})
<1> DEFINE P == Payees(seats, winners, payout)
           R == Rows(seats, winners, payout, r)
           S == {n \in P : seats[n].user = u}
           T == {x \in R : x.user = u}
           U == {n \in Seats : seats[n].user = u}
           h == [n \in S |-> PayoutRow(n, seats[n].user, payout[n], r)]
<1>1. P \subseteq Seats
  BY RowsType
<1>2. \A x : x \in R <=> \E n \in P : x = PayoutRow(n, seats[n].user, payout[n], r)
  BY DEF Rows
<1>3. \A n : /\ PayoutRow(n, seats[n].user, payout[n], r).seat = n
             /\ PayoutRow(n, seats[n].user, payout[n], r).user = seats[n].user
             /\ PayoutRow(n, seats[n].user, payout[n], r).amount = payout[n]
  BY DEF PayoutRow
<1>4. h \in Bijection(S, T)
  <2>1. \A n \in S : h[n] \in T
    BY <1>2, <1>3
  <2>2. \A n, m \in S : h[n] = h[m] => n = m
    BY <1>3
  <2>3. \A x \in T : \E n \in S : h[n] = x
    BY <1>2, <1>3
  <2> HIDE DEF S, T, P, R
  <2>4. QED  BY <2>1, <2>2, <2>3 DEF Bijection, Injection, Surjection, IsInjective
<1>5. \A n \in S : payout[n] \in Nat /\ amount[h[n]] = payout[n]
  BY <1>1, <1>2, <1>3
<1>6. /\ IsFiniteSet(S) /\ IsFiniteSet(U \ S) /\ S \cap (U \ S) = {} /\ U = S \cup (U \ S)
      /\ U \subseteq Seats
  <2>1. S \subseteq Seats /\ U \subseteq Seats
    BY <1>1
  <2>2. QED  BY <2>1, BattlesAssumption, FS_Subset
<1>7. \A n \in U \ S : payout[n] = 0
  <2>1. u # NoUser
    BY BattlesAssumption
  <2>2. QED  BY <2>1 DEF Payees
<1> HIDE DEF P, R, S, T, U, h
<1>8. Total(amount, T) = Total(payout, S)
  BY <1>4, <1>5, <1>6, TotalRenamed
<1>9. Total(payout, U) = Total(payout, S)
  <2>1. PICK V : V = U \ S
    OBVIOUS
  <2>2. Total(payout, V) = 0
    BY <1>7, <2>1, TotalOfNothing
  <2>3. \A n \in S \cup V : payout[n] \in Nat
    BY <1>5, <1>6, <2>1
  <2>4. S \cap V = {} /\ IsFiniteSet(S) /\ IsFiniteSet(V) /\ U = S \cup V
    BY <1>6, <2>1
  <2>5. Total(payout, S \cup V) = Total(payout, S) + Total(payout, V)
    BY <2>3, <2>4, TotalSplit
  <2>6. Total(payout, S) \in Nat
    BY <2>3, <2>4, TotalType
  <2>7. Total(payout, U) = Total(payout, S \cup V)
    BY <2>4, Zenon
  <2>8. QED  BY <2>2, <2>5, <2>6, <2>7
<1>10. QED  BY <1>8, <1>9 DEF R, T, U

\* A settlement pays every player what its new rows say.
LEMMA SettleFunds ==
  ASSUME FundsInv, Shapes, NEW r \in BattleCalls, SettleCommit(r)
  PROVE  FundsInv'
<1>1. calls[r].seats \in [Seats -> SeatRows] /\ UNCHANGED stake
  BY SettlementWrites DEF Payments
<1>2. CASE UNCHANGED <<funds, battle, seat, paid>>
  BY <1>1, <1>2, NothingPaid
<1>3. CASE ~UNCHANGED <<funds, battle, seat, paid>>
  <2> DEFINE seats == calls[r].seats
             Of(u) == {n \in Seats : seats[n].user = u}
  <2>1. PICK winners \in SUBSET Seats, payout \in [Seats -> Nat] :
          /\ \A n \in Seats \ winners : payout[n] = 0
          /\ ~PostedBefore(Rows(seats, winners, payout, r))
          /\ funds' = [u \in Users |-> [funds[u] EXCEPT !.available = @ + Total(payout, Of(u))]]
          /\ paid' = paid \cup Rows(seats, winners, payout, r)
    BY <1>3, SettlementWrites
  <2>2. PICK rows : rows = Rows(seats, winners, payout, r)
    OBVIOUS
  <2>3. /\ IsFiniteSet(rows) /\ IsFiniteSet(paid) /\ rows \cap paid = {}
        /\ \A x \in paid \cup rows : x.amount \in Nat
    BY <1>1, <2>1, <2>2, RowsType DEF PostedBefore, Shapes
  <2>4. PICK before, after :
          /\ before = [x \in paid |-> x.amount]
          /\ after = [x \in paid \cup rows |-> x.amount]
    OBVIOUS
  <2>5. ASSUME NEW u \in Users PROVE PaidTo(u)' = PaidTo(u) + Total(payout, Of(u))
    <3>1. PICK P, R : P = {x \in paid : x.user = u} /\ R = {x \in rows : x.user = u}
      OBVIOUS
    <3>2. /\ IsFiniteSet(P) /\ IsFiniteSet(R) /\ P \cap R = {}
          /\ \A x \in P \cup R : after[x] \in Nat
          /\ \A x \in P : after[x] = before[x]
      <4>1. P \subseteq paid /\ R \subseteq rows
        BY <3>1
      <4>2. IsFiniteSet(P) /\ IsFiniteSet(R) /\ P \cap R = {}
        BY <2>3, <4>1, FS_Subset
      <4>3. QED  BY <2>3, <2>4, <4>1, <4>2
    <3>3. Total(after, P \cup R) = Total(after, P) + Total(after, R)
      BY <3>2, TotalSplit
    <3>4. Total(after, P) = Total(before, P)
      BY <3>2, TotalSame
    <3>5. Total(after, R) = Total(payout, Of(u))
      <4>1. \A x \in rows : after[x] = x.amount
        BY <2>4
      <4>2. Total(after, {x \in rows : x.user = u}) = Total(payout, Of(u))
        BY <1>1, <2>1, <2>2, <4>1, RowsPay
      <4>3. QED  BY <3>1, <4>2
    <3>6. PaidTo(u) = Total(before, P)
      BY <2>4, <3>1 DEF PaidTo
    <3>7. PaidTo(u)' = Total(after, P \cup R)
      <4>1. P \cup R = {x \in paid \cup rows : x.user = u}
        BY <3>1
      <4>2. PaidTo(u)' = Total([x \in paid \cup rows |-> x.amount], {x \in paid \cup rows : x.user = u})
        BY <2>1, <2>2 DEF PaidTo
      <4>3. QED  BY <2>4, <4>1, <4>2, Zenon
    <3>8. QED  BY <3>3, <3>4, <3>5, <3>6, <3>7
  <2>6. ASSUME NEW u \in Users
        PROVE  /\ funds'[u] \in [available : Nat, locked : Nat]
               /\ funds'[u].available = funds[u].available + Total(payout, Of(u))
               /\ funds'[u].locked = funds[u].locked
    <3>1. Total(payout, Of(u)) \in Nat
      <4>1. IsFiniteSet(Of(u)) /\ \A n \in Of(u) : payout[n] \in Nat
        BY BattlesAssumption, FS_Subset
      <4> HIDE DEF Of
      <4>2. QED  BY <4>1, TotalType
    <3>2. funds[u] \in [available : Nat, locked : Nat]
      BY DEF FundsInv
    <3>3. funds'[u] = [funds[u] EXCEPT !.available = @ + Total(payout, Of(u))]
      BY <2>1
    <3> HIDE DEF Of
    <3>4. QED  BY <3>1, <3>2, <3>3
  <2>7. FundsAddUp'
    <3> SUFFICES ASSUME NEW u \in Users
                 PROVE  /\ funds'[u].locked = Staked(u, "HELD")'
                        /\ funds'[u].available + funds'[u].locked + Staked(u, "CAPTURED")'
                             = StartingFunds + PaidTo(u)'
      BY DEF FundsAddUp
    <3>1. /\ funds[u].locked = Staked(u, "HELD")
          /\ funds[u].available + funds[u].locked + Staked(u, "CAPTURED") = StartingFunds + PaidTo(u)
      BY DEF FundsInv, FundsAddUp
    <3>2. PICK held, captured :
            /\ Staked(u, "HELD")' = held /\ Staked(u, "HELD") = held
            /\ Staked(u, "CAPTURED")' = captured /\ Staked(u, "CAPTURED") = captured
      BY <1>1 DEF Staked, StakesOf
    <3>3. /\ Staked(u, "CAPTURED") \in Nat /\ funds[u].available \in Nat
          /\ funds[u].locked \in Nat
      BY TotalAtType, StakedIs DEF FundsInv, Shapes
    <3>4. PICK won : won = Total(payout, Of(u))
      OBVIOUS
    <3>5. /\ PaidTo(u)' = PaidTo(u) + won /\ funds'[u].available = funds[u].available + won
          /\ funds'[u].locked = funds[u].locked
      BY <2>5, <2>6, <3>4
    <3>6. won \in Nat /\ PaidTo(u) \in Nat /\ StartingFunds \in Nat
      <4>1. won \in Nat
        <5>1. IsFiniteSet(Of(u)) /\ \A n \in Of(u) : payout[n] \in Nat
          BY BattlesAssumption, FS_Subset
        <5> HIDE DEF Of
        <5>2. QED  BY <3>4, <5>1, TotalType
      <4>2. PaidTo(u) \in Nat
        <5>1. PICK P : P = {x \in paid : x.user = u}
          OBVIOUS
        <5>2. IsFiniteSet(P) /\ \A x \in P : before[x] \in Nat
          <6>1. P \subseteq paid
            BY <5>1
          <6>2. QED  BY <2>3, <2>4, <6>1, FS_Subset
        <5>3. Total(before, P) \in Nat
          BY <5>2, TotalType
        <5>4. QED  BY <2>4, <5>1, <5>3 DEF PaidTo
      <4>3. QED  BY <4>1, <4>2, BattlesAssumption
    <3>7. QED  BY <3>1, <3>2, <3>3, <3>5, <3>6
  <2>8. QED  BY <2>1, <2>6, <2>7 DEF FundsInv
<1>4. QED  BY <1>2, <1>3

LEMMA FundsInit == BattlesInit => FundsInv
<1> SUFFICES ASSUME BattlesInit PROVE FundsInv
  OBVIOUS
<1>1. ASSUME NEW u \in Users, NEW status \in {"HELD", "CAPTURED"} PROVE Staked(u, status) = 0
  <2>1. \A s \in StakesOf(u, status) : FALSE
    BY DEF BattlesInit, StakesOf, Wallet!NoStake
  <2>2. QED  BY <2>1, TotalOfNothing DEF Staked
<1>2. ASSUME NEW u \in Users PROVE PaidTo(u) = 0
  BY TotalOfNothing DEF PaidTo, BattlesInit
<1>3. funds \in [Users -> [available : Nat, locked : Nat]]
  BY BattlesAssumption DEF BattlesInit
<1>4. \A u \in Users : funds[u].available = StartingFunds /\ funds[u].locked = 0
  BY DEF BattlesInit
<1>5. StartingFunds \in Nat
  BY BattlesAssumption
<1>6. FundsAddUp
  BY <1>1, <1>2, <1>4, <1>5 DEF FundsAddUp
<1>7. QED  BY <1>3, <1>6 DEF FundsInv

\* Holds, releases, captures and settlements move funds; the rest moves none.
LEMMA FundsStep == Shapes /\ FundsInv /\ [BattlesNext]_battlesVars => FundsInv'
<1> SUFFICES ASSUME Shapes, FundsInv, [BattlesNext]_battlesVars PROVE FundsInv'
  OBVIOUS
<1>1. CASE UNCHANGED <<funds, stake, paid>>
  BY <1>1, NothingPaid
<1>2. ASSUME NEW r \in BattleCalls, HoldStake(r) \/ CaptureStake(r) \/ ReleaseStake(r)
      PROVE  FundsInv'
  <2>1. calls[r].user \in Users /\ calls[r].seat \in Seats /\ UNCHANGED paid
    BY <1>2, EntryAt, SlotOfEntry DEF HoldStake, CaptureStake, ReleaseStake
  <2>2. \/ UNCHANGED <<funds, stake>>
        \/ Wallet!Hold(calls[r].user, calls[r].seat)
        \/ Wallet!Release(calls[r].user, calls[r].seat)
        \/ Wallet!Capture(calls[r].user, calls[r].seat)
    BY <1>2 DEF HoldStake, CaptureStake, ReleaseStake, fundsVars
  <2>3. QED  BY <1>1, <2>1, <2>2, StakeFunds
<1>3. ASSUME NEW r \in BattleCalls, CreateCall(r) \/ JoinCall(r) \/ BotCall(r) \/ StatementFails(r)
      PROVE  UNCHANGED <<funds, stake, paid>>
  BY <1>3 DEF CreateCall, JoinCall, BotCall, StatementFails, fundsVars
<1>4. ASSUME NEW r \in BattleCalls, HoldLookup(r) \/ CreateBattle(r) \/ ClaimSeat(r) \/ ReopenSeat(r)
      PROVE  UNCHANGED <<funds, stake, paid>>
  BY <1>4 DEF HoldLookup, CreateBattle, ClaimSeat, ReopenSeat, fundsVars
<1>5. ASSUME NEW r \in BattleCalls, DeleteBattle(r) \/ FillBot(r) \/ SettleLook(r) \/ SettleRead(r)
      PROVE  UNCHANGED <<funds, stake, paid>>
  BY <1>5 DEF DeleteBattle, FillBot, SettleLook, SettleRead, fundsVars
<1>6. ASSUME NEW r \in BattleCalls, SettleAborts(r)
      PROVE  UNCHANGED <<funds, stake, paid>>
  BY <1>6 DEF SettleAborts, fundsVars
<1>7. QED
  BY <1>1, <1>2, <1>3, <1>4, <1>5, <1>6, SettleFunds DEF BattlesNext, Serve, battlesVars

\* What a player has, with the stakes captured, is what it began with and what
\* was paid to it; what it has locked is what it has on hold.
THEOREM FundsAlwaysAddUp == BattlesSpec => []FundsAddUp
<1>1. StakesInv => Shapes
  BY DEF StakesInv
<1>2. FundsInv => FundsAddUp
  BY DEF FundsInv
<1>3. QED  BY <1>1, <1>2, StakesInit, StakesStep, FundsInit, FundsStep, PTL DEF BattlesSpec

-----------------------------------------------------------------------------
(***************************************************************************)
(* Mines and Cases on one wallet and one profile.  No seed and nonce decide *)
(* two boards or openings, finished games stay finished, and the balance   *)
(* is what games and openings left of it, for any number of games,         *)
(* openings, seeds, keys, cells, editions and requests.                    *)
(***************************************************************************)

GameRows ==
  [status : {"NONE", "ACTIVE", "LOST", "CASHED_OUT"}, key : Keys \cup {NoKey},
   seed : Nat, nonce : Nat, mines : SUBSET Cells, revealed : SUBSET Cells,
   hold : {"NONE", "HELD", "CAPTURED"}, payout : Nat]

WalletRow == [balance : Int, locked : Int]

Calls ==
  {Idle} \cup [pc : {"start"}, key : Keys]
         \cup [pc : {"pay"}, game : Games, seen : WalletRow]
         \cup [pc : {"rotate"}, seed : Seeds]
         \cup [pc : {"items"}, key : Keys, row : Editions]
         \cup [pc : {"open"}, key : Keys, row : Editions, items : Editions]

TypeOK ==
  /\ wallet \in WalletRow
  /\ profile \in [seed : Seeds, nonce : Nat]
  /\ seedStatus \in [Seeds -> {"NONE", "ACTIVE", "REVEALED"}]
  /\ game \in [Games -> GameRows]
  /\ req \in [Requests -> Calls]

\* A cashout that has locked its game finds it active, and no two lock one game.
LocksHold ==
  \A r \in Requests : req[r].pc = "pay" =>
    /\ game[req[r].game].status = "ACTIVE"
    /\ \A q \in Requests : req[q].pc = "pay" /\ req[q].game = req[r].game => q = r

\* Games use seeds that were generated; those of the profile's seed have taken
\* nonces below the next one.
NoncesTaken ==
  /\ seedStatus[profile.seed] # "NONE"
  /\ \A g \in Played :
       /\ game[g].seed \in Seeds /\ seedStatus[game[g].seed] # "NONE"
       /\ game[g].seed = profile.seed => game[g].nonce < profile.nonce

NothingRevealedYet == \A g \in Games \ Played : game[g].revealed = {}

RowsInv ==
  /\ NoncesTaken /\ NothingRevealedYet /\ BoardsDistinct
  /\ PaidByReveals /\ IsFiniteSet(Played)

GamesInv == TypeOK /\ LocksHold /\ RowsInv

Openings == [key : Keys, price : Nat, payout : Nat, seed : Seeds, nonce : Nat]

\* Openings have taken nonces below the next one, like the games.
OpeningsTaken ==
  \A o \in opened : /\ seedStatus[o.seed] # "NONE"
                    /\ o.seed = profile.seed => o.nonce < profile.nonce

OpeningsInv ==
  /\ shop \in [edition : Editions, active : BOOLEAN]
  /\ opened \in SUBSET Openings /\ IsFiniteSet(opened)
  /\ OpeningsTaken /\ OpeningsDistinct

BalanceInv == wallet.balance = Balance + MinesNet + CasesNet

IInv == GamesInv /\ OpeningsInv /\ BalanceInv

-----------------------------------------------------------------------------

\* What a set of revealed cells pays is a number.
LEMMA PayoutIsNat == ASSUME NEW S \in SUBSET Cells PROVE Payout(Cardinality(S)) \in Nat
<1>1. Cardinality(S) \in 0..Cardinality(Cells)
  BY MinesAssumption, FS_Subset, FS_CardinalityType
<1>2. Multiplier[Cardinality(S)] \in Nat /\ Bet \in Nat
  BY <1>1, MinesAssumption
<1>3. Bet * Multiplier[Cardinality(S)] \in Nat
  BY <1>2
<1>4. QED  BY <1>3 DEF Payout

\* The profile starts with a seed and no game.
LEMMA GamesInit == Init => GamesInv
<1> SUFFICES ASSUME Init PROVE GamesInv
  OBVIOUS
<1> USE DEF Init
<1>1. Balance \in Int
  BY MinesAssumption
<1>2. TypeOK
  BY <1>1, MinesAssumption DEF TypeOK, WalletRow, GameRows, NoGame, Calls
<1>3. Played = {}
  BY DEF Played, NoGame
<1>4. RowsInv
  BY <1>3, MinesAssumption, FS_EmptySet DEF RowsInv, NoncesTaken, NothingRevealedYet,
    BoardsDistinct, PaidByReveals, NoGame
<1>5. LocksHold
  BY DEF LocksHold, Idle
<1>6. QED  BY <1>2, <1>4, <1>5 DEF GamesInv

-----------------------------------------------------------------------------
(***************************************************************************)
(* What the steps do to the games.                                         *)
(***************************************************************************)

Worth(row) == IF row.status = "CASHED_OUT" THEN Payout(Cardinality(row.revealed)) ELSE 0

\* The row of game g after a reveal or a cashout, and what it is paid by then.
Continues(g, row) ==
  /\ game[g].status = "ACTIVE"
  /\ row.payout = Worth(row)
  /\ wallet' \in WalletRow /\ wallet'.balance = wallet.balance + row.payout
  /\ game' = [game EXCEPT ![g] = row]
  /\ row \in GameRows /\ row.status # "NONE"
  /\ row.key = game[g].key /\ row.seed = game[g].seed /\ row.nonce = game[g].nonce
  /\ game[g].revealed \subseteq row.revealed

\* Ending a game keeps the row's board and type.
LEMMA EndedRow ==
  ASSUME NEW row \in GameRows, NEW status \in {"LOST", "CASHED_OUT"}, NEW payout \in Nat
  PROVE  LET over == Ended(row, status, payout)
         IN /\ over \in GameRows /\ over.status = status
            /\ over.key = row.key /\ over.seed = row.seed /\ over.nonce = row.nonce
            /\ over.revealed = row.revealed /\ over.payout = payout
BY DEF Ended, GameRows

\* A reveal goes on with an active game that no cashout has locked.
LEMMA RevealContinues ==
  ASSUME TypeOK, PaidByReveals, NEW g \in Games, NEW cell \in Cells,
         HitMine(g, cell) \/ RevealSafe(g, cell)
  PROVE  /\ \E row : Continues(g, row)
         /\ Playable(g)
         /\ UNCHANGED <<profile, seedStatus, req>>
<1> game[g] \in GameRows /\ Bet \in Nat
  BY MinesAssumption DEF TypeOK
<1>1. CASE HitMine(g, cell)
  <2> DEFINE row == Ended(game[g], "LOST", 0)
  <2>1. /\ row \in GameRows /\ row.status = "LOST" /\ row.payout = 0
        /\ row.key = game[g].key /\ row.seed = game[g].seed /\ row.nonce = game[g].nonce
        /\ row.revealed = game[g].revealed
    BY EndedRow
  <2>2. /\ game[g].status = "ACTIVE" /\ game' = [game EXCEPT ![g] = row]
        /\ wallet' \in WalletRow /\ wallet'.balance = wallet.balance + 0
    BY <1>1 DEF HitMine, Playable, Captured, TypeOK, WalletRow
  <2> HIDE DEF row
  <2>3. Continues(g, row)
    BY <2>1, <2>2 DEF Continues, Worth
  <2>4. QED  BY <1>1, <2>3 DEF HitMine
<1>2. CASE RevealSafe(g, cell)
  <2> DEFINE revealed == game[g].revealed \cup {cell}
             shown == [game[g] EXCEPT !.revealed = revealed]
             payout == Payout(Cardinality(revealed))
  <2>1. revealed \in SUBSET Cells
    BY DEF GameRows
  <2>2. payout \in Nat
    BY <2>1, PayoutIsNat
  <2>3. shown \in GameRows
    BY <2>1 DEF GameRows
  <2>4. CASE revealed = Cells \ game[g].mines
    <3>1. /\ game' = [game EXCEPT ![g] = Ended(shown, "CASHED_OUT", payout)]
          /\ Captured(payout)
      BY <1>2, <2>4 DEF RevealSafe
    <3> DEFINE over == Ended(shown, "CASHED_OUT", payout)
    <3>a. /\ over \in GameRows /\ over.status = "CASHED_OUT"
          /\ over.key = shown.key /\ over.seed = shown.seed /\ over.nonce = shown.nonce
          /\ over.revealed = shown.revealed /\ over.payout = payout
      BY <2>2, <2>3, EndedRow
    <3>b. /\ shown.key = game[g].key /\ shown.seed = game[g].seed
          /\ shown.nonce = game[g].nonce /\ game[g].revealed \subseteq shown.revealed
          /\ shown.revealed = revealed
      BY DEF GameRows
    <3>c. game[g].status = "ACTIVE" /\ game' = [game EXCEPT ![g] = over]
      BY <1>2, <3>1 DEF RevealSafe, Playable
    <3>d. wallet' \in WalletRow /\ wallet'.balance = wallet.balance + payout
      BY <2>2, <3>1 DEF Captured, TypeOK, WalletRow
    <3>e. payout = Worth(over)
      BY <3>a, <3>b DEF Worth
    <3> HIDE DEF over, shown, payout
    <3>2. Continues(g, over)
      BY <3>a, <3>b, <3>c, <3>d, <3>e DEF Continues
    <3>3. QED  BY <1>2, <3>2 DEF RevealSafe
  <2>5. CASE revealed # Cells \ game[g].mines
    <3>1. game' = [game EXCEPT ![g] = shown] /\ wallet' = wallet
      BY <1>2, <2>5 DEF RevealSafe
    <3>2. game[g].status = "ACTIVE" /\ game[g].payout = 0
      BY <1>2 DEF RevealSafe, Playable, PaidByReveals, Played
    <3>3. /\ shown.status = "ACTIVE" /\ shown.payout = 0 /\ shown.key = game[g].key
          /\ shown.seed = game[g].seed /\ shown.nonce = game[g].nonce
          /\ game[g].revealed \subseteq shown.revealed
      BY <3>2 DEF GameRows
    <3>4. wallet' \in WalletRow /\ wallet'.balance = wallet.balance + 0
      BY <3>1 DEF TypeOK, WalletRow
    <3> HIDE DEF shown
    <3>5. Continues(g, shown)
      BY <2>3, <3>1, <3>2, <3>3, <3>4 DEF Continues, Worth
    <3>6. QED  BY <1>2, <3>5 DEF RevealSafe
  <2>6. QED  BY <2>4, <2>5
<1>3. QED  BY <1>1, <1>2

\* A cashout goes on with the game it has locked.
LEMMA CashoutContinues ==
  ASSUME TypeOK, LocksHold, NEW r \in Requests, CashoutPay(r)
  PROVE  /\ req[r].game \in Games
         /\ \E row : Continues(req[r].game, row)
<1> DEFINE g == req[r].game
           payout == Payout(Cardinality(game[g].revealed))
<1>1. req[r] \in [pc : {"pay"}, game : Games, seen : WalletRow]
  BY DEF CashoutPay, TypeOK, Calls, Idle
<1>2. g \in Games /\ game[g] \in GameRows /\ Bet \in Nat /\ req[r].seen \in WalletRow
  BY <1>1, MinesAssumption DEF TypeOK
<1>3. payout \in Nat
  BY <1>2, PayoutIsNat DEF GameRows
<1> HIDE DEF g, payout
<1> DEFINE row == Ended(game[g], "CASHED_OUT", payout)
<1>4. /\ row \in GameRows /\ row.status = "CASHED_OUT" /\ row.payout = payout
      /\ row.key = game[g].key /\ row.seed = game[g].seed /\ row.nonce = game[g].nonce
      /\ row.revealed = game[g].revealed
  BY <1>2, <1>3, EndedRow
<1>5. /\ game[g].status = "ACTIVE" /\ game' = [game EXCEPT ![g] = row]
      /\ wallet' \in WalletRow /\ wallet'.balance = wallet.balance + payout
  BY <1>2, <1>3 DEF CashoutPay, LocksHold, Paid, TypeOK, WalletRow, g, payout
<1>6. payout = Worth(row)
  BY <1>4 DEF Worth, payout
<1> HIDE DEF row
<1>7. Continues(g, row)
  BY <1>4, <1>5, <1>6 DEF Continues
<1>8. QED  BY <1>2, <1>7 DEF g

\* The game a start deals.
Dealt(key, mines) ==
  [NoGame EXCEPT !.status = "ACTIVE", !.key = key, !.hold = "HELD",
                 !.seed = profile.seed, !.nonce = profile.nonce, !.mines = mines]

\* A dealt game is well-formed and decided by the profile's seed and nonce.
LEMMA DealtRow ==
  ASSUME TypeOK, NEW key \in Keys, NEW mines \in SUBSET Cells
  PROVE  LET row == Dealt(key, mines)
         IN /\ row \in GameRows /\ row.status = "ACTIVE" /\ row.key = key
            /\ row.seed = profile.seed /\ row.nonce = profile.nonce /\ row.payout = 0
<1>1. NoGame \in GameRows
  BY DEF NoGame, GameRows
<1>2. profile.seed \in Nat /\ profile.nonce \in Nat
  BY MinesAssumption DEF TypeOK
<1>3. QED  BY <1>1, <1>2 DEF Dealt, NoGame, GameRows

\* A start deals one game with the next nonce of the active seed, or changes
\* nothing.
LEMMA StartDeals ==
  ASSUME TypeOK, NEW r \in Requests, StartGame(r)
  PROVE  /\ wallet' \in WalletRow
         /\ \/ UNCHANGED <<profile, wallet, game>>
            \/ \E g \in Games \ Played, mines \in SUBSET Cells :
                 /\ game' = [game EXCEPT ![g] = Dealt(req[r].key, mines)]
                 /\ req[r].key \in Keys /\ WithKey(req[r].key) = {}
                 /\ profile' = [profile EXCEPT !.nonce = @ + 1]
                 /\ wallet'.balance = wallet.balance - Bet
<1> req[r].pc = "start"
  BY DEF StartGame
<1>1. req[r] \in [pc : {"start"}, key : Keys]
  BY DEF TypeOK, Calls, Idle
<1>2. CASE Startable(r)
  <2>1. \E g \in {x \in Games : game[x].status = "NONE"}, mines \in Boards :
          /\ profile' = Advanced
          /\ wallet' = [balance |-> wallet.balance - Bet, locked |-> wallet.locked + Bet]
          /\ game' = [game EXCEPT ![g] = Dealt(req[r].key, mines)]
    BY <1>2 DEF StartGame, Dealt
  <2>2. PICK g \in {x \in Games : game[x].status = "NONE"}, mines \in Boards :
          /\ profile' = Advanced
          /\ wallet' = [balance |-> wallet.balance - Bet, locked |-> wallet.locked + Bet]
          /\ game' = [game EXCEPT ![g] = Dealt(req[r].key, mines)]
    BY <2>1
  <2>3. g \in Games \ Played /\ mines \in SUBSET Cells
    BY DEF Played, Boards
  <2>4. wallet' \in WalletRow /\ wallet'.balance = wallet.balance - Bet
    BY <2>2, MinesAssumption DEF TypeOK, WalletRow
  <2>5. QED  BY <1>1, <1>2, <2>2, <2>3, <2>4 DEF Startable, Advanced
<1>3. CASE ~Startable(r)
  BY <1>3 DEF StartGame, TypeOK
<1>4. QED  BY <1>2, <1>3

-----------------------------------------------------------------------------
(***************************************************************************)
(* The invariant.                                                          *)
(***************************************************************************)

\* A call moves on to another well-formed state.
LEMMA CallTyped ==
  ASSUME TypeOK, NEW r \in Requests, NEW call \in Calls, req' = [req EXCEPT ![r] = call]
  PROVE  req' \in [Requests -> Calls]
BY DEF TypeOK

\* A game that goes on stays well-formed.
LEMMA ContinuesTyped ==
  ASSUME TypeOK, NEW g \in Games, NEW row, Continues(g, row)
  PROVE  game' \in [Games -> GameRows]
BY DEF TypeOK, Continues

\* Types are kept by every step.
LEMMA TypeStep == TypeOK /\ LocksHold /\ PaidByReveals /\ [Next]_vars => TypeOK'
<1> SUFFICES ASSUME TypeOK, LocksHold, PaidByReveals, [Next]_vars PROVE TypeOK'
  OBVIOUS
<1>1. Idle \in Calls
  BY DEF Calls
<1>2. CASE UNCHANGED vars
  BY <1>2 DEF TypeOK, vars
<1>3. ASSUME NEW r \in Requests, StartCall(r) PROVE TypeOK'
  <2>1. PICK key \in Keys : req' = [req EXCEPT ![r] = [pc |-> "start", key |-> key]]
    BY <1>3 DEF StartCall
  <2>2. [pc |-> "start", key |-> key] \in Calls
    BY DEF Calls
  <2>3. QED  BY <1>3, <2>1, <2>2, CallTyped DEF StartCall, TypeOK
<1>4. ASSUME NEW r \in Requests, StartGame(r) PROVE TypeOK'
  <2>1. wallet' \in WalletRow
    BY <1>4, StartDeals
  <2>2. game' \in [Games -> GameRows] /\ profile' \in [seed : Seeds, nonce : Nat]
    <3>1. CASE UNCHANGED <<profile, game>>
      BY <3>1 DEF TypeOK
    <3>2. ASSUME NEW g \in Games, NEW mines \in SUBSET Cells,
                 game' = [game EXCEPT ![g] = Dealt(req[r].key, mines)],
                 req[r].key \in Keys, profile' = [profile EXCEPT !.nonce = @ + 1]
          PROVE  game' \in [Games -> GameRows] /\ profile' \in [seed : Seeds, nonce : Nat]
      BY <3>2, DealtRow DEF TypeOK
    <3>3. QED  BY <1>4, <3>1, <3>2, StartDeals DEF Played
  <2>3. req' \in [Requests -> Calls] /\ seedStatus' = seedStatus
    BY <1>1, <1>4, CallTyped DEF StartGame, Answer
  <2>4. QED  BY <2>1, <2>2, <2>3 DEF TypeOK
<1>5. ASSUME NEW r \in Requests, CashoutRead(r) PROVE TypeOK'
  <2>1. PICK g \in Games : req' = [req EXCEPT ![r] = [pc |-> "pay", game |-> g, seen |-> wallet]]
    BY <1>5 DEF CashoutRead
  <2>2. [pc |-> "pay", game |-> g, seen |-> wallet] \in Calls
    BY DEF Calls, TypeOK
  <2>3. QED  BY <1>5, <2>1, <2>2, CallTyped DEF CashoutRead, TypeOK
<1>6. ASSUME NEW r \in Requests, CashoutPay(r) PROVE TypeOK'
  <2>1. game' \in [Games -> GameRows] /\ wallet' \in WalletRow
    BY <1>6, CashoutContinues, ContinuesTyped DEF Continues
  <2>2. req' \in [Requests -> Calls]
    BY <1>1, <1>6, CallTyped DEF CashoutPay, Answer
  <2>3. QED  BY <1>6, <2>1, <2>2 DEF CashoutPay, TypeOK
<1>7. ASSUME NEW r \in Requests, RotateCount(r) PROVE TypeOK'
  <2>1. [pc |-> "rotate", seed |-> profile.seed] \in Calls
    BY DEF Calls, TypeOK
  <2>2. QED  BY <1>7, <2>1, CallTyped DEF RotateCount, TypeOK
<1>8. ASSUME NEW r \in Requests, Rotate(r) PROVE TypeOK'
  <2>1. req' \in [Requests -> Calls]
    BY <1>1, <1>8, CallTyped DEF Rotate, Answer
  <2>2. profile' \in [seed : Seeds, nonce : Nat]
    BY <1>8 DEF Rotate
  <2>3. seedStatus' \in [Seeds -> {"NONE", "ACTIVE", "REVEALED"}]
    BY <1>8 DEF Rotate, TypeOK
  <2>4. QED  BY <1>8, <2>1, <2>2, <2>3 DEF Rotate, TypeOK
<1>9. ASSUME NEW r \in Requests, Fail(r) PROVE TypeOK'
  BY <1>1, <1>9, CallTyped DEF Fail, Answer, TypeOK
<1>10. ASSUME NEW g \in Games, NEW cell \in Cells, HitMine(g, cell) \/ RevealSafe(g, cell)
       PROVE  TypeOK'
  BY <1>10, RevealContinues, ContinuesTyped DEF TypeOK, Continues
<1>11. QED
  BY <1>2, <1>3, <1>4, <1>5, <1>6, <1>7, <1>8, <1>9, <1>10 DEF Next

\* A call that locks no game any more, in a step that leaves the games of other
\* cashouts alone, keeps the locks.
LEMMA LocksKept ==
  ASSUME TypeOK, LocksHold, NEW r \in Requests, NEW call, call.pc # "pay",
         req' = [req EXCEPT ![r] = call],
         \A q \in Requests \ {r} : req[q].pc = "pay" => game'[req[q].game] = game[req[q].game]
  PROVE  LocksHold'
<1>1. \A q \in Requests : req'[q].pc = "pay" => q # r /\ req'[q] = req[q]
  BY DEF TypeOK
<1>2. QED  BY <1>1 DEF LocksHold

\* The row lock keeps a cashout's game active and its own.
LEMMA LocksStep == TypeOK /\ LocksHold /\ PaidByReveals /\ [Next]_vars => LocksHold'
<1> SUFFICES ASSUME TypeOK, LocksHold, PaidByReveals, [Next]_vars PROVE LocksHold'
  OBVIOUS
<1>1. CASE UNCHANGED vars
  BY <1>1 DEF LocksHold, vars
<1>2. ASSUME NEW r \in Requests, StartCall(r) \/ RotateCount(r) PROVE LocksHold'
  <2>1. /\ game' = game
        /\ \E call : call.pc # "pay" /\ req' = [req EXCEPT ![r] = call]
    BY <1>2 DEF StartCall, RotateCount
  <2>2. QED  BY <2>1, LocksKept
<1>3. ASSUME NEW r \in Requests, Rotate(r) \/ Fail(r) PROVE LocksHold'
  BY <1>3, LocksKept DEF Rotate, Fail, Answer, Idle
<1>4. ASSUME NEW r \in Requests, StartGame(r) PROVE LocksHold'
  <2>1. \A q \in Requests : req[q].pc = "pay" => game'[req[q].game] = game[req[q].game]
    <3>1. \A q \in Requests : req[q].pc = "pay" =>
             req[q].game \in Games /\ game[req[q].game].status = "ACTIVE"
      BY DEF LocksHold, TypeOK, Calls, Idle
    <3>2. \A h \in Played : game'[h] = game[h]
      BY <1>4, StartDeals DEF TypeOK, Played
    <3>3. QED  BY <3>1, <3>2 DEF Played
  <2>2. QED  BY <1>4, <2>1, LocksKept DEF StartGame, Answer, Idle
<1>5. ASSUME NEW r \in Requests, CashoutRead(r) PROVE LocksHold'
  <2>1. PICK g \in Games : /\ Playable(g)
                          /\ req' = [req EXCEPT ![r] = [pc |-> "pay", game |-> g, seen |-> wallet]]
    BY <1>5 DEF CashoutRead
  <2>2. /\ req'[r].pc = "pay" /\ req'[r].game = g
        /\ \A q \in Requests \ {r} : req'[q] = req[q]
    BY <2>1 DEF TypeOK
  <2>3. \A q \in Requests : req[q].pc = "pay" => req[q].game # g
    BY <2>1 DEF Playable, Locked
  <2>4. QED  BY <1>5, <2>1, <2>2, <2>3 DEF CashoutRead, Playable, LocksHold
<1>6. ASSUME NEW r \in Requests, CashoutPay(r) PROVE LocksHold'
  <2>1. \A h \in Games \ {req[r].game} : game'[h] = game[h]
    BY <1>6, CashoutContinues DEF Continues, TypeOK
  <2>2. \A q \in Requests \ {r} : req[q].pc = "pay" => req[q].game \in Games \ {req[r].game}
    BY <1>6 DEF CashoutPay, LocksHold, TypeOK, Calls, Idle
  <2>3. QED  BY <1>6, <2>1, <2>2, LocksKept DEF CashoutPay, Answer, Idle
<1>7. ASSUME NEW g \in Games, NEW cell \in Cells, HitMine(g, cell) \/ RevealSafe(g, cell)
      PROVE  LocksHold'
  <2>1. req' = req /\ Playable(g) /\ \A h \in Games \ {g} : game'[h] = game[h]
    BY <1>7, RevealContinues DEF Continues, TypeOK
  <2>2. \A q \in Requests : req[q].pc = "pay" => req[q].game \in Games \ {g}
    BY <2>1 DEF Playable, Locked, TypeOK, Calls, Idle
  <2>3. QED  BY <2>1, <2>2 DEF LocksHold
<1>8. QED
  BY <1>1, <1>2, <1>3, <1>4, <1>5, <1>6, <1>7 DEF Next

\* Reveals and cashouts leave boards and keys alone.
LEMMA BoardsKept ==
  ASSUME GamesInv, NEW g \in Games, NEW row, Continues(g, row), UNCHANGED <<profile, seedStatus>>
  PROVE  RowsInv'
<1>1. \A h \in Games :
        /\ game'[h].status = "NONE" <=> game[h].status = "NONE"
        /\ game'[h].key = game[h].key
        /\ game'[h].seed = game[h].seed
        /\ game'[h].nonce = game[h].nonce
        /\ game[h].status = "NONE" => game'[h] = game[h]
  BY DEF GamesInv, TypeOK, Continues
<1>2. Played' = Played
  BY <1>1 DEF Played
<1>3. NoncesTaken'
  BY <1>1, <1>2 DEF GamesInv, RowsInv, NoncesTaken, Played
<1>4. NothingRevealedYet'
  BY <1>1, <1>2 DEF GamesInv, RowsInv, NothingRevealedYet, Played
<1>5. BoardsDistinct'
  BY <1>1, <1>2 DEF GamesInv, RowsInv, BoardsDistinct, Played
<1>6. PaidByReveals'
  <2>1. game'[g] = row /\ \A h \in Games \ {g} : game'[h] = game[h]
    BY DEF GamesInv, TypeOK, Continues
  <2>2. row.payout = Worth(row) /\ \A h \in Played : game[h].payout = Worth(game[h])
    BY DEF Continues, Worth, GamesInv, RowsInv, PaidByReveals
  <2>3. \A h \in Played' : game'[h].payout = Worth(game'[h])
    BY <1>2, <2>1, <2>2 DEF Played
  <2>4. QED  BY <2>3 DEF PaidByReveals, Worth
<1>7. QED  BY <1>2, <1>3, <1>4, <1>5, <1>6 DEF GamesInv, RowsInv

\* A start takes a nonce no game of the seed has, and a key no game has.
LEMMA BoardsStarted ==
  ASSUME GamesInv, NEW r \in Requests, StartGame(r)
  PROVE  RowsInv'
<1> USE DEF GamesInv, RowsInv
<1>1. seedStatus' = seedStatus
  BY DEF StartGame
<1>2. CASE UNCHANGED <<profile, game>>
  BY <1>1, <1>2 DEF NoncesTaken, NothingRevealedYet, BoardsDistinct, PaidByReveals, Played
<1>3. ASSUME NEW g \in Games \ Played, NEW mines \in SUBSET Cells,
             game' = [game EXCEPT ![g] = Dealt(req[r].key, mines)],
             req[r].key \in Keys, WithKey(req[r].key) = {},
             profile' = [profile EXCEPT !.nonce = @ + 1]
      PROVE  RowsInv'
  <2>1. /\ game'[g].status = "ACTIVE" /\ game'[g].key = req[r].key
        /\ game'[g].seed = profile.seed /\ game'[g].nonce = profile.nonce
        /\ game'[g].payout = 0
        /\ \A h \in Games \ {g} : game'[h] = game[h]
    BY <1>3, DealtRow DEF TypeOK
  <2>2. Played' = Played \cup {g}
    BY <2>1 DEF Played
  <2>3. profile'.seed = profile.seed /\ profile'.nonce = profile.nonce + 1
        /\ profile.nonce \in Nat /\ profile.seed \in Seeds
    BY <1>3 DEF TypeOK
  <2>4. \A h \in Played : h \in Games \ {g} /\ game'[h] = game[h] /\ game[h].nonce \in Nat
    BY <2>1 DEF Played, TypeOK, GameRows
  <2>5. NoncesTaken'
    BY <1>1, <2>1, <2>2, <2>3, <2>4 DEF NoncesTaken
  <2>6. NothingRevealedYet'
    BY <2>1, <2>2 DEF NothingRevealedYet
  <2>7. \A h \in Played :
          /\ game[h].key # req[r].key
          /\ game[h].seed = profile.seed => game[h].nonce # profile.nonce
    BY <1>3, <2>3, <2>4 DEF WithKey, NoncesTaken, Played
  <2>8. BoardsDistinct'
    <3> SUFFICES ASSUME NEW x \in Played', NEW y \in Played', x # y
                 PROVE  /\ game'[x].seed = game'[y].seed => game'[x].nonce # game'[y].nonce
                        /\ game'[x].key # game'[y].key
      <4>1. ASSUME NEW a, NEW b, NEW c, NEW d, a = c => b # d PROVE <<a, b>> # <<c, d>>
        BY <4>1
      <4>2. QED  BY <4>1 DEF BoardsDistinct
    <3>1. CASE x = g
      <4>1. y \in Played /\ game'[y] = game[y]
        BY <2>2, <2>4, <3>1
      <4>2. game[y].key # game'[g].key
            /\ (game[y].seed = game'[g].seed => game[y].nonce # game'[g].nonce)
        BY <2>1, <2>7, <4>1
      <4>3. QED  BY <3>1, <4>1, <4>2
    <3>2. CASE y = g
      <4>1. x \in Played /\ game'[x] = game[x]
        BY <2>2, <2>4, <3>2
      <4>2. game[x].key # game'[g].key
            /\ (game[x].seed = game'[g].seed => game[x].nonce # game'[g].nonce)
        BY <2>1, <2>7, <4>1
      <4>3. QED  BY <3>2, <4>1, <4>2
    <3>3. CASE x # g /\ y # g
      BY <2>2, <2>4, <3>3 DEF BoardsDistinct
    <3>4. QED  BY <3>1, <3>2, <3>3
  <2>9. PaidByReveals' /\ IsFiniteSet(Played')
    BY <2>1, <2>2, <2>4, FS_AddElement DEF PaidByReveals
  <2>10. QED  BY <2>5, <2>6, <2>8, <2>9
<1>4. QED
  BY <1>2, <1>3, StartDeals

\* A rotation starts over with a seed no game has used.
LEMMA BoardsRotated ==
  ASSUME GamesInv, NEW r \in Requests, Rotate(r)
  PROVE  RowsInv'
<1>1. PICK s \in Seeds :
        /\ seedStatus[s] = "NONE"
        /\ seedStatus' = [seedStatus EXCEPT ![s] = "ACTIVE", ![req[r].seed] = "REVEALED"]
        /\ profile' = [seed |-> s, nonce |-> 0]
  BY DEF Rotate
<1>2. seedStatus'[s] # "NONE" /\ \A x \in Seeds : seedStatus[x] # "NONE" => seedStatus'[x] # "NONE"
  BY <1>1 DEF GamesInv, TypeOK
<1>3. game' = game
  BY DEF Rotate
<1>4. NoncesTaken'
  BY <1>1, <1>2, <1>3 DEF GamesInv, RowsInv, NoncesTaken, Played
<1>5. (NothingRevealedYet /\ BoardsDistinct /\ PaidByReveals)' /\ Played' = Played
  BY <1>3 DEF GamesInv, RowsInv, NothingRevealedYet, BoardsDistinct, PaidByReveals, Played
<1>6. QED  BY <1>4, <1>5 DEF GamesInv, RowsInv

\* Boards and keys stay distinct in every step.
LEMMA BoardsStep == GamesInv /\ [Next]_vars => RowsInv'
<1> SUFFICES ASSUME GamesInv, [Next]_vars PROVE RowsInv'
  OBVIOUS
<1>1. CASE UNCHANGED <<profile, seedStatus, game>>
  BY <1>1 DEF GamesInv, RowsInv, NoncesTaken, NothingRevealedYet, BoardsDistinct, PaidByReveals,
    Played
<1>2. ASSUME NEW r \in Requests, CashoutPay(r)
      PROVE  RowsInv'
  BY <1>2, CashoutContinues, BoardsKept DEF GamesInv, CashoutPay
<1>3. ASSUME NEW g \in Games, NEW cell \in Cells, HitMine(g, cell) \/ RevealSafe(g, cell)
      PROVE  RowsInv'
  BY <1>3, RevealContinues, BoardsKept DEF GamesInv, RowsInv
<1>4. QED
  BY <1>1, <1>2, <1>3, BoardsStarted, BoardsRotated
  DEF Next, vars, StartCall, CashoutRead, RotateCount, Fail

\* The invariant of starts, reveals, cashouts and rotations alone.
LEMMA GamesStep == GamesInv /\ [Next]_vars => GamesInv'
BY TypeStep, LocksStep, BoardsStep DEF GamesInv, RowsInv

-----------------------------------------------------------------------------
(***************************************************************************)
(* What openings leave to the games.                                       *)
(***************************************************************************)

\* A step of an opening or of an administrator that leaves the profile alone.
Shopping ==
  \/ \E r \in Requests : OpenCall(r) \/ OpenLook(r)
  \/ UpsertCase \/ SetCaseActive

\* What a call that is opening a case knows.
LEMMA OpenKnows ==
  ASSUME TypeOK, NEW r \in Requests, Open(r)
  PROVE  /\ req[r] \in [pc : {"open"}, key : Keys, row : Editions, items : Editions]
         /\ Price[req[r].row] \in Nat
         /\ Values[req[r].items] \in SUBSET Nat
<1>1. req[r].pc = "open" /\ req[r] \in Calls
  BY DEF Open, TypeOK
<1>2. req[r] \in [pc : {"open"}, key : Keys, row : Editions, items : Editions]
  BY <1>1 DEF Calls, Idle
<1>3. QED  BY <1>2, CasesAssumption

\* A call of openCase keeps the games, and takes a nonce from them at most.
LEMMA CallsTyped ==
  ASSUME TypeOK, shop.edition \in Editions, NEW r \in Requests, CasesStep(r)
  PROVE  \E call \in Calls : call.pc # "pay" /\ req' = [req EXCEPT ![r] = call]
<1> Idle \in Calls /\ Idle.pc # "pay"
  BY DEF Calls, Idle
<1>1. CASE OpenCall(r)
  <2>1. PICK key \in Keys :
          req' = [req EXCEPT ![r] = [pc |-> "items", key |-> key, row |-> shop.edition]]
    BY <1>1 DEF OpenCall
  <2>2. [pc |-> "items", key |-> key, row |-> shop.edition] \in Calls
    BY DEF Calls
  <2>3. QED  BY <2>1, <2>2
<1>2. CASE OpenLook(r)
  <2>1. req[r] \in [pc : {"items"}, key : Keys, row : Editions]
    BY <1>2 DEF OpenLook, TypeOK, Calls, Idle
  <2> DEFINE call == [pc |-> "open", key |-> req[r].key, row |-> req[r].row, items |-> shop.edition]
  <2>2. call \in Calls /\ call.pc # "pay"
    BY <2>1 DEF Calls
  <2>3. Answer(r) \/ req' = [req EXCEPT ![r] = call]
    BY <1>2 DEF OpenLook, TypeOK
  <2> HIDE DEF call
  <2>4. QED  BY <2>2, <2>3 DEF Answer
<1>3. CASE Open(r)
  BY <1>3 DEF Open, Answer
<1>4. QED  BY <1>1, <1>2, <1>3 DEF CasesStep

\* An opening posts one row, under a fresh key and the next nonce.
LEMMA OpenPosts ==
  ASSUME TypeOK, NEW r \in Requests, Open(r)
  PROVE  \E row \in Openings :
           /\ opened' = opened \cup {row}
           /\ row.key = req[r].key /\ KeyFree(row.key)
           /\ row.seed = profile.seed /\ row.nonce = profile.nonce
           /\ wallet' \in WalletRow
           /\ wallet'.balance = wallet.balance - row.price + row.payout
<1>1. /\ req[r].key \in Keys /\ Price[req[r].row] \in Nat
      /\ Values[req[r].items] \in SUBSET Nat
  BY OpenKnows
<1>2. PICK value \in Values[req[r].items] :
        /\ wallet' = [wallet EXCEPT !.balance = @ - Price[req[r].row] + value]
        /\ opened' = opened \cup
             {[key |-> req[r].key, price |-> Price[req[r].row], payout |-> value,
               seed |-> profile.seed, nonce |-> profile.nonce]}
  BY DEF Open
<1> DEFINE row == [key |-> req[r].key, price |-> Price[req[r].row], payout |-> value,
                   seed |-> profile.seed, nonce |-> profile.nonce]
<1>3. row \in Openings
  BY <1>1 DEF Openings, TypeOK
<1>4. wallet' \in WalletRow /\ wallet'.balance = wallet.balance - row.price + row.payout
  BY <1>1, <1>2 DEF TypeOK, WalletRow
<1>5. KeyFree(row.key)
  BY DEF Open
<1>6. QED  BY <1>2, <1>3, <1>4, <1>5

\* The games' part of the invariant survives openings and edits of the case.
LEMMA GamesBesideCases ==
  ASSUME GamesInv, shop.edition \in Editions,
         Shopping \/ \E r \in Requests : Open(r)
  PROVE  GamesInv'
<1> USE DEF GamesInv
<1>1. game' = game /\ seedStatus' = seedStatus
  BY DEF Shopping, OpenCall, OpenLook, Open, UpsertCase, SetCaseActive, vars
<1>2. \/ req' = req
      \/ \E r \in Requests, call \in Calls : call.pc # "pay" /\ req' = [req EXCEPT ![r] = call]
  BY CallsTyped DEF Shopping, CasesStep, UpsertCase, SetCaseActive, vars
<1>3. req' \in [Requests -> Calls] /\ LocksHold'
  <2>1. CASE req' = req
    BY <1>1, <2>1 DEF TypeOK, LocksHold
  <2>2. ASSUME NEW r \in Requests, NEW call \in Calls, call.pc # "pay",
               req' = [req EXCEPT ![r] = call]
        PROVE  req' \in [Requests -> Calls] /\ LocksHold'
    BY <1>1, <2>2, CallTyped, LocksKept
  <2>3. QED  BY <1>2, <2>1, <2>2
<1>4. /\ wallet' \in WalletRow /\ profile' \in [seed : Seeds, nonce : Nat]
      /\ profile'.seed = profile.seed /\ profile'.nonce >= profile.nonce
  <2>1. CASE Shopping
    BY <2>1 DEF Shopping, OpenCall, OpenLook, UpsertCase, SetCaseActive, vars, TypeOK
  <2>2. ASSUME NEW r \in Requests, Open(r)
        PROVE  wallet' \in WalletRow /\ profile' = [profile EXCEPT !.nonce = @ + 1]
    BY <2>2, OpenPosts DEF Open, Advanced
  <2>3. QED  BY <2>1, <2>2 DEF TypeOK
<1>5. TypeOK'
  BY <1>1, <1>3, <1>4 DEF TypeOK
<1>6. NoncesTaken'
  <2>1. \A g \in Played : game[g].nonce \in Nat
    BY DEF TypeOK, GameRows, Played
  <2>2. QED  BY <1>1, <1>4, <2>1 DEF RowsInv, NoncesTaken, Played, TypeOK
<1>7. (NothingRevealedYet /\ BoardsDistinct /\ PaidByReveals)' /\ Played' = Played
  BY <1>1 DEF RowsInv, NothingRevealedYet, BoardsDistinct, PaidByReveals, Played
<1>8. QED  BY <1>3, <1>5, <1>6, <1>7 DEF RowsInv

-----------------------------------------------------------------------------
(***************************************************************************)
(* Openings and the balance.                                               *)
(***************************************************************************)

\* A step that leaves boards, openings, funds and the profile alone.
Quiet == UNCHANGED <<wallet, profile, seedStatus, game, opened>>

\* What a step of the composition is: it is quiet, or goes on with a game,
\* starts one, rotates the seed, or opens a case.
LEMMA StepKinds ==
  ASSUME GamesInv, [CasesNext]_allVars
  PROVE  \/ Quiet
         \/ /\ UNCHANGED <<profile, seedStatus, opened>>
            /\ \E g \in Games, row \in GameRows : Continues(g, row)
         \/ /\ UNCHANGED <<seedStatus, opened>>
            /\ \E r \in Requests : StartGame(r) /\ ~KeyTaken(r)
         \/ /\ UNCHANGED <<wallet, game, opened>>
            /\ \E r \in Requests : Rotate(r)
         \/ /\ UNCHANGED <<seedStatus, game, shop>>
            /\ \E r \in Requests : Open(r)
<1> USE DEF GamesInv, RowsInv
<1>1. CASE UNCHANGED allVars
  BY <1>1 DEF allVars, vars, caseVars, Quiet
<1>2. ASSUME NEW r \in Requests, OpenCall(r) \/ OpenLook(r) PROVE Quiet
  BY <1>2 DEF OpenCall, OpenLook, caseVars, Quiet
<1>3. ASSUME NEW r \in Requests, Open(r) PROVE UNCHANGED <<seedStatus, game, shop>>
  BY <1>3 DEF Open
<1>4. ASSUME NEW r \in Requests, StartGame(r), UNCHANGED caseVars
      PROVE  UNCHANGED <<seedStatus, opened>>
  BY <1>4 DEF StartGame, caseVars
<1>5. ASSUME NEW r \in Requests, StartCall(r) \/ CashoutRead(r) \/ RotateCount(r) \/ Fail(r),
             UNCHANGED caseVars
      PROVE  Quiet
  BY <1>5 DEF StartCall, CashoutRead, RotateCount, Fail, caseVars, Quiet
<1>6. ASSUME NEW r \in Requests, Rotate(r), UNCHANGED caseVars
      PROVE  UNCHANGED <<wallet, game, opened>>
  BY <1>6 DEF Rotate, caseVars
<1>7. ASSUME NEW r \in Requests, CashoutPay(r), UNCHANGED caseVars
      PROVE  /\ UNCHANGED <<profile, seedStatus, opened>>
             /\ \E g \in Games, row \in GameRows : Continues(g, row)
  <2>1. req[r].game \in Games /\ \E row : Continues(req[r].game, row)
    BY <1>7, CashoutContinues
  <2>2. QED  BY <1>7, <2>1 DEF CashoutPay, caseVars, Continues
<1>8. ASSUME NEW g \in Games, NEW cell \in Cells, HitMine(g, cell) \/ RevealSafe(g, cell),
             UNCHANGED caseVars
      PROVE  /\ UNCHANGED <<profile, seedStatus, opened>>
             /\ \E h \in Games, row \in GameRows : Continues(h, row)
  <2>1. (\E row : Continues(g, row)) /\ UNCHANGED <<profile, seedStatus, req>>
    BY <1>8, RevealContinues
  <2>2. QED  BY <1>8, <2>1 DEF caseVars, Continues
<1>9. CASE UpsertCase \/ SetCaseActive
  BY <1>9 DEF UpsertCase, SetCaseActive, vars, Quiet
<1>10. CASE CasesNext
  BY <1>2, <1>3, <1>4, <1>5, <1>6, <1>7, <1>8, <1>9, <1>10 DEF CasesNext, CasesStep
<1>11. QED  BY <1>1, <1>10

\* The games' part of the invariant holds beside the openings.
LEMMA GamesHold == GamesInv /\ shop.edition \in Editions /\ [CasesNext]_allVars => GamesInv'
<1> SUFFICES ASSUME GamesInv, shop.edition \in Editions, [CasesNext]_allVars PROVE GamesInv'
  OBVIOUS
<1>1. CASE [Next]_vars
  BY <1>1, GamesStep
<1>2. CASE Shopping \/ \E r \in Requests : Open(r)
  BY <1>2, GamesBesideCases
<1>3. [Next]_vars \/ Shopping \/ \E r \in Requests : Open(r)
  BY DEF CasesNext, CasesStep, Next, Shopping, allVars
<1>4. QED  BY <1>1, <1>2, <1>3

\* The case's row stays one of its editions.
LEMMA ShopStep ==
  ASSUME shop \in [edition : Editions, active : BOOLEAN], [CasesNext]_allVars
  PROVE  shop' \in [edition : Editions, active : BOOLEAN]
<1>1. CASE shop' = shop
  BY <1>1
<1>2. CASE UpsertCase
  <2>1. PICK n \in Editions, active \in BOOLEAN : shop' = [edition |-> n, active |-> active]
    BY <1>2 DEF UpsertCase
  <2>2. QED  BY <2>1
<1>3. CASE SetCaseActive
  <2>1. shop' = [shop EXCEPT !.active = ~shop.active]
    BY <1>3 DEF SetCaseActive
  <2>2. QED  BY <2>1
<1>4. QED
  BY <1>1, <1>2, <1>3 DEF CasesNext, CasesStep, OpenCall, OpenLook, Open, allVars, caseVars

\* Two rows apart are apart either way.
LEMMA ApartBoth == ASSUME NEW x, NEW y, Apart(x, y) PROVE Apart(y, x)
BY DEF Apart

\* A row under a fresh key and nonce is apart from the openings and the games.
LEMMA FreshApart ==
  ASSUME GamesInv, OpeningsInv, NEW row,
         OpenedWith(row.key) = {},
         row.seed = profile.seed, row.nonce = profile.nonce
  PROVE  /\ \A o \in opened : Apart(o, row)
         /\ WithKey(row.key) = {} => \A g \in Played : Apart(game[g], row)
<1>1. ASSUME NEW o \in opened PROVE Apart(o, row)
  <2>1. o.key # row.key
    BY DEF OpenedWith
  <2>2. o.seed = row.seed => o.nonce # row.nonce
    <3>1. o.nonce \in Nat /\ profile.nonce \in Nat
      BY DEF OpeningsInv, Openings, GamesInv, TypeOK
    <3>2. QED  BY <3>1 DEF OpeningsInv, OpeningsTaken
  <2>3. QED  BY <2>1, <2>2 DEF Apart
<1>2. ASSUME WithKey(row.key) = {}, NEW g \in Played PROVE Apart(game[g], row)
  <2>1. game[g].key # row.key
    BY <1>2 DEF WithKey, Played
  <2>2. game[g].seed = row.seed => game[g].nonce # row.nonce
    <3>1. game[g].nonce \in Nat /\ profile.nonce \in Nat
      BY DEF GamesInv, TypeOK, GameRows, Played
    <3>2. QED  BY <3>1 DEF GamesInv, RowsInv, NoncesTaken
  <2>3. QED  BY <2>1, <2>2 DEF Apart
<1>3. QED  BY <1>1, <1>2

\* Openings stay apart from each other and from the games.
LEMMA OpeningsStep == GamesInv /\ OpeningsInv /\ [CasesNext]_allVars => OpeningsInv'
<1> SUFFICES ASSUME GamesInv, OpeningsInv, [CasesNext]_allVars PROVE OpeningsInv'
  OBVIOUS
<1>1. shop' \in [edition : Editions, active : BOOLEAN]
  BY ShopStep DEF OpeningsInv
<1>2. CASE Quiet
  BY <1>1, <1>2 DEF Quiet, OpeningsInv, OpeningsTaken, OpeningsDistinct, Played
<1>3. ASSUME UNCHANGED <<profile, seedStatus, opened>>,
             NEW g \in Games, NEW row \in GameRows, Continues(g, row)
      PROVE  OpeningsInv'
  <2>1. \A h \in Games : /\ game'[h].status = "NONE" <=> game[h].status = "NONE"
                         /\ game'[h].key = game[h].key
                         /\ game'[h].seed = game[h].seed
                         /\ game'[h].nonce = game[h].nonce
    BY <1>3 DEF GamesInv, TypeOK, Continues
  <2>2. Played' = Played
    BY <2>1 DEF Played
  <2>3. OpeningsDistinct'
    BY <1>3, <2>1, <2>2 DEF OpeningsInv, OpeningsDistinct, Apart, Played
  <2>4. QED  BY <1>1, <1>3, <2>3 DEF OpeningsInv, OpeningsTaken
<1>4. ASSUME NEW r \in Requests, StartGame(r), ~KeyTaken(r), UNCHANGED <<seedStatus, opened>>
      PROVE  OpeningsInv'
  <2>1. CASE UNCHANGED <<profile, wallet, game>>
    BY <1>1, <1>4, <2>1 DEF OpeningsInv, OpeningsTaken, OpeningsDistinct, Played
  <2>2. ASSUME NEW g \in Games \ Played, NEW mines \in SUBSET Cells,
               game' = [game EXCEPT ![g] = Dealt(req[r].key, mines)],
               req[r].key \in Keys, profile' = [profile EXCEPT !.nonce = @ + 1]
        PROVE  OpeningsInv'
    <3> DEFINE row == Dealt(req[r].key, mines)
    <3>1. /\ row.key = req[r].key /\ row.seed = profile.seed /\ row.nonce = profile.nonce
          /\ row.status = "ACTIVE"
      BY <2>2, DealtRow DEF GamesInv
    <3> HIDE DEF row
    <3>2. OpenedWith(row.key) = {}
      BY <1>4, <3>1 DEF KeyTaken, StartGame
    <3>3. \A o \in opened : Apart(o, row)
      BY <3>1, <3>2, FreshApart
    <3>4. game'[g] = row /\ \A h \in Games \ {g} : game'[h] = game[h]
      BY <2>2 DEF GamesInv, TypeOK, row
    <3>5. Played' = Played \cup {g}
      BY <3>1, <3>4 DEF Played
    <3>6. OpeningsDistinct'
      BY <1>4, <3>3, <3>4, <3>5 DEF OpeningsInv, OpeningsDistinct, Played
    <3>7. OpeningsTaken'
      <4>1. /\ profile'.seed = profile.seed /\ profile'.nonce = profile.nonce + 1
            /\ profile.nonce \in Nat
        BY <2>2 DEF GamesInv, TypeOK
      <4>2. \A o \in opened : o.nonce \in Nat
        BY DEF OpeningsInv, Openings
      <4>3. QED  BY <1>4, <4>1, <4>2 DEF OpeningsInv, OpeningsTaken
    <3>8. QED  BY <1>1, <1>4, <3>6, <3>7 DEF OpeningsInv
  <2>3. QED  BY <1>4, <2>1, <2>2, StartDeals DEF GamesInv
<1>5. ASSUME NEW r \in Requests, Rotate(r), UNCHANGED <<wallet, game, opened>>
      PROVE  OpeningsInv'
  <2>1. PICK s \in Seeds :
          /\ seedStatus[s] = "NONE"
          /\ seedStatus' = [seedStatus EXCEPT ![s] = "ACTIVE", ![req[r].seed] = "REVEALED"]
          /\ profile' = [seed |-> s, nonce |-> 0]
    BY <1>5 DEF Rotate
  <2>2. \A x \in Seeds : seedStatus[x] # "NONE" => seedStatus'[x] # "NONE"
    BY <2>1 DEF GamesInv, TypeOK
  <2>3. \A o \in opened : o.seed \in Seeds
    BY DEF OpeningsInv, Openings
  <2>4. OpeningsTaken'
    BY <1>5, <2>1, <2>2, <2>3 DEF OpeningsInv, OpeningsTaken
  <2>5. OpeningsDistinct'
    BY <1>5 DEF OpeningsInv, OpeningsDistinct, Played
  <2>6. QED  BY <1>1, <1>5, <2>4, <2>5 DEF OpeningsInv
<1>6. ASSUME NEW r \in Requests, Open(r), UNCHANGED <<seedStatus, game, shop>>
      PROVE  OpeningsInv'
  <2>1. PICK row \in Openings :
          /\ opened' = opened \cup {row}
          /\ KeyFree(row.key)
          /\ row.seed = profile.seed /\ row.nonce = profile.nonce
    BY <1>6, OpenPosts DEF GamesInv
  <2>2. /\ \A o \in opened : Apart(o, row) /\ Apart(row, o)
        /\ \A g \in Played : Apart(row, game[g])
    BY <2>1, FreshApart, ApartBoth DEF KeyFree
  <2>3. Played' = Played /\ \A g \in Played : game'[g] = game[g]
    BY <1>6 DEF Played
  <2>4. OpeningsDistinct'
    BY <2>1, <2>2, <2>3 DEF OpeningsInv, OpeningsDistinct
  <2>5. OpeningsTaken'
    <3>1. /\ profile'.seed = profile.seed /\ profile'.nonce = profile.nonce + 1
          /\ profile.nonce \in Nat
      BY <1>6 DEF Open, Advanced, GamesInv, TypeOK
    <3>2. \A o \in opened : o.nonce \in Nat
      BY DEF OpeningsInv, Openings
    <3>3. seedStatus[profile.seed] # "NONE"
      BY DEF GamesInv, RowsInv, NoncesTaken
    <3>4. QED  BY <1>6, <2>1, <3>1, <3>2, <3>3 DEF OpeningsInv, OpeningsTaken
  <2>6. opened' \in SUBSET Openings /\ IsFiniteSet(opened')
    BY <2>1, FS_AddElement DEF OpeningsInv
  <2>7. QED  BY <1>1, <2>4, <2>5, <2>6 DEF OpeningsInv
<1>7. QED  BY <1>2, <1>3, <1>4, <1>5, <1>6, StepKinds

\* What the games were paid, and what the openings paid and took.
PayoutOf == [g \in Games |-> game[g].payout]
WonOf == [o \in opened |-> o.payout]
PriceOf == [o \in opened |-> o.price]

\* Sums of games and openings are numbers.
LEMMA NetsType ==
  ASSUME GamesInv, OpeningsInv
  PROVE  /\ MinesNet \in Int /\ CasesNet \in Int
         /\ Total(PayoutOf, Played) \in Nat /\ Cardinality(Played) \in Nat
         /\ Total(WonOf, opened) \in Nat /\ Total(PriceOf, opened) \in Nat
<1>1. \A g \in Played : PayoutOf[g] \in Nat
  BY DEF GamesInv, TypeOK, GameRows, Played, PayoutOf
<1>2. \A o \in opened : WonOf[o] \in Nat /\ PriceOf[o] \in Nat
  BY DEF OpeningsInv, Openings, WonOf, PriceOf
<1>3. /\ Total(PayoutOf, Played) \in Nat /\ Cardinality(Played) \in Nat
      /\ Total(WonOf, opened) \in Nat /\ Total(PriceOf, opened) \in Nat
  BY <1>1, <1>2, TotalType, FS_CardinalityType DEF GamesInv, RowsInv, OpeningsInv
<1>4. Bet \in Nat
  BY MinesAssumption
<1>5. QED  BY <1>3, <1>4 DEF MinesNet, CasesNet, PayoutOf, WonOf, PriceOf

\* Going on with a game adds what it is paid by then, ...
LEMMA NetContinues ==
  ASSUME GamesInv, OpeningsInv, NEW g \in Games, NEW row \in GameRows, Continues(g, row)
  PROVE  MinesNet' = MinesNet + row.payout
<1>1. game'[g] = row /\ \A h \in Games \ {g} : game'[h] = game[h]
  BY DEF Continues, GamesInv, TypeOK
<1>2. g \in Played /\ Played' = Played /\ game[g].payout = 0
  BY <1>1 DEF Continues, Played, GamesInv, RowsInv, PaidByReveals
<1>3. /\ \A h \in Played : PayoutOf[h] \in Nat /\ PayoutOf'[h] \in Nat
      /\ \A h \in Played \ {g} : PayoutOf'[h] = PayoutOf[h]
      /\ PayoutOf[g] = 0 /\ PayoutOf'[g] = row.payout /\ row.payout \in Nat
  BY <1>1, <1>2 DEF PayoutOf, Played, GamesInv, TypeOK, GameRows
<1>4. /\ Total(PayoutOf, Played) \in Nat /\ Total(PayoutOf', Played) \in Nat
      /\ Total(PayoutOf', Played) + PayoutOf[g] = Total(PayoutOf, Played) + PayoutOf'[g]
  BY <1>2, <1>3, TotalChange DEF GamesInv, RowsInv
<1>5. Total(PayoutOf', Played) = Total(PayoutOf, Played) + row.payout
  BY <1>3, <1>4
<1> DEFINE cost == Bet * Cardinality(Played)
<1>6. cost \in Int
  BY NetsType, MinesAssumption
<1>7. MinesNet = Total(PayoutOf, Played) - cost /\ MinesNet' = Total(PayoutOf', Played) - cost
  BY <1>2 DEF MinesNet, PayoutOf
<1> HIDE DEF cost
<1>8. QED  BY <1>3, <1>4, <1>5, <1>6, <1>7

\* ... a start takes its stake, ...
LEMMA NetStarts ==
  ASSUME GamesInv, OpeningsInv, NEW g \in Games \ Played, NEW key \in Keys,
         NEW mines \in SUBSET Cells, game' = [game EXCEPT ![g] = Dealt(key, mines)]
  PROVE  MinesNet' = MinesNet - Bet
<1> DEFINE row == Dealt(key, mines)
<1>1. row.status = "ACTIVE" /\ row.payout = 0
  BY DealtRow DEF GamesInv
<1>2. game'[g] = row /\ \A h \in Games \ {g} : game'[h] = game[h]
  BY DEF GamesInv, TypeOK
<1> HIDE DEF row
<1>3. Played' = Played \cup {g} /\ g \notin Played
  BY <1>1, <1>2 DEF Played
<1>4. /\ \A h \in Played : PayoutOf'[h] = PayoutOf[h] /\ PayoutOf[h] \in Nat
      /\ PayoutOf'[g] = 0
  BY <1>1, <1>2 DEF PayoutOf, Played, GamesInv, TypeOK, GameRows
<1>5. /\ Total(PayoutOf', Played) \in Nat
      /\ Total(PayoutOf', Played \cup {g}) = Total(PayoutOf', Played) + PayoutOf'[g]
  <2>1. \A h \in Played \cup {g} : PayoutOf'[h] \in Nat
    BY <1>4
  <2>2. QED  BY <1>3, <2>1, TotalAdd DEF GamesInv, RowsInv
<1>6. Total(PayoutOf', Played) = Total(PayoutOf, Played)
  <2>1. \A h \in Played : PayoutOf'[h] = PayoutOf[h]
    BY <1>4
  <2>2. QED  BY <2>1, TotalSame
<1>7. Cardinality(Played') = Cardinality(Played) + 1 /\ Cardinality(Played) \in Nat
  BY <1>3, FS_AddElement, FS_CardinalityType DEF GamesInv, RowsInv
<1>8. Bet * Cardinality(Played') = Bet * Cardinality(Played) + Bet
      /\ Bet * Cardinality(Played) \in Nat /\ Bet \in Nat
  BY <1>7, MinesAssumption
<1>9. Total(PayoutOf', Played') = Total(PayoutOf, Played)
  BY <1>3, <1>4, <1>5, <1>6
<1>10. /\ MinesNet = Total(PayoutOf, Played) - Bet * Cardinality(Played)
       /\ MinesNet' = Total(PayoutOf', Played') - Bet * Cardinality(Played')
  BY DEF MinesNet, PayoutOf
<1>11. QED  BY <1>5, <1>6, <1>8, <1>9, <1>10

\* ... and an opening takes its price and pays its item.
LEMMA NetOpens ==
  ASSUME GamesInv, OpeningsInv, NEW row \in Openings, row \notin opened,
         opened' = opened \cup {row}
  PROVE  CasesNet' = CasesNet - row.price + row.payout
<1>1. /\ \A o \in opened : /\ WonOf'[o] = WonOf[o] /\ PriceOf'[o] = PriceOf[o]
                           /\ WonOf[o] \in Nat /\ PriceOf[o] \in Nat
      /\ WonOf'[row] = row.payout /\ PriceOf'[row] = row.price
      /\ row.payout \in Nat /\ row.price \in Nat
  BY DEF WonOf, PriceOf, OpeningsInv, Openings
<1>2. \A o \in opened \cup {row} : WonOf'[o] \in Nat /\ PriceOf'[o] \in Nat
  BY <1>1
<1>3. /\ Total(WonOf', opened \cup {row}) = Total(WonOf', opened) + WonOf'[row]
      /\ Total(PriceOf', opened \cup {row}) = Total(PriceOf', opened) + PriceOf'[row]
  BY <1>2, TotalAdd DEF OpeningsInv
<1>4. Total(WonOf', opened) = Total(WonOf, opened)
  <2>1. \A o \in opened : WonOf'[o] = WonOf[o]
    BY <1>1
  <2>2. QED  BY <2>1, TotalSame
<1>5. Total(PriceOf', opened) = Total(PriceOf, opened)
  <2>1. \A o \in opened : PriceOf'[o] = PriceOf[o]
    BY <1>1
  <2>2. QED  BY <2>1, TotalSame
<1>6. Total(WonOf, opened) \in Nat /\ Total(PriceOf, opened) \in Nat
  BY NetsType
<1>7. /\ CasesNet = Total(WonOf, opened) - Total(PriceOf, opened)
      /\ CasesNet' = Total(WonOf', opened \cup {row}) - Total(PriceOf', opened \cup {row})
  BY DEF CasesNet, WonOf, PriceOf
<1>8. QED  BY <1>1, <1>3, <1>4, <1>5, <1>6, <1>7

\* The balance is what games and openings left of it, after every step.
LEMMA BalanceStep == IInv /\ [CasesNext]_allVars => BalanceInv'
<1> SUFFICES ASSUME GamesInv, OpeningsInv, BalanceInv, [CasesNext]_allVars PROVE BalanceInv'
  BY DEF IInv
<1>0. /\ wallet.balance \in Int /\ Balance \in Int /\ Bet \in Int
      /\ MinesNet \in Int /\ CasesNet \in Int
  BY NetsType, MinesAssumption DEF GamesInv, TypeOK, WalletRow
<1>1. CASE UNCHANGED <<wallet, game, opened>>
  BY <1>1 DEF BalanceInv, MinesNet, CasesNet, Played
<1>2. ASSUME UNCHANGED opened, NEW g \in Games, NEW row \in GameRows, Continues(g, row)
      PROVE  BalanceInv'
  <2>1. MinesNet' = MinesNet + row.payout /\ wallet'.balance = wallet.balance + row.payout
    BY <1>2, NetContinues DEF Continues
  <2>2. row.payout \in Nat /\ CasesNet' = CasesNet
    BY <1>2 DEF GameRows, CasesNet
  <2>3. QED  BY <1>0, <2>1, <2>2 DEF BalanceInv
<1>3. ASSUME UNCHANGED opened, NEW r \in Requests, StartGame(r)
      PROVE  BalanceInv'
  <2>1. ASSUME NEW g \in Games \ Played, NEW mines \in SUBSET Cells,
               game' = [game EXCEPT ![g] = Dealt(req[r].key, mines)],
               req[r].key \in Keys, wallet'.balance = wallet.balance - Bet
        PROVE  BalanceInv'
    <3>1. MinesNet' = MinesNet - Bet /\ CasesNet' = CasesNet
      BY <1>3, <2>1, NetStarts DEF CasesNet
    <3>2. QED  BY <1>0, <2>1, <3>1 DEF BalanceInv
  <2>2. QED  BY <1>1, <1>3, <2>1, StartDeals DEF GamesInv
<1>4. ASSUME NEW r \in Requests, Open(r), game' = game PROVE BalanceInv'
  <2>1. PICK row \in Openings :
          /\ opened' = opened \cup {row}
          /\ KeyFree(row.key)
          /\ wallet'.balance = wallet.balance - row.price + row.payout
    BY <1>4, OpenPosts DEF GamesInv
  <2>2. row \notin opened
    BY <2>1 DEF KeyFree, OpenedWith
  <2>3. CasesNet' = CasesNet - row.price + row.payout
    BY <2>1, <2>2, NetOpens
  <2>4. MinesNet' = MinesNet /\ row.price \in Nat /\ row.payout \in Nat
    BY <1>4 DEF MinesNet, Played, Openings
  <2>5. QED  BY <1>0, <2>1, <2>3, <2>4 DEF BalanceInv
<1>5. QED  BY <1>1, <1>2, <1>3, <1>4, StepKinds DEF Quiet

\* At first nothing was played or opened.
LEMMA CasesInitOK == CasesInit => IInv
<1> SUFFICES ASSUME CasesInit PROVE IInv
  OBVIOUS
<1>1. GamesInv
  BY GamesInit DEF CasesInit
<1>2. opened = {} /\ shop = [edition |-> 1, active |-> TRUE]
  BY DEF CasesInit
<1>3. OpeningsInv
  BY <1>2, CasesAssumption, FS_EmptySet DEF OpeningsInv, OpeningsTaken, OpeningsDistinct
<1>4. BalanceInv
  <2>1. Played = {} /\ wallet.balance = Balance
    BY DEF CasesInit, Init, Played, NoGame
  <2>2. \A f : Total(f, {}) = 0
    BY TotalOfNothing
  <2>3. Cardinality(Played) = 0 /\ Bet \in Nat /\ Balance \in Nat
    BY <2>1, FS_EmptySet, MinesAssumption
  <2>4. MinesNet = 0 /\ CasesNet = 0
    BY <1>2, <2>1, <2>2, <2>3 DEF MinesNet, CasesNet
  <2>5. QED  BY <2>1, <2>3, <2>4 DEF BalanceInv
<1>5. QED  BY <1>1, <1>3, <1>4 DEF IInv

-----------------------------------------------------------------------------
(***************************************************************************)
(* The theorems.                                                           *)
(***************************************************************************)

\* The inductive invariant of Mines and Cases together.
THEOREM Invariance == CasesSpec => []IInv
<1>1. IInv /\ [CasesNext]_allVars => IInv'
  BY GamesHold, OpeningsStep, BalanceStep DEF IInv, OpeningsInv
<1>2. QED  BY CasesInitOK, <1>1, PTL DEF CasesSpec

\* The same for the games alone.
THEOREM GamesAlone == Spec => []GamesInv
BY GamesInit, GamesStep, PTL DEF Spec

\* No two games are decided by one seed and nonce, and none share a key.
THEOREM BoardsAreDistinct == CasesSpec => []BoardsDistinct
<1>1. IInv => BoardsDistinct
  BY DEF IInv, GamesInv, RowsInv
<1>2. QED  BY Invariance, <1>1, PTL

\* The balance is what boards and openings leave of it, each paid once by what
\* it drew, and no draw decides two of them.
THEOREM GamesAlwaysAddUp == CasesSpec => []GamesAddUp
<1>1. IInv => GamesAddUp
  BY DEF IInv, GamesInv, RowsInv, OpeningsInv, BalanceInv, GamesAddUp
<1>2. QED  BY Invariance, <1>1, PTL

\* A game that is over stays as it is, and revealed cells stay revealed.
THEOREM OverStaysOver == CasesSpec => OverIsOver
<1> DEFINE Stays == \A g \in Games :
             /\ game[g].status \in {"LOST", "CASHED_OUT"} => game'[g] = game[g]
             /\ game[g].revealed \subseteq game'[g].revealed
<1>1. IInv /\ [CasesNext]_allVars => [Stays]_game
  <2> SUFFICES ASSUME GamesInv, [CasesNext]_allVars, game' # game PROVE Stays
    BY DEF IInv
  <2>1. ASSUME NEW g \in Games, NEW row, Continues(g, row) PROVE Stays
    BY <2>1 DEF Continues, GamesInv, TypeOK
  <2>2. ASSUME NEW r \in Requests, StartGame(r) PROVE Stays
    <3>1. PICK g \in Games \ Played : \A h \in Games \ {g} : game'[h] = game[h]
      BY <2>2, StartDeals DEF GamesInv, TypeOK
    <3>2. game[g].status = "NONE" /\ game[g].revealed = {}
      BY DEF Played, GamesInv, RowsInv, NothingRevealedYet
    <3>3. QED  BY <3>1, <3>2
  <2>3. QED  BY <2>1, <2>2, StepKinds DEF Quiet
<1>2. QED  BY Invariance, <1>1, PTL DEF CasesSpec, OverIsOver
=============================================================================
