---------------------- MODULE RouletteRounds_proofs -------------------------
(***************************************************************************)
(* Proofs about the roulette rounds, for any rounds, bets, wallets, stakes *)
(* and wheel, and any number of replicas and placements.                   *)
(***************************************************************************)
EXTENDS RouletteRounds, Ledgers_proofs

-----------------------------------------------------------------------------
(***************************************************************************)
(* The inductive invariant.                                                *)
(***************************************************************************)

Calls ==
  [pc : {"lookup", "choose", "number", "insert", "clock", "lock", "wallet", "done"},
   wallet : Wallets, type : Types, stake : Stakes, key : Keys,
   number : 0..(MaxRounds + 1),
   outcome : {"none", "ok", "closed", "pause", "conflict", "insufficient"}]

Ticks ==
  [pc : {"idle", "close", "spin", "settle", "ensure", "look", "number", "insert"},
   number : 0..MaxRounds]

Shapes ==
  /\ wallet \in [Wallets -> WalletRows]
  /\ round \in [Rounds -> RoundRows]
  /\ clock \in [Rounds -> 0..2] /\ pause \in BOOLEAN
  /\ roundLock \in [Rounds -> Requests \cup {NoRequest}]
  /\ bet \in [Bets -> BetRows]
  /\ worker \in [Replicas -> Ticks]
  /\ req \in [Requests -> {Idle} \cup Calls]

\* A number a transaction read, plus one: all numbers below it are taken.
NextNumber(n) == n \in Rounds /\ 1..(n - 1) \subseteq Created

\* Rounds have numbers without a gap, and a number drawn from the spin on; a row
\* that is not there has no bet.
RoundsInOrder ==
  \A n \in Rounds :
    /\ round[n].status = "NONE" => round[n] = NoRound /\ BetsOf(n) = {}
    /\ n \in Created => 1..n \subseteq Created
    /\ round[n].number = NoNumber <=> round[n].status \in {"NONE", "OPEN", "CLOSED"}

Placed == {b \in Bets : bet[b].status # "NONE"}

\* A bet that was placed is complete, and is paid nothing before it is settled.
BetsInOrder ==
  /\ IsFiniteSet(Placed)
  /\ \A b \in Bets \ Placed : bet[b] = NoBet
  /\ \A b \in Placed :
       /\ bet[b].round \in Rounds /\ bet[b].wallet \in Wallets
       /\ bet[b].type \in Types /\ bet[b].stake \in Stakes
       /\ bet[b].status = "PENDING" => bet[b].payout = 0

WorkersInOrder ==
  \A p \in Replicas : worker[p].pc = "insert" => NextNumber(worker[p].number)

\* A placement that takes its stake keeps the lock of a round that is open, or
\* that it has inserted.
CallsInOrder ==
  \A r \in Requests :
    LET n == req[r].number
    IN /\ req[r].pc \in {"clock", "lock"} => n \in Created
       /\ req[r].pc \in {"insert", "wallet"} => NextNumber(n)
       /\ req[r].pc = "wallet" => /\ roundLock[n] = r
                                  /\ round[n].status \in {"NONE", "OPEN"}

IInv ==
  /\ Shapes /\ RoundsInOrder /\ BetsInOrder /\ WorkersInOrder /\ CallsInOrder
  /\ RoundsAddUp /\ LockedMatchesHeld

LEMMA RouletteInit == Init => IInv
<1> SUFFICES ASSUME Init PROVE IInv
  OBVIOUS
<1> USE RouletteAssumption, BigintAssumption
<1>1. Created = {} /\ Placed = {} /\ IsFiniteSet(Placed)
  BY FS_EmptySet DEF Init, Created, Placed, NoRound, NoBet
<1>2. /\ \A n \in Rounds : BetsOf(n) = {}
      /\ \A w \in Wallets : HeldOn(w) = {}
  BY DEF Init, BetsOf, HeldOn, NoBet, Rounds
<1>3. \A amount : Total(amount, {}) = 0
  BY TotalOfNothing
<1>4. Shapes
  <2>1. wallet \in [Wallets -> WalletRows]
    BY DEF Init, MoneyInit, WalletRows
  <2>2. NoRound \in RoundRows /\ NoBet \in BetRows /\ Resting \in Ticks
    BY DEF NoRound, NoBet, Resting, RoundRows, BetRows, Ticks
  <2>3. /\ round \in [Rounds -> RoundRows] /\ bet \in [Bets -> BetRows]
        /\ worker \in [Replicas -> Ticks] /\ req \in [Requests -> {Idle} \cup Calls]
    BY <2>2 DEF Init
  <2>4. clock \in [Rounds -> 0..2] /\ pause \in BOOLEAN
    <3>1. 0 \in 0..2
      OBVIOUS
    <3>2. QED  BY <3>1, Zenon DEF Init
  <2>5. roundLock \in [Rounds -> Requests \cup {NoRequest}]
    BY DEF Init
  <2>6. QED  BY <2>1, <2>3, <2>4, <2>5 DEF Shapes
<1>5. RoundsInOrder /\ BetsInOrder
  BY <1>1, <1>2 DEF RoundsInOrder, BetsInOrder, Init, NoRound
<1>6. WorkersInOrder /\ CallsInOrder
  BY DEF WorkersInOrder, CallsInOrder, Init, Resting, Idle
<1>7. RoundsAddUp
  BY <1>2, <1>3 DEF RoundsAddUp, Init, NoRound
<1>8. LockedMatchesHeld
  BY <1>2, <1>3 DEF LockedMatchesHeld, Init, MoneyInit
<1>9. QED  BY <1>4, <1>5, <1>6, <1>7, <1>8 DEF IInv

-----------------------------------------------------------------------------
(***************************************************************************)
(* What stays as it was.                                                   *)
(***************************************************************************)

\* A step that leaves the rows of wallets, rounds and bets alone.
RowsStay == UNCHANGED <<wallet, round, bet>>

LEMMA RowsStayInOrder ==
  ASSUME IInv, RowsStay
  PROVE  /\ RoundsInOrder' /\ BetsInOrder' /\ RoundsAddUp' /\ LockedMatchesHeld'
         /\ Created' = Created
<1>1. /\ Created' = Created /\ Placed' = Placed /\ StakeOf' = StakeOf
      /\ \A n \in Rounds : BetsOf(n)' = BetsOf(n)
      /\ \A w \in Wallets : HeldOn(w)' = HeldOn(w)
  BY DEF RowsStay, Created, Placed, StakeOf, BetsOf, HeldOn
<1>2. RoundsInOrder' /\ BetsInOrder'
  BY <1>1 DEF IInv, RowsStay, RoundsInOrder, BetsInOrder
<1>3. RoundsAddUp'
  <2>1. [b \in Bets |-> bet[b].payout]' = [b \in Bets |-> bet[b].payout]
    BY DEF RowsStay
  <2>2. QED  BY <1>1, <2>1 DEF IInv, RowsStay, RoundsAddUp, Outcome, Pays
<1>4. LockedMatchesHeld'
  BY <1>1 DEF IInv, RowsStay, LockedMatchesHeld
<1>5. QED  BY <1>1, <1>2, <1>3, <1>4

\* The workers, when no round disappears.
LEMMA WorkersStay ==
  ASSUME IInv, UNCHANGED worker, Created \subseteq Created'
  PROVE  WorkersInOrder'
BY DEF IInv, WorkersInOrder, NextNumber

\* The placements, when only rows that none of them has locked change.
LEMMA CallsStay ==
  ASSUME IInv, UNCHANGED <<req, roundLock>>, Created \subseteq Created',
         \A n \in Rounds : roundLock[n] # NoRequest => round'[n].status = round[n].status
  PROVE  CallsInOrder'
<1> SUFFICES ASSUME NEW r \in Requests
             PROVE  LET n == req[r].number
                    IN /\ req[r].pc \in {"clock", "lock"} => n \in Created'
                       /\ req[r].pc \in {"insert", "wallet"} => NextNumber(n)'
                       /\ req[r].pc = "wallet" => /\ roundLock[n] = r
                                                  /\ round'[n].status \in {"NONE", "OPEN"}
  BY DEF CallsInOrder
<1>1. r # NoRequest
  BY RouletteAssumption
<1>2. QED  BY <1>1 DEF IInv, CallsInOrder, NextNumber

-----------------------------------------------------------------------------
(***************************************************************************)
(* Steps of the clock and of the workers that change no row.               *)
(***************************************************************************)

LEMMA TimePasses ==
  ASSUME IInv, PauseOver \/ \E n \in Rounds : DeadlinePasses(n)
  PROVE  IInv'
<1>1. /\ RowsStay /\ UNCHANGED <<roundLock, worker, req>>
      /\ clock' \in [Rounds -> 0..2] /\ pause' \in BOOLEAN
  <2>1. CASE PauseOver
    BY <2>1 DEF PauseOver, RowsStay, IInv, Shapes
  <2>2. ASSUME NEW n \in Rounds, DeadlinePasses(n)
        PROVE  /\ RowsStay /\ UNCHANGED <<roundLock, worker, req, pause>>
               /\ clock' \in [Rounds -> 0..2]
    <3>1. clock \in [Rounds -> 0..2] /\ clock[n] + 1 \in 0..2
      BY <2>2 DEF DeadlinePasses, IInv, Shapes
    <3>2. QED  BY <2>2, <3>1 DEF DeadlinePasses, RowsStay
  <2>3. QED  BY <2>1, <2>2 DEF IInv, Shapes
<1>2. Shapes'
  BY <1>1 DEF IInv, Shapes, RowsStay
<1>3. WorkersInOrder' /\ CallsInOrder'
  BY <1>1, RowsStayInOrder, WorkersStay, CallsStay DEF RowsStay
<1>4. QED  BY <1>1, <1>2, <1>3, RowsStayInOrder DEF IInv

\* The number after the latest one is the next number.
LEMMA LatestIsNext ==
  ASSUME IInv
  PROVE  /\ LatestNumber \in Nat /\ Created = 1..LatestNumber
         /\ LatestNumber < MaxRounds =>
              LatestNumber + 1 \in Rounds /\ NextNumber(LatestNumber + 1)
<1>1. LatestNumber \in Nat /\ Created = 1..LatestNumber
  <2>1. MaxRounds \in Nat /\ Created \subseteq 1..MaxRounds /\ \A n \in Created : 1..n \subseteq Created
    BY RouletteAssumption DEF IInv, RoundsInOrder, Created, Rounds
  <2>2. QED  BY <2>1, NoGap, Zenon DEF LatestNumber
<1>2. ASSUME LatestNumber < MaxRounds, NEW next, next = LatestNumber + 1
      PROVE  next \in Rounds /\ NextNumber(next)
  <2>1. next \in Rounds /\ next - 1 = LatestNumber
    BY <1>1, <1>2, RouletteAssumption DEF Rounds
  <2>2. QED  BY <1>1, <2>1 DEF NextNumber
<1>3. QED  BY <1>1, <1>2

\* A tick moves on.
LEMMA WorkerMoves ==
  ASSUME IInv, RowsStay, UNCHANGED <<clock, pause, roundLock, req>>, NEW p \in Replicas,
         NEW tick \in Ticks, worker' = [worker EXCEPT ![p] = tick],
         tick.pc = "insert" => NextNumber(tick.number)
  PROVE  IInv'
<1>1. Created' = Created /\ \A n : NextNumber(n)' <=> NextNumber(n)
  BY RowsStayInOrder DEF NextNumber
<1>2. Shapes'
  BY DEF IInv, Shapes, RowsStay
<1>3. WorkersInOrder'
  <2>1. worker'[p] = tick /\ \A q \in Replicas \ {p} : worker'[q] = worker[q]
    BY DEF IInv, Shapes
  <2>2. QED  BY <1>1, <2>1 DEF IInv, WorkersInOrder
<1>4. CallsInOrder'
  BY <1>1, CallsStay DEF RowsStay
<1>5. QED  BY <1>2, <1>3, <1>4, RowsStayInOrder DEF IInv

LEMMA PhaseMoves ==
  ASSUME IInv, RowsStay, UNCHANGED <<clock, pause, roundLock, req>>, NEW p \in Replicas,
         NEW pc \in {"close", "spin", "settle", "ensure", "look", "number"}, Phase(p, pc)
  PROVE  IInv'
<1> DEFINE tick == [worker[p] EXCEPT !.pc = pc]
<1>1. tick \in Ticks /\ tick.pc = pc
  BY DEF IInv, Shapes, Ticks
<1>2. worker' = [worker EXCEPT ![p] = tick]
  BY DEF Phase
<1> HIDE DEF tick
<1>3. QED  BY <1>1, <1>2, WorkerMoves

LEMMA RestMoves ==
  ASSUME IInv, RowsStay, UNCHANGED <<clock, pause, roundLock, req>>, NEW p \in Replicas, Rest(p)
  PROVE  IInv'
<1>1. Resting \in Ticks /\ Resting.pc = "idle"
  BY RouletteAssumption DEF Resting, Ticks
<1>2. QED  BY <1>1, WorkerMoves DEF Rest

\* A tick moves to its next phase or ends; the number it reads is the next one.
LEMMA TickSteps ==
  ASSUME IInv, NEW p \in Replicas,
         \/ Tick(p) \/ GetCurrentRound(p) \/ TickFails(p) \/ SettleThrows(p) \/ SettleNone(p)
         \/ EnsureOpenRounds(p) \/ EnsureLook(p) \/ ReadNumber(p)
  PROVE  IInv'
<1>1. RowsStay /\ UNCHANGED <<clock, pause, roundLock, req>>
  BY DEF RowsStay, Tick, GetCurrentRound, TickFails, SettleThrows, SettleNone,
         EnsureOpenRounds, EnsureLook, ReadNumber
<1>2. ASSUME LatestNumber < MaxRounds, NEW next, next = LatestNumber + 1,
             worker' = [worker EXCEPT ![p] = [pc |-> "insert", number |-> next]]
      PROVE  IInv'
  <2> DEFINE tick == [pc |-> "insert", number |-> next]
  <2>1. next \in Rounds /\ NextNumber(next)
    BY <1>2, LatestIsNext
  <2>2. tick \in Ticks /\ tick.number = next
    BY <2>1, RouletteAssumption DEF Ticks, Rounds
  <2>3. worker' = [worker EXCEPT ![p] = tick]
    BY <1>2
  <2> HIDE DEF tick
  <2>4. QED  BY <1>1, <2>1, <2>2, <2>3, WorkerMoves
<1>3. QED
  BY <1>1, <1>2, PhaseMoves, RestMoves DEF Tick, GetCurrentRound, TickFails, SettleThrows,
     SettleNone, EnsureOpenRounds, EnsureLook, ReadNumber

-----------------------------------------------------------------------------
(***************************************************************************)
(* Steps of the placements that change no row.                             *)
(***************************************************************************)

\* A call moves on; it leaves the locks of the others alone.
LEMMA CallMoves ==
  ASSUME IInv, RowsStay, UNCHANGED <<clock, pause, worker>>,
         NEW r \in Requests, NEW call \in {Idle} \cup Calls, req' = [req EXCEPT ![r] = call],
         roundLock' \in [Rounds -> Requests \cup {NoRequest}],
         \A n \in Rounds : roundLock[n] \notin {r, NoRequest} => roundLock'[n] = roundLock[n],
         call.pc \in {"clock", "lock"} => call.number \in Created,
         call.pc \in {"insert", "wallet"} => NextNumber(call.number),
         call.pc = "wallet" => /\ roundLock'[call.number] = r
                               /\ round[call.number].status \in {"NONE", "OPEN"}
  PROVE  IInv'
<1>1. Created' = Created /\ \A n : NextNumber(n)' <=> NextNumber(n)
  BY RowsStayInOrder DEF NextNumber
<1>2. Shapes'
  BY DEF IInv, Shapes, RowsStay
<1>3. CallsInOrder'
  <2> SUFFICES ASSUME NEW q \in Requests
               PROVE  LET n == req'[q].number
                      IN /\ req'[q].pc \in {"clock", "lock"} => n \in Created
                         /\ req'[q].pc \in {"insert", "wallet"} => NextNumber(n)
                         /\ req'[q].pc = "wallet" =>
                              /\ roundLock'[n] = q
                              /\ round[n].status \in {"NONE", "OPEN"}
    BY <1>1 DEF CallsInOrder, RowsStay
  <2>1. CASE q = r
    BY <2>1 DEF IInv, Shapes
  <2>2. CASE q # r
    <3>1. req'[q] = req[q] /\ q # NoRequest
      BY <2>2, RouletteAssumption DEF IInv, Shapes
    <3>2. QED  BY <2>2, <3>1 DEF IInv, CallsInOrder, NextNumber
  <2>3. QED  BY <2>1, <2>2
<1>4. WorkersInOrder'
  BY <1>1, WorkersStay
<1>5. QED  BY <1>2, <1>3, <1>4, RowsStayInOrder DEF IInv

LEMMA LatestActive ==
  ASSUME IInv, Active # {}
  PROVE  Max(Active) \in Active
<1>1. Active \subseteq 1..MaxRounds /\ MaxRounds \in Nat
  BY RouletteAssumption DEF Active, Rounds
<1>2. \E x \in Active : \A y \in Active : x >= y
  BY <1>1, GreatestNumber, Zenon
<1>3. QED  BY <1>2, Zenon DEF Max

\* Calls that begin, end or fail.
LEMMA CallBeginsOrEnds ==
  ASSUME IInv, NEW r \in Requests, Submit(r) \/ Return(r) \/ Fail(r)
  PROVE  IInv'
<1>1. RowsStay /\ UNCHANGED <<clock, pause, worker>>
  BY DEF Submit, Return, Fail, RowsStay
<1>2. CASE Submit(r)
  <2>1. PICK w \in Wallets, type \in Types, stake \in Stakes, key \in Keys,
             id \in {NoId, UnknownId} \cup Created :
          req' = [req EXCEPT ![r] =
                   [pc |-> "lookup", wallet |-> w, type |-> type, stake |-> stake,
                    key |-> key, number |-> id, outcome |-> "none"]]
    BY <1>2 DEF Submit
  <2>2. id \in 0..(MaxRounds + 1)
    BY RouletteAssumption DEF NoId, UnknownId, Created, Rounds
  <2> DEFINE call == [pc |-> "lookup", wallet |-> w, type |-> type, stake |-> stake,
                      key |-> key, number |-> id, outcome |-> "none"]
  <2>3. call \in Calls /\ call.pc = "lookup"
    BY <2>2 DEF Calls
  <2>4. roundLock' = roundLock
    BY <1>2 DEF Submit
  <2> HIDE DEF call
  <2>5. QED  BY <1>1, <2>1, <2>3, <2>4, CallMoves DEF IInv, Shapes, call
<1>3. CASE Return(r) \/ Fail(r)
  <2>1. req' = [req EXCEPT ![r] = Idle] /\ Idle.pc = "idle"
    BY <1>3 DEF Return, Fail, Idle
  <2>2. /\ roundLock' \in [Rounds -> Requests \cup {NoRequest}]
        /\ \A n \in Rounds : roundLock[n] \notin {r, NoRequest} => roundLock'[n] = roundLock[n]
    BY <1>3 DEF Return, Fail, Unlocked, IInv, Shapes
  <2>3. QED  BY <1>1, <2>1, <2>2, CallMoves
<1>4. QED  BY <1>2, <1>3

\* The steps that only choose what comes next, and the answers.
LEMMA CallSteps ==
  ASSUME IInv, NEW r \in Requests,
         \/ PlaceLookup(r) \/ ChooseRound(r) \/ PlaceNumber(r) \/ PlaceInsert(r)
         \/ ReadClock(r) \/ LockRound(r) \/ PlaceAbort(r)
  PROVE  IInv'
<1>1. RowsStay /\ UNCHANGED <<clock, pause, worker>>
  BY DEF PlaceLookup, ChooseRound, PlaceNumber, PlaceInsert, ReadClock, LockRound, PlaceAbort,
         RowsStay
<1>2. req[r] \in Calls /\ req[r].pc \notin {"idle", "done"}
  <2>1. req[r].pc \notin {"idle", "done"}
    BY DEF PlaceLookup, ChooseRound, PlaceNumber, PlaceInsert, ReadClock, LockRound, PlaceAbort, At
  <2>2. QED  BY <2>1 DEF IInv, Shapes, Idle
<1> DEFINE LocksKept ==
             /\ roundLock' \in [Rounds -> Requests \cup {NoRequest}]
             /\ \A n \in Rounds : roundLock[n] \notin {r, NoRequest} => roundLock'[n] = roundLock[n]
<1>3. LocksKept
  BY DEF PlaceLookup, ChooseRound, PlaceNumber, PlaceInsert, ReadClock, LockRound, PlaceAbort,
         Unlocked, IInv, Shapes
<1>4. ASSUME NEW outcome \in {"ok", "closed", "pause", "conflict", "insufficient"},
             Reply(r, outcome)
      PROVE  IInv'
  <2> DEFINE call == [req[r] EXCEPT !.pc = "done", !.outcome = outcome]
  <2>1. req' = [req EXCEPT ![r] = call]
    BY <1>4 DEF Reply
  <2>2. call \in Calls /\ call.pc = "done"
    BY <1>2 DEF Calls
  <2> HIDE DEF call
  <2>3. QED  BY <1>1, <1>3, <2>1, <2>2, CallMoves
<1>5. ASSUME NEW pc \in {"choose", "number"}, Goto(r, pc)
      PROVE  IInv'
  <2> DEFINE call == [req[r] EXCEPT !.pc = pc]
  <2>1. req' = [req EXCEPT ![r] = call]
    BY <1>5 DEF Goto
  <2>2. call \in Calls /\ call.pc = pc
    BY <1>2 DEF Calls
  <2> HIDE DEF call
  <2>3. QED  BY <1>1, <1>3, <2>1, <2>2, CallMoves
<1>6. ASSUME NEW n \in Created, Take(r, n, "clock")
      PROVE  IInv'
  <2> DEFINE call == [req[r] EXCEPT !.number = n, !.pc = "clock"]
  <2>1. req' = [req EXCEPT ![r] = call]
    BY <1>6 DEF Take
  <2>2. call \in Calls /\ call.pc = "clock" /\ call.number = n
    <3>1. n \in 0..(MaxRounds + 1)
      BY RouletteAssumption DEF Created, Rounds
    <3>2. QED  BY <1>2, <3>1 DEF Calls
  <2> HIDE DEF call
  <2>3. QED  BY <1>1, <1>3, <2>1, <2>2, CallMoves
<1>7. CASE PlaceLookup(r)
  BY <1>4, <1>5, <1>7 DEF PlaceLookup
<1>8. CASE ChooseRound(r)
  <2>1. Active # {} => Max(Active) \in Created
    BY LatestActive DEF Active, Created
  <2>2. QED  BY <1>4, <1>5, <1>6, <1>8, <2>1 DEF ChooseRound
<1>9. CASE PlaceNumber(r)
  <2>1. PICK n : n = LatestNumber + 1
    OBVIOUS
  <2> DEFINE call == [req[r] EXCEPT !.number = n, !.pc = "insert"]
  <2>2. n \in 0..(MaxRounds + 1) /\ NextNumber(n)
    BY <1>9, <2>1, LatestIsNext, RouletteAssumption DEF PlaceNumber, Rounds
  <2>3. call \in Calls /\ call.pc = "insert" /\ call.number = n
    BY <1>2, <2>2 DEF Calls
  <2>4. req' = [req EXCEPT ![r] = call]
    BY <1>9, <2>1 DEF PlaceNumber, Take
  <2> HIDE DEF call
  <2>5. QED  BY <1>1, <1>3, <2>2, <2>3, <2>4, CallMoves
<1>10. ASSUME PlaceInsert(r) \/ LockRound(r), Goto(r, "wallet"),
              NEW n, n = req[r].number, roundLock' = [roundLock EXCEPT ![n] = r],
              round[n].status \in {"NONE", "OPEN"}
       PROVE  IInv'
  <2> DEFINE call == [req[r] EXCEPT !.pc = "wallet"]
  <2>1. req' = [req EXCEPT ![r] = call]
    BY <1>10 DEF Goto
  <2>2. call \in Calls /\ call.pc = "wallet" /\ call.number = n
    BY <1>2, <1>10 DEF Calls
  <2>3. NextNumber(n)
    <3>1. CASE PlaceInsert(r)
      BY <1>10, <3>1 DEF PlaceInsert, At, IInv, CallsInOrder
    <3>2. CASE LockRound(r)
      <4>1. n \in Created /\ n \in Rounds /\ 1..n \subseteq Created
        BY <1>10, <3>2 DEF LockRound, At, IInv, CallsInOrder, RoundsInOrder, Created
      <4>2. n \in Nat /\ 1..(n - 1) \subseteq 1..n
        BY <4>1 DEF Rounds
      <4>3. QED  BY <4>1, <4>2 DEF NextNumber
    <3>3. QED  BY <1>10, <3>1, <3>2
  <2>4. roundLock'[n] = r
    BY <1>10, <2>3 DEF NextNumber, IInv, Shapes
  <2> HIDE DEF call
  <2>5. QED  BY <1>1, <1>3, <1>10, <2>1, <2>2, <2>3, <2>4, CallMoves
<1>11. CASE PlaceInsert(r)
  <2>1. req[r].number \in Rounds
    BY <1>11 DEF PlaceInsert, At, IInv, CallsInOrder, NextNumber
  <2>2. QED  BY <1>4, <1>10, <1>11, <2>1 DEF PlaceInsert, Created
<1>12. CASE ReadClock(r)
  <2>1. ASSUME Goto(r, "lock") PROVE IInv'
    <3> DEFINE call == [req[r] EXCEPT !.pc = "lock"]
    <3>1. req' = [req EXCEPT ![r] = call]
      BY <2>1 DEF Goto
    <3>2. call \in Calls /\ call.pc = "lock" /\ call.number \in Created
      BY <1>2, <1>12 DEF Calls, ReadClock, At, IInv, CallsInOrder
    <3> HIDE DEF call
    <3>3. QED  BY <1>1, <1>3, <3>1, <3>2, CallMoves
  <2>2. QED  BY <1>4, <1>12, <2>1 DEF ReadClock
<1>13. CASE LockRound(r)
  BY <1>4, <1>10, <1>13 DEF LockRound
<1>14. CASE PlaceAbort(r)
  BY <1>4, <1>14 DEF PlaceAbort
<1>15. QED
  BY <1>7, <1>8, <1>9, <1>11, <1>12, <1>13, <1>14

-----------------------------------------------------------------------------
(***************************************************************************)
(* Steps of the workers that close, spin or insert a round.                *)
(***************************************************************************)

LEMMA Earliest ==
  ASSUME NEW S, S \subseteq Rounds, S # {}
  PROVE  Min(S) \in S
<1>1. S \subseteq Nat
  BY RouletteAssumption DEF Rounds
<1>2. \E x \in S : \A y \in S : x =< y
  BY <1>1, LeastNumber, Zenon
<1>3. QED  BY <1>2, Zenon DEF Min

\* A row that nobody has locked moves on, with its totals and before it is settled.
LEMMA RoundMoves ==
  ASSUME IInv, UNCHANGED <<wallet, clock, pause, roundLock, bet, req>>,
         worker' \in [Replicas -> Ticks],
         \A q \in Replicas : worker'[q].pc = "insert" => worker'[q] = worker[q],
         NEW n \in Rounds, roundLock[n] = NoRequest, 1..n \subseteq Created \cup {n},
         NEW row \in RoundRows, round' = [round EXCEPT ![n] = row],
         row.status \notin {"NONE", "SETTLED"}, round[n].status # "SETTLED",
         row.staked = round[n].staked, row.payout = round[n].payout,
         row.number = NoNumber <=> row.status \in {"OPEN", "CLOSED"}
  PROVE  IInv'
<1>1. /\ round'[n] = row /\ \A m \in Rounds \ {n} : round'[m] = round[m]
      /\ round' \in [Rounds -> RoundRows]
  BY DEF IInv, Shapes
<1>2. Created' = Created \cup {n}
  BY <1>1 DEF Created
<1>3. Shapes'
  BY <1>1 DEF IInv, Shapes
<1>4. /\ Placed' = Placed /\ StakeOf' = StakeOf
      /\ [b \in Bets |-> bet[b].payout]' = [b \in Bets |-> bet[b].payout]
      /\ \A m \in Rounds : BetsOf(m)' = BetsOf(m)
      /\ \A w \in Wallets : HeldOn(w)' = HeldOn(w)
  BY DEF Placed, StakeOf, BetsOf, HeldOn
<1>5. RoundsInOrder'
  <2> SUFFICES ASSUME NEW m \in Rounds
               PROVE  /\ round'[m].status = "NONE" => round'[m] = NoRound /\ BetsOf(m) = {}
                      /\ m \in Created' => 1..m \subseteq Created'
                      /\ round'[m].number = NoNumber <=>
                           round'[m].status \in {"NONE", "OPEN", "CLOSED"}
    BY <1>4 DEF RoundsInOrder
  <2>1. CASE m = n
    BY <1>1, <1>2, <2>1
  <2>2. CASE m # n
    BY <1>1, <1>2, <2>2 DEF IInv, RoundsInOrder
  <2>3. QED  BY <2>1, <2>2
<1>6. BetsInOrder'
  BY <1>4 DEF IInv, BetsInOrder
<1>7. RoundsAddUp'
  <2> SUFFICES ASSUME NEW m \in Rounds
               PROVE  /\ round'[m].staked = Total(StakeOf, BetsOf(m))
                      /\ round'[m].payout = Total([b \in Bets |-> bet[b].payout], BetsOf(m))
                      /\ \A b \in BetsOf(m) :
                           IF round'[m].status = "SETTLED"
                           THEN /\ bet[b].status = Outcome(b, round'[m].number)
                                /\ bet[b].payout = Pays(b, round'[m].number)
                           ELSE bet[b].status = "PENDING"
    BY <1>4 DEF RoundsAddUp, Outcome, Pays
  <2>1. CASE m = n
    BY <1>1, <2>1 DEF IInv, RoundsAddUp
  <2>2. CASE m # n
    BY <1>1, <2>2 DEF IInv, RoundsAddUp
  <2>3. QED  BY <2>1, <2>2
<1>8. LockedMatchesHeld'
  BY <1>4 DEF IInv, LockedMatchesHeld
<1>9. WorkersInOrder'
  BY <1>2 DEF IInv, WorkersInOrder, NextNumber
<1>10. CallsInOrder'
  <2>1. \A m \in Rounds : roundLock[m] # NoRequest => round'[m].status = round[m].status
    BY <1>1
  <2>2. QED  BY <1>2, <2>1, CallsStay
<1>11. QED  BY <1>3, <1>5, <1>6, <1>7, <1>8, <1>9, <1>10 DEF IInv

LEMMA CloseSteps ==
  ASSUME IInv, NEW p \in Replicas, CloseRoundOnce(p)
  PROVE  IInv'
<1> DEFINE due == Due("OPEN", 1)
<1>1. CASE due = {}
  BY <1>1, PhaseMoves DEF CloseRoundOnce, RowsStay
<1>2. CASE due # {}
  <2>1. PICK n \in Rounds : /\ n \in due /\ n = Min(due)
    BY <1>2, Earliest DEF Due
  <2>2. /\ round[n] \in RoundRows /\ round[n].status = "OPEN" /\ roundLock[n] = NoRequest
        /\ round[n].number = NoNumber /\ n \in Created
    BY <2>1 DEF Due, IInv, Shapes, RoundsInOrder, Created
  <2> DEFINE row == [round[n] EXCEPT !.status = "CLOSED"]
  <2>3. /\ row \in RoundRows /\ row.status = "CLOSED" /\ row.number = NoNumber
        /\ row.staked = round[n].staked /\ row.payout = round[n].payout
    BY <2>2 DEF RoundRows
  <2>4. /\ UNCHANGED <<wallet, clock, pause, roundLock, bet, req, worker>>
        /\ round' = [round EXCEPT ![n] = row]
    BY <1>2, <2>1 DEF CloseRoundOnce
  <2>5. 1..n \subseteq Created
    BY <2>2 DEF IInv, RoundsInOrder
  <2>6. worker' \in [Replicas -> Ticks]
    BY <2>4 DEF IInv, Shapes
  <2> HIDE DEF row
  <2>7. QED  BY <2>2, <2>3, <2>4, <2>5, <2>6, RoundMoves
<1>3. QED  BY <1>1, <1>2

LEMMA SpinSteps ==
  ASSUME IInv, NEW p \in Replicas, StartSpinningRoundOnce(p)
  PROVE  IInv'
<1> DEFINE due == Due("CLOSED", 1)
<1>1. CASE due = {}
  BY <1>1, PhaseMoves DEF StartSpinningRoundOnce, RowsStay
<1>2. CASE due # {}
  <2>1. PICK n \in Rounds : /\ n \in due /\ n = Min(due)
    BY <1>2, Earliest DEF Due
  <2>2. PICK number \in Wheel :
          round' = [round EXCEPT ![n].status = "SPINNING", ![n].number = number]
    BY <1>2, <2>1 DEF StartSpinningRoundOnce
  <2>3. /\ round[n] \in RoundRows /\ round[n].status = "CLOSED" /\ roundLock[n] = NoRequest
        /\ n \in Created /\ number # NoNumber
    BY <2>1, RouletteAssumption DEF Due, IInv, Shapes, Created
  <2> DEFINE row == [round[n] EXCEPT !.status = "SPINNING", !.number = number]
  <2>4. /\ row \in RoundRows /\ row.status = "SPINNING" /\ row.number = number
        /\ row.staked = round[n].staked /\ row.payout = round[n].payout
    BY <2>3 DEF RoundRows
  <2>5. /\ UNCHANGED <<wallet, clock, pause, roundLock, bet, req, worker>>
        /\ round' = [round EXCEPT ![n] = row]
    BY <1>2, <2>2 DEF StartSpinningRoundOnce, IInv, Shapes
  <2>6. 1..n \subseteq Created
    BY <2>3 DEF IInv, RoundsInOrder
  <2>7. worker' \in [Replicas -> Ticks]
    BY <2>5 DEF IInv, Shapes
  <2> HIDE DEF row
  <2>8. QED  BY <2>3, <2>4, <2>5, <2>6, <2>7, RoundMoves
<1>3. QED  BY <1>1, <1>2

\* The number a tick inserts is the next one, or it is taken and nothing is inserted.
LEMMA InsertSteps ==
  ASSUME IInv, NEW p \in Replicas, InsertRound(p)
  PROVE  IInv'
<1>1. PICK n : n = worker[p].number
  OBVIOUS
<1>2. /\ UNCHANGED <<wallet, clock, pause, roundLock, bet, req>> /\ Rest(p)
      /\ roundLock[n] = NoRequest /\ n \in Rounds /\ 1..(n - 1) \subseteq Created
  BY <1>1 DEF InsertRound, IInv, WorkersInOrder, NextNumber
<1>3. /\ worker' \in [Replicas -> Ticks]
      /\ \A q \in Replicas : worker'[q].pc = "insert" => worker'[q] = worker[q]
  <2>1. Resting \in Ticks /\ Resting.pc = "idle"
    BY RouletteAssumption DEF Resting, Ticks
  <2>2. QED  BY <1>2, <2>1 DEF Rest, IInv, Shapes
<1>4. CASE n \in Created
  BY <1>1, <1>2, <1>4, RestMoves DEF InsertRound, RowsStay
<1>5. CASE n \notin Created
  <2> DEFINE row == Fresh(0)
  <2>1. round' = [round EXCEPT ![n] = row]
    BY <1>1, <1>5 DEF InsertRound
  <2>2. /\ row \in RoundRows /\ row.status = "OPEN" /\ row.number = NoNumber
        /\ row.staked = 0 /\ row.payout = 0
    BY DEF RoundRows, Fresh
  <2>3. round[n].status = "NONE" /\ round[n].staked = 0 /\ round[n].payout = 0
    BY <1>2, <1>5 DEF Created, IInv, RoundsInOrder, NoRound
  <2>4. 1..n \subseteq Created \cup {n}
    BY <1>2 DEF Rounds
  <2> HIDE DEF row
  <2>5. QED  BY <1>2, <1>3, <2>1, <2>2, <2>3, <2>4, RoundMoves
<1>6. QED  BY <1>4, <1>5

-----------------------------------------------------------------------------
(***************************************************************************)
(* Steps that place, release or capture a bet, or adjust a balance.        *)
(***************************************************************************)

\* What is counted is finite, and stakes and payouts are natural numbers.
LEMMA Counted ==
  ASSUME IInv
  PROVE  /\ \A n \in Rounds : BetsOf(n) \subseteq Placed /\ IsFiniteSet(BetsOf(n))
         /\ \A w \in Wallets : HeldOn(w) \subseteq Placed /\ IsFiniteSet(HeldOn(w))
         /\ \A b \in Bets : StakeOf[b] = bet[b].stake /\ StakeOf[b] \in Nat
<1>1. \A n \in Rounds : BetsOf(n) \subseteq Placed
  <2>1. \A n \in Rounds : n # 0
    BY DEF Rounds
  <2>2. QED  BY <2>1 DEF IInv, BetsInOrder, BetsOf, NoBet
<1>2. \A w \in Wallets : HeldOn(w) \subseteq Placed
  BY DEF IInv, BetsInOrder, HeldOn, NoBet
<1>3. IsFiniteSet(Placed)
  BY DEF IInv, BetsInOrder
<1>4. \A b \in Bets : StakeOf[b] = bet[b].stake /\ StakeOf[b] \in Nat
  BY DEF StakeOf, IInv, Shapes, BetRows
<1>5. /\ \A n \in Rounds : IsFiniteSet(BetsOf(n))
      /\ \A w \in Wallets : IsFiniteSet(HeldOn(w))
  BY <1>1, <1>2, <1>3, FS_Subset
<1>6. QED  BY <1>1, <1>2, <1>4, <1>5

LEMMA AdjustSteps ==
  ASSUME IInv, NEW w \in Wallets, NEW delta \in Deltas, NEW key \in Keys, Adjust(w, delta, key)
  PROVE  IInv'
<1>1. UNCHANGED <<round, clock, pause, roundLock, bet, worker, req>>
  BY DEF Adjust
<1>2. /\ wallet' \in [Wallets -> WalletRows]
      /\ \A v \in Wallets : wallet'[v].locked = wallet[v].locked
  BY DEF Adjust, AdjustWalletBalance, Fits, IInv, Shapes, WalletRows
<1>3. Shapes'
  BY <1>1, <1>2 DEF IInv, Shapes
<1>4. /\ Created' = Created /\ Placed' = Placed /\ StakeOf' = StakeOf
      /\ [b \in Bets |-> bet[b].payout]' = [b \in Bets |-> bet[b].payout]
      /\ \A n \in Rounds : BetsOf(n)' = BetsOf(n)
      /\ \A v \in Wallets : HeldOn(v)' = HeldOn(v)
  BY <1>1 DEF Created, Placed, StakeOf, BetsOf, HeldOn
<1>5. RoundsInOrder' /\ BetsInOrder' /\ RoundsAddUp'
  BY <1>1, <1>4 DEF IInv, RoundsInOrder, BetsInOrder, RoundsAddUp, Outcome, Pays
<1>6. LockedMatchesHeld'
  BY <1>2, <1>4 DEF IInv, LockedMatchesHeld
<1>7. WorkersInOrder' /\ CallsInOrder'
  BY <1>1, <1>4, WorkersStay, CallsStay
<1>8. QED  BY <1>3, <1>5, <1>6, <1>7 DEF IInv

\* The locked funds without one of the held stakes.
LEMMA HeldWithout ==
  ASSUME IInv, NEW w \in Wallets, NEW b \in HeldOn(w)
  PROVE  /\ wallet[w].locked - bet[b].stake = Total(StakeOf, HeldOn(w) \ {b})
         /\ wallet[w].locked - bet[b].stake \in Nat
<1> DEFINE others == HeldOn(w) \ {b}
<1>1. HeldOn(w) = others \cup {b} /\ b \notin others /\ HeldOn(w) \subseteq Bets
  BY DEF HeldOn
<1>2. IsFiniteSet(others) /\ \A x \in others \cup {b} : StakeOf[x] \in Nat
  BY <1>1, Counted, FS_Subset
<1>3. Total(StakeOf, others \cup {b}) = wallet[w].locked
  BY <1>1, Zenon DEF IInv, LockedMatchesHeld
<1> HIDE DEF others
<1>4. /\ Total(StakeOf, others) \in Nat
      /\ Total(StakeOf, others \cup {b}) = Total(StakeOf, others) + StakeOf[b]
  BY <1>1, <1>2, TotalAdd
<1>5. StakeOf[b] = bet[b].stake /\ StakeOf[b] \in Nat
  BY <1>1, Counted
<1>6. QED  BY <1>3, <1>4, <1>5 DEF others

\* A reservation becomes final and its stake leaves the locked funds.
LEMMA HoldEnds ==
  ASSUME IInv, UNCHANGED <<round, clock, pause, roundLock, worker, req>>,
         NEW b \in Bets, bet[b].hold = "HELD", NEW hold \in {"RELEASED", "CAPTURED"},
         bet' = [bet EXCEPT ![b].hold = hold], NEW w, w = bet[b].wallet,
         wallet' \in [Wallets -> WalletRows], wallet'[w].locked = wallet[w].locked - bet[b].stake,
         \A v \in Wallets \ {w} : wallet'[v].locked = wallet[v].locked
  PROVE  IInv'
<1>1. /\ bet' \in [Bets -> BetRows] /\ bet'[b] = [bet[b] EXCEPT !.hold = hold]
      /\ bet[b] \in BetRows /\ \A x \in Bets \ {b} : bet'[x] = bet[x]
  BY DEF IInv, Shapes, BetRows
<1>2. /\ \A x \in Bets : /\ bet'[x].status = bet[x].status /\ bet'[x].round = bet[x].round
                         /\ bet'[x].wallet = bet[x].wallet /\ bet'[x].type = bet[x].type
                         /\ bet'[x].stake = bet[x].stake /\ bet'[x].payout = bet[x].payout
      /\ bet'[b].hold = hold
  BY <1>1 DEF BetRows
<1>3. Shapes'
  BY <1>1 DEF IInv, Shapes
<1>4. /\ Created' = Created /\ Placed' = Placed /\ StakeOf' = StakeOf
      /\ [x \in Bets |-> bet[x].payout]' = [x \in Bets |-> bet[x].payout]
      /\ \A n \in Rounds : BetsOf(n)' = BetsOf(n)
  BY <1>2 DEF Created, Placed, StakeOf, BetsOf
<1>5. b \in Placed /\ w \in Wallets
  BY DEF IInv, BetsInOrder, NoBet, Placed
<1>6. RoundsInOrder'
  BY <1>4 DEF IInv, RoundsInOrder
<1>7. BetsInOrder'
  <2>1. \A x \in Bets \ Placed : bet'[x] = NoBet
    BY <1>1, <1>5 DEF IInv, BetsInOrder
  <2>2. QED  BY <1>2, <1>4, <2>1 DEF IInv, BetsInOrder, Placed
<1>8. RoundsAddUp'
  <2>1. \A n \in Rounds : BetsOf(n) \subseteq Bets
    BY DEF BetsOf
  <2>2. QED  BY <1>2, <1>4, <2>1 DEF IInv, RoundsAddUp, Outcome, Pays
<1>9. LockedMatchesHeld'
  <2>1. \A v \in Wallets \ {w} : HeldOn(v)' = HeldOn(v)
    BY <1>1, <1>2 DEF HeldOn
  <2>2. b \in HeldOn(w) /\ HeldOn(w)' = HeldOn(w) \ {b}
    BY <1>1, <1>2 DEF HeldOn
  <2>3. wallet'[w].locked = Total(StakeOf, HeldOn(w) \ {b})
    BY <1>5, <2>2, HeldWithout
  <2>4. QED  BY <1>4, <2>1, <2>2, <2>3 DEF IInv, LockedMatchesHeld
<1>10. WorkersInOrder' /\ CallsInOrder'
  BY <1>4, WorkersStay, CallsStay
<1>11. QED  BY <1>3, <1>6, <1>7, <1>8, <1>9, <1>10 DEF IInv

LEMMA AdminSteps ==
  ASSUME IInv, NEW b \in Bets, NEW key \in Keys, AdminRelease(b, key) \/ AdminCapture(b, key)
  PROVE  IInv'
<1>1. PICK w, stake : w = bet[b].wallet /\ stake = bet[b].stake
  OBVIOUS
<1>2. bet[b].hold = "HELD"
  BY DEF AdminRelease, AdminCapture
<1>3. b \in Placed /\ w \in Wallets /\ stake \in Nat
  BY <1>1, <1>2 DEF IInv, BetsInOrder, NoBet, Placed, Shapes, BetRows
<1>4. wallet[w].locked - stake \in 0..BigintMax
  <2>1. b \in HeldOn(w)
    BY <1>1, <1>2 DEF HeldOn
  <2>2. wallet[w].locked - stake \in Nat
    BY <1>1, <1>3, <2>1, HeldWithout
  <2>3. wallet[w].locked \in 0..BigintMax
    BY <1>3 DEF IInv, Shapes, WalletRows
  <2>4. QED  BY <1>3, <2>2, <2>3, BigintAssumption
<1>5. CASE AdminRelease(b, key)
  <2>1. wallet' = [wallet EXCEPT ![w].balance = wallet[w].balance + stake,
                                 ![w].locked = @ - stake]
    BY <1>1, <1>5 DEF AdminRelease
  <2>2. wallet[w].balance + stake \in 0..BigintMax
    BY <1>1, <1>5 DEF AdminRelease, Fits
  <2>3. /\ wallet' \in [Wallets -> WalletRows] /\ wallet'[w].locked = wallet[w].locked - stake
        /\ \A v \in Wallets \ {w} : wallet'[v].locked = wallet[v].locked
    BY <1>3, <1>4, <2>1, <2>2 DEF IInv, Shapes, WalletRows
  <2>4. QED  BY <1>1, <1>2, <1>5, <2>3, HoldEnds DEF AdminRelease
<1>6. CASE AdminCapture(b, key)
  <2>1. wallet' = [wallet EXCEPT ![w].locked = @ - stake]
    BY <1>1, <1>6 DEF AdminCapture
  <2>2. /\ wallet' \in [Wallets -> WalletRows] /\ wallet'[w].locked = wallet[w].locked - stake
        /\ \A v \in Wallets \ {w} : wallet'[v].locked = wallet[v].locked
    BY <1>3, <1>4, <2>1 DEF IInv, Shapes, WalletRows
  <2>3. /\ bet' = [bet EXCEPT ![b].hold = "CAPTURED"]
        /\ UNCHANGED <<round, clock, pause, roundLock, worker, req>>
    BY <1>6 DEF AdminCapture
  <2>4. QED  BY <1>1, <1>2, <2>2, <2>3, HoldEnds
<1>7. QED  BY <1>5, <1>6

\* What PlaceCommit writes: a round that is open or new gets the bet and its stake.
LEMMA CommitWrites ==
  ASSUME IInv, NEW r \in Requests, PlaceCommit(r)
  PROVE  /\ req[r] \in Calls /\ UNCHANGED <<clock, pause, worker>> /\ Reply(r, "ok")
         /\ NextNumber(req[r].number) /\ req[r].number \in Rounds
         /\ roundLock[req[r].number] = r /\ roundLock' = Unlocked(r)
         /\ round[req[r].number].status \in {"NONE", "OPEN"}
         /\ round' \in [Rounds -> RoundRows] /\ round'[req[r].number].status = "OPEN"
         /\ round'[req[r].number].staked = round[req[r].number].staked + req[r].stake
         /\ round'[req[r].number].payout = round[req[r].number].payout
         /\ round'[req[r].number].number = NoNumber
         /\ \A m \in Rounds \ {req[r].number} : round'[m] = round[m]
         /\ wallet' \in [Wallets -> WalletRows]
         /\ wallet'[req[r].wallet].locked = wallet[req[r].wallet].locked + req[r].stake
         /\ \A v \in Wallets \ {req[r].wallet} : wallet'[v].locked = wallet[v].locked
         /\ \E b \in Bets : /\ bet[b] = NoBet
                            /\ bet' = [bet EXCEPT ![b] =
                                 [status |-> "PENDING", hold |-> "HELD", round |-> req[r].number,
                                  wallet |-> req[r].wallet, type |-> req[r].type,
                                  stake |-> req[r].stake, key |-> req[r].key, payout |-> 0]]
<1> DEFINE n == req[r].number
           w == req[r].wallet
           stake == req[r].stake
<1>1. req[r] \in Calls
  BY DEF PlaceCommit, At, IInv, Shapes, Idle
<1>2. /\ NextNumber(n) /\ n \in Rounds /\ roundLock[n] = r /\ round[n].status \in {"NONE", "OPEN"}
  BY DEF PlaceCommit, At, IInv, CallsInOrder, NextNumber
<1>3. /\ round' \in [Rounds -> RoundRows] /\ round'[n].status = "OPEN"
      /\ round'[n].staked = round[n].staked + stake /\ round'[n].payout = round[n].payout
      /\ round'[n].number = NoNumber /\ \A m \in Rounds \ {n} : round'[m] = round[m]
  <2> DEFINE row == WithStake(round[n], stake)
  <2>1. round' = [round EXCEPT ![n] = row]
    BY <1>2 DEF PlaceCommit, IInv, Shapes
  <2>2. /\ round[n] \in RoundRows /\ stake \in Nat /\ round[n].number = NoNumber
        /\ round[n] = NoRound \/ round[n].status = "OPEN"
    BY <1>1, <1>2, RouletteAssumption DEF IInv, Shapes, Calls, RoundsInOrder
  <2>3. /\ row \in RoundRows /\ row.status = "OPEN" /\ row.staked = round[n].staked + stake
        /\ row.payout = round[n].payout /\ row.number = NoNumber
    <3>1. CASE round[n] = NoRound
      <4>1. row = Fresh(stake) /\ round[n].staked = 0 /\ round[n].payout = 0
        BY <3>1 DEF NoRound, WithStake
      <4> HIDE DEF row
      <4>2. QED  BY <2>2, <4>1 DEF Fresh, RoundRows
    <3>2. CASE round[n] # NoRound
      BY <2>2, <3>2 DEF RoundRows, WithStake
    <3>3. QED  BY <3>1, <3>2
  <2> HIDE DEF row
  <2>4. QED  BY <1>2, <2>1, <2>3 DEF IInv, Shapes
<1>4. /\ wallet' \in [Wallets -> WalletRows] /\ wallet'[w].locked = wallet[w].locked + stake
      /\ \A v \in Wallets \ {w} : wallet'[v].locked = wallet[v].locked
  <2>1. DebitBalanceInTx(w, stake)
    BY DEF PlaceCommit
  <2>2. wallet[w] \in WalletRows /\ w \in Wallets /\ stake \in Nat
    BY <1>1, RouletteAssumption DEF Calls, IInv, Shapes
  <2> DEFINE row == [balance |-> wallet[w].balance - stake, locked |-> wallet[w].locked + stake,
                     wager |-> ConsumeWager(wallet[w].wager, stake)]
  <2>3. row \in WalletRows
    <3>1. /\ wallet[w].balance \in 0..BigintMax /\ wallet[w].locked \in 0..BigintMax
          /\ wallet[w].wager \in Nat
      BY <2>2 DEF WalletRows
    <3>2. wallet[w].balance >= stake /\ wallet[w].locked + stake \in 0..BigintMax
      BY <2>1 DEF DebitBalanceInTx, CanDebit, Fits
    <3>3. wallet[w].balance - stake \in 0..BigintMax
      BY <2>2, <3>1, <3>2, BigintAssumption
    <3>4. ConsumeWager(wallet[w].wager, stake) \in Nat
      BY <2>2, <3>1 DEF ConsumeWager
    <3>5. QED  BY <3>2, <3>3, <3>4 DEF WalletRows
  <2>4. wallet' = [wallet EXCEPT ![w] = row]
    BY <2>1, <2>2 DEF DebitBalanceInTx, IInv, Shapes
  <2>5. row.locked = wallet[w].locked + stake
    OBVIOUS
  <2> HIDE DEF row
  <2>6. QED  BY <2>2, <2>3, <2>4, <2>5 DEF IInv, Shapes
<1>5. QED
  BY <1>1, <1>2, <1>3, <1>4 DEF PlaceCommit

LEMMA CommitAnswers ==
  ASSUME IInv, NEW r \in Requests, PlaceCommit(r)
  PROVE  /\ req' \in [Requests -> {Idle} \cup Calls]
         /\ req'[r].pc = "done" /\ \A q \in Requests \ {r} : req'[q] = req[q]
<1> DEFINE call == [req[r] EXCEPT !.pc = "done", !.outcome = "ok"]
<1>1. req[r] \in Calls /\ Reply(r, "ok")
  BY CommitWrites
<1>2. call \in Calls /\ call.pc = "done"
  BY <1>1 DEF Calls
<1>3. req' = [req EXCEPT ![r] = call]
  BY <1>1 DEF Reply
<1> HIDE DEF call
<1>4. QED  BY <1>2, <1>3 DEF IInv, Shapes

LEMMA CommitSteps ==
  ASSUME IInv, NEW r \in Requests, PlaceCommit(r)
  PROVE  IInv'
<1>1. PICK n, w, stake, type, key :
        n = req[r].number /\ w = req[r].wallet /\ stake = req[r].stake
          /\ type = req[r].type /\ key = req[r].key
  OBVIOUS
<1>2. PICK b \in Bets :
        /\ bet[b] = NoBet
        /\ bet' = [bet EXCEPT ![b] =
             [status |-> "PENDING", hold |-> "HELD", round |-> n, wallet |-> w, type |-> type,
              stake |-> stake, key |-> key, payout |-> 0]]
  BY <1>1, CommitWrites
<1>3. /\ n \in Rounds /\ w \in Wallets /\ stake \in Stakes /\ stake \in Nat /\ type \in Types
      /\ key \in Keys
  BY <1>1, CommitWrites, RouletteAssumption DEF Calls
<1>4. /\ bet' \in [Bets -> BetRows]
      /\ bet'[b] = [status |-> "PENDING", hold |-> "HELD", round |-> n, wallet |-> w,
                    type |-> type, stake |-> stake, key |-> key, payout |-> 0]
      /\ \A x \in Bets \ {b} : bet'[x] = bet[x]
  <2>1. n \in 0..MaxRounds
    BY <1>3, RouletteAssumption DEF Rounds
  <2>2. QED  BY <1>2, <1>3, <2>1 DEF IInv, Shapes, BetRows
<1>5. /\ round' \in [Rounds -> RoundRows] /\ round'[n].status = "OPEN"
      /\ round'[n].staked = round[n].staked + stake /\ round'[n].payout = round[n].payout
      /\ round'[n].number = NoNumber /\ \A m \in Rounds \ {n} : round'[m] = round[m]
  BY <1>1, CommitWrites
<1>6. /\ Placed' = Placed \cup {b} /\ b \notin Placed
      /\ Created' = Created \cup {n} /\ 1..n \subseteq Created \cup {n}
  <2>1. Created' = Created \cup {n}
    BY <1>3, <1>5 DEF Created
  <2>2. 1..n \subseteq Created \cup {n}
    <3>1. n \in Nat /\ 1..(n - 1) \subseteq Created
      BY <1>1, <1>3, CommitWrites DEF NextNumber, Rounds
    <3>2. QED  BY <3>1
  <2>3. QED  BY <1>2, <1>4, <2>1, <2>2 DEF Placed, NoBet
<1>7. /\ BetsOf(n)' = BetsOf(n) \cup {b} /\ b \notin BetsOf(n)
      /\ HeldOn(w)' = HeldOn(w) \cup {b} /\ b \notin HeldOn(w)
      /\ \A m \in Rounds \ {n} : BetsOf(m)' = BetsOf(m) /\ b \notin BetsOf(m)
      /\ \A v \in Wallets \ {w} : HeldOn(v)' = HeldOn(v) /\ b \notin HeldOn(v)
  <2>1. \A m \in Rounds : m # 0
    BY DEF Rounds
  <2>2. QED  BY <1>2, <1>3, <1>4, <2>1 DEF BetsOf, HeldOn, NoBet
<1>8. /\ \A x \in Bets \ {b} : StakeOf'[x] = StakeOf[x] /\ StakeOf[x] \in Nat
      /\ StakeOf'[b] = stake
  BY <1>4, Counted DEF StakeOf
<1>9. Shapes'
  <2>1. roundLock' \in [Rounds -> Requests \cup {NoRequest}]
    <3>1. roundLock' = Unlocked(r)
      BY CommitWrites
    <3>2. QED  BY <3>1 DEF Unlocked, IInv, Shapes
  <2>2. req' \in [Requests -> {Idle} \cup Calls]
    BY CommitAnswers
  <2>3. QED  BY <1>4, <1>5, <2>1, <2>2, CommitWrites DEF IInv, Shapes
<1>10. RoundsInOrder'
  <2> SUFFICES ASSUME NEW m \in Rounds
               PROVE  /\ round'[m].status = "NONE" => round'[m] = NoRound /\ BetsOf(m)' = {}
                      /\ m \in Created' => 1..m \subseteq Created'
                      /\ round'[m].number = NoNumber <=>
                           round'[m].status \in {"NONE", "OPEN", "CLOSED"}
    BY DEF RoundsInOrder
  <2>1. CASE m = n
    BY <1>5, <1>6, <2>1
  <2>2. CASE m # n
    BY <1>5, <1>6, <1>7, <2>2 DEF IInv, RoundsInOrder
  <2>3. QED  BY <2>1, <2>2
<1>11. BetsInOrder'
  <2>1. IsFiniteSet(Placed')
    BY <1>6, FS_AddElement DEF IInv, BetsInOrder
  <2>2. \A x \in Bets \ Placed' : bet'[x] = NoBet
    BY <1>4, <1>6 DEF IInv, BetsInOrder
  <2>3. \A x \in Placed' :
          /\ bet'[x].round \in Rounds /\ bet'[x].wallet \in Wallets
          /\ bet'[x].type \in Types /\ bet'[x].stake \in Stakes
          /\ bet'[x].status = "PENDING" => bet'[x].payout = 0
    <3>1. \A x \in Placed : x \in Bets \ {b}
      BY <1>6 DEF Placed
    <3>2. QED  BY <1>3, <1>4, <1>6, <3>1 DEF IInv, BetsInOrder
  <2>4. QED  BY <2>1, <2>2, <2>3 DEF BetsInOrder
<1>12. ASSUME NEW S, S \subseteq Placed, IsFiniteSet(S)
       PROVE  /\ Total(StakeOf', S) = Total(StakeOf, S)
              /\ Total(StakeOf', S \cup {b}) = Total(StakeOf, S) + stake
  <2>1. b \notin S /\ S \subseteq Bets
    BY <1>6, <1>12 DEF Placed
  <2>2. /\ \A x \in S : StakeOf'[x] = StakeOf[x] /\ StakeOf'[x] \in Nat
        /\ StakeOf'[b] = stake /\ stake \in Nat
    BY <1>3, <1>8, <2>1
  <2>3. \A x \in S \cup {b} : StakeOf'[x] \in Nat
    BY <2>2
  <2>4. Total(StakeOf', S) = Total(StakeOf, S)
    BY <2>2, TotalSame
  <2>5. Total(StakeOf', S \cup {b}) = Total(StakeOf', S) + StakeOf'[b]
    BY <1>12, <2>1, <2>3, TotalAdd
  <2>6. QED  BY <2>2, <2>4, <2>5
<1>13. LockedMatchesHeld'
  <2>1. Total(StakeOf', HeldOn(w) \cup {b}) = Total(StakeOf, HeldOn(w)) + stake
    BY <1>3, <1>12, Counted
  <2>2. \A v \in Wallets : Total(StakeOf', HeldOn(v)) = Total(StakeOf, HeldOn(v))
    BY <1>12, Counted
  <2>3. /\ wallet'[w].locked = wallet[w].locked + stake
        /\ \A v \in Wallets \ {w} : wallet'[v].locked = wallet[v].locked
    BY <1>1, CommitWrites
  <2>4. QED  BY <1>3, <1>7, <2>1, <2>2, <2>3 DEF IInv, LockedMatchesHeld
<1>14. RoundsAddUp'
  <2>1. Total(StakeOf', BetsOf(n) \cup {b}) = Total(StakeOf, BetsOf(n)) + stake
    BY <1>3, <1>12, Counted
  <2>2. \A m \in Rounds : Total(StakeOf', BetsOf(m)) = Total(StakeOf, BetsOf(m))
    BY <1>12, Counted
  <2> DEFINE paid == [x \in Bets |-> bet[x].payout]
             paidNow == [x \in Bets |-> bet'[x].payout]
  <2>3. \A m \in Rounds : \A x \in BetsOf(m) : x \in Bets /\ x # b /\ bet'[x] = bet[x]
    BY <1>3, <1>4, <1>7 DEF BetsOf
  <2>4. \A m \in Rounds : Total(paidNow, BetsOf(m)) = Total(paid, BetsOf(m))
    <3>1. \A m \in Rounds : \A x \in BetsOf(m) : paidNow[x] = paid[x]
      BY <2>3
    <3> HIDE DEF paid, paidNow
    <3>2. QED  BY <3>1, TotalSame
  <2>5. \A x \in BetsOf(n) : bet[x].status = "PENDING" /\ bet[x].payout = 0
    <3>1. round[n].status # "SETTLED"
      BY <1>1, CommitWrites
    <3>2. QED  BY <1>3, <2>3, <3>1, Counted DEF IInv, RoundsAddUp, BetsInOrder
  <2>6. Total(paidNow, BetsOf(n) \cup {b}) = 0 /\ Total(paid, BetsOf(n)) = 0
    <3>1. /\ \A x \in BetsOf(n) \cup {b} : paidNow[x] = 0
          /\ \A x \in BetsOf(n) : paid[x] = 0
      BY <1>3, <1>4, <2>3, <2>5
    <3> HIDE DEF paid, paidNow
    <3>2. QED  BY <3>1, TotalOfNothing
  <2>7. \A m \in Rounds : /\ round[m].staked = Total(StakeOf, BetsOf(m))
                          /\ round[m].payout = Total(paid, BetsOf(m))
    BY DEF IInv, RoundsAddUp
  <2>8. \A m \in Rounds : /\ round'[m].staked = Total(StakeOf', BetsOf(m)')
                          /\ round'[m].payout = Total(paidNow, BetsOf(m)')
    <3> HIDE DEF paid, paidNow
    <3>1. /\ round'[n].staked = Total(StakeOf', BetsOf(n)')
          /\ round'[n].payout = Total(paidNow, BetsOf(n)')
      BY <1>3, <1>5, <1>7, <2>1, <2>6, <2>7
    <3>2. ASSUME NEW m \in Rounds \ {n}
          PROVE  /\ round'[m].staked = Total(StakeOf', BetsOf(m)')
                 /\ round'[m].payout = Total(paidNow, BetsOf(m)')
      BY <1>5, <1>7, <2>2, <2>4, <2>7
    <3>3. QED  BY <3>1, <3>2
  <2>9. \A m \in Rounds : \A x \in BetsOf(m)' :
          IF round'[m].status = "SETTLED"
          THEN /\ bet'[x].status = Outcome(x, round[m].number)'
               /\ bet'[x].payout = Pays(x, round[m].number)'
          ELSE bet'[x].status = "PENDING"
    <3>1. \A x \in BetsOf(n)' : bet'[x].status = "PENDING"
      BY <1>4, <1>7, <2>3, <2>5, <1>3
    <3>2. ASSUME NEW m \in Rounds \ {n}, NEW x \in BetsOf(m)
          PROVE  IF round'[m].status = "SETTLED"
                 THEN /\ bet'[x].status = Outcome(x, round[m].number)'
                      /\ bet'[x].payout = Pays(x, round[m].number)'
                 ELSE bet'[x].status = "PENDING"
      <4>1. round'[m] = round[m] /\ bet'[x] = bet[x] /\ m \in Rounds
        BY <1>5, <2>3
      <4>2. IF round[m].status = "SETTLED"
            THEN /\ bet[x].status = Outcome(x, round[m].number)
                 /\ bet[x].payout = Pays(x, round[m].number)
            ELSE bet[x].status = "PENDING"
        BY <4>1, Zenon DEF IInv, RoundsAddUp
      <4>3. /\ Outcome(x, round[m].number)' = Outcome(x, round[m].number)
            /\ Pays(x, round[m].number)' = Pays(x, round[m].number)
        BY <4>1 DEF Outcome, Pays
      <4>4. QED  BY <4>1, <4>2, <4>3
    <3>3. QED  BY <1>5, <1>7, <3>1, <3>2
  <2>10. QED  BY <2>8, <2>9 DEF RoundsAddUp
<1>15. WorkersInOrder'
  <2>1. UNCHANGED worker /\ Created \subseteq Created'
    BY <1>6, CommitWrites
  <2>2. QED  BY <2>1, WorkersStay
<1>16. CallsInOrder'
  <2>1. /\ req'[r].pc = "done" /\ \A q \in Requests \ {r} : req'[q] = req[q]
    BY CommitAnswers
  <2>2. \A m \in Rounds : roundLock[m] # r => roundLock'[m] = roundLock[m]
    <3>1. roundLock' = Unlocked(r)
      BY CommitWrites
    <3>2. QED  BY <3>1 DEF Unlocked
  <2>3. roundLock[n] = r
    BY <1>1, CommitWrites
  <2> SUFFICES ASSUME NEW q \in Requests \ {r}, NEW m, m = req[q].number
               PROVE  /\ req[q].pc \in {"clock", "lock"} => m \in Created'
                      /\ req[q].pc \in {"insert", "wallet"} => NextNumber(m)'
                      /\ req[q].pc = "wallet" => /\ roundLock'[m] = q
                                                 /\ round'[m].status \in {"NONE", "OPEN"}
    BY <2>1 DEF CallsInOrder
  <2>5. /\ req[q].pc \in {"clock", "lock"} => m \in Created
        /\ req[q].pc \in {"insert", "wallet"} => NextNumber(m)
        /\ req[q].pc = "wallet" => roundLock[m] = q /\ round[m].status \in {"NONE", "OPEN"}
    BY DEF IInv, CallsInOrder
  <2>6. NextNumber(m) => NextNumber(m)' /\ m \in Rounds
    BY <1>6 DEF NextNumber
  <2>7. req[q].pc = "wallet" => roundLock'[m] = q /\ round'[m].status \in {"NONE", "OPEN"}
    BY <1>5, <2>2, <2>3, <2>5, <2>6
  <2>8. QED  BY <1>6, <2>5, <2>6, <2>7
<1>17. QED  BY <1>9, <1>10, <1>11, <1>13, <1>14, <1>15, <1>16 DEF IInv

-----------------------------------------------------------------------------
(***************************************************************************)
(* The step that settles a round.                                          *)
(***************************************************************************)

\* The bets of a spinning round are all pending.
LEMMA SpinningBets ==
  ASSUME IInv, NEW n \in Rounds, round[n].status = "SPINNING"
  PROVE  /\ Pending(n) = BetsOf(n) /\ Pending(n) \subseteq Placed /\ IsFiniteSet(Pending(n))
         /\ round[n].number \in Wheel
<1>1. Pending(n) = BetsOf(n)
  BY DEF IInv, RoundsAddUp, Pending, BetsOf
<1>2. round[n].number \in Wheel
  BY DEF IInv, Shapes, RoundRows, RoundsInOrder
<1>3. QED  BY <1>1, <1>2, Counted

\* What a bet is paid is a natural number.
LEMMA PaysType ==
  ASSUME IInv, NEW b \in Placed, NEW number \in Wheel
  PROVE  Pays(b, number) \in Nat /\ Outcome(b, number) \in {"WON", "LOST"}
<1>1. bet[b].type \in BetTypes /\ bet[b].stake \in Nat
  BY RouletteAssumption DEF IInv, BetsInOrder
<1>2. PayoutMultiplier(bet[b].type) \in {2, 7, 14}
  BY <1>1 DEF PayoutMultiplier, BetTypes
<1>3. bet[b].stake * PayoutMultiplier(bet[b].type) \in Nat
  BY <1>1, <1>2
<1>4. QED  BY <1>3 DEF Pays, ComputePayout, Outcome

LEMMA SettleSteps ==
  ASSUME IInv, NEW p \in Replicas, SettleRound(p)
  PROVE  IInv'
<1> DEFINE due == Due("SPINNING", 2)
<1>1. PICK n \in Rounds : n \in due /\ n = Min(due)
  <2>1. due # {} /\ due \subseteq Rounds
    BY DEF SettleRound, Due
  <2>2. QED  BY <2>1, Earliest
<1>2. PICK number : number = round[n].number
  OBVIOUS
<1>3. /\ round[n].status = "SPINNING" /\ roundLock[n] = NoRequest /\ number \in Wheel
      /\ Pending(n) = BetsOf(n) /\ Pending(n) \subseteq Placed /\ IsFiniteSet(Pending(n))
      /\ Pending(n) \subseteq Bets
  BY <1>1, <1>2, SpinningBets DEF Due, Pending
<1>4. /\ Settleable(n) /\ wallet' = SettledWallets(n)
      /\ bet' = [b \in Bets |->
                  IF b \in Pending(n)
                  THEN [bet[b] EXCEPT !.status = Outcome(b, number),
                                      !.payout = Pays(b, number),
                                      !.hold = "CAPTURED"]
                  ELSE bet[b]]
      /\ round' = [round EXCEPT ![n].status = "SETTLED", ![n].number = number,
                                ![n].payout = Total(PayoutAt(number), Pending(n))]
      /\ pause' = TRUE /\ UNCHANGED <<clock, roundLock, worker, req>>
  BY <1>1, <1>2 DEF SettleRound, Winner
<1>5. ASSUME NEW b \in Pending(n)
      PROVE  /\ Pays(b, number) \in Nat /\ Outcome(b, number) \in {"WON", "LOST"}
             /\ bet[b] \in BetRows /\ bet'[b] \in BetRows
             /\ bet'[b].status = Outcome(b, number) /\ bet'[b].payout = Pays(b, number)
             /\ bet'[b].hold = "CAPTURED"
             /\ bet'[b].round = bet[b].round /\ bet'[b].wallet = bet[b].wallet
             /\ bet'[b].type = bet[b].type /\ bet'[b].stake = bet[b].stake
  <2>1. Pays(b, number) \in Nat /\ Outcome(b, number) \in {"WON", "LOST"} /\ b \in Bets
    BY <1>3, PaysType
  <2>2. bet[b] \in BetRows
    BY <2>1 DEF IInv, Shapes
  <2>3. bet'[b] = [bet[b] EXCEPT !.status = Outcome(b, number), !.payout = Pays(b, number),
                                 !.hold = "CAPTURED"]
    BY <1>4, <2>1
  <2>4. QED  BY <2>1, <2>2, <2>3 DEF BetRows
<1>6. \A b \in Bets \ Pending(n) : bet'[b] = bet[b]
  BY <1>4
<1>7. /\ Placed' = Placed /\ StakeOf' = StakeOf
      /\ \A m \in Rounds : BetsOf(m)' = BetsOf(m)
      /\ \A w \in Wallets : HeldOn(w)' = HeldOn(w) \ Pending(n)
  <2>1. Placed' = Placed
    BY <1>3, <1>5, <1>6 DEF Placed
  <2>2. \A b \in Bets : /\ bet'[b].stake = bet[b].stake /\ bet'[b].round = bet[b].round
                        /\ bet'[b].wallet = bet[b].wallet
    BY <1>5, <1>6
  <2>3. \A b \in Bets : bet'[b].hold = "HELD" <=> bet[b].hold = "HELD" /\ b \notin Pending(n)
    BY <1>5, <1>6
  <2>4. QED  BY <2>1, <2>2, <2>3 DEF StakeOf, BetsOf, HeldOn
<1>8. /\ round' \in [Rounds -> RoundRows] /\ round'[n].status = "SETTLED"
      /\ round'[n].number = number /\ round'[n].staked = round[n].staked
      /\ round'[n].payout = Total(PayoutAt(number), Pending(n))
      /\ \A m \in Rounds \ {n} : round'[m] = round[m]
  <2>1. Total(PayoutAt(number), Pending(n)) \in Nat
    <3>1. \A b \in Pending(n) : PayoutAt(number)[b] \in Nat
      BY <1>3, <1>5 DEF PayoutAt
    <3>2. QED  BY <1>3, <3>1, TotalType
  <2> DEFINE row == [round[n] EXCEPT !.status = "SETTLED", !.number = number,
                                     !.payout = Total(PayoutAt(number), Pending(n))]
  <2>2. round' = [round EXCEPT ![n] = row]
    BY <1>4 DEF IInv, Shapes
  <2>3. /\ row \in RoundRows /\ row.status = "SETTLED" /\ row.number = number
        /\ row.staked = round[n].staked /\ row.payout = Total(PayoutAt(number), Pending(n))
    <3>1. round[n] \in RoundRows
      BY DEF IInv, Shapes
    <3>2. QED  BY <1>3, <2>1, <3>1 DEF RoundRows
  <2> HIDE DEF row
  <2>4. QED  BY <2>2, <2>3 DEF IInv, Shapes
<1>9. Created' = Created
  BY <1>1, <1>3, <1>8 DEF Created
<1> DEFINE Captured(w) == {b \in {x \in Pending(n) : bet[x].wallet = w} : ToCapture(b)}
<1>10. ASSUME NEW w \in Wallets
       PROVE  /\ wallet'[w] \in WalletRows
              /\ wallet'[w].locked = Total(StakeOf, HeldOn(w)')
  <2>1. PICK taken, given :
          /\ taken = Total(StakeOf, Captured(w))
          /\ given = Total(PayoutAt(number), {b \in Pending(n) : bet[b].wallet = w})
    OBVIOUS
  <2>2. wallet'[w] = [wallet[w] EXCEPT !.balance = @ + given, !.locked = @ - taken]
    BY <1>2, <1>4, <2>1 DEF SettledWallets, Winner
  <2>3. wallet[w] \in WalletRows
    BY DEF IInv, Shapes
  <2>4. wallet'[w].balance = wallet[w].balance + given /\ wallet'[w].locked = wallet[w].locked - taken
          /\ wallet'[w].wager = wallet[w].wager
    BY <2>2, <2>3 DEF WalletRows
  <2>5. wallet'[w].balance \in 0..BigintMax
    BY <1>4 DEF Settleable, Fits
  <2> DEFINE others == HeldOn(w) \ Pending(n)
             captured == Captured(w)
  <2>6. HeldOn(w) = others \cup captured /\ others \cap captured = {}
    BY <1>3 DEF HeldOn, ToCapture
  <2>7. /\ IsFiniteSet(others) /\ IsFiniteSet(captured)
        /\ \A b \in others \cup captured : StakeOf[b] \in Nat
    <3>1. others \subseteq HeldOn(w) /\ captured \subseteq HeldOn(w) /\ HeldOn(w) \subseteq Bets
      BY <2>6 DEF HeldOn
    <3>2. QED  BY <3>1, Counted, FS_Subset
  <2>8. Total(StakeOf, others \cup captured) = wallet[w].locked
    BY <2>6, Zenon DEF IInv, LockedMatchesHeld
  <2>9. taken = Total(StakeOf, captured)
    BY <2>1
  <2> HIDE DEF others, captured
  <2>10. Total(StakeOf, others \cup captured) = Total(StakeOf, others) + Total(StakeOf, captured)
    BY <2>6, <2>7, TotalSplit
  <2>11. Total(StakeOf, others) \in Nat /\ Total(StakeOf, captured) \in Nat
    BY <2>7, TotalType
  <2>12. wallet'[w].locked = Total(StakeOf, others) /\ wallet'[w].locked \in 0..BigintMax
    <3>1. wallet[w].locked \in 0..BigintMax
      BY <2>3 DEF WalletRows
    <3>2. QED  BY <2>4, <2>8, <2>9, <2>10, <2>11, <3>1, BigintAssumption
  <2>13. wallet'[w] \in WalletRows
    BY <2>2, <2>3, <2>4, <2>5, <2>12 DEF WalletRows
  <2>14. QED  BY <1>7, <2>12, <2>13 DEF others
<1>11. LockedMatchesHeld'
  BY <1>7, <1>10 DEF LockedMatchesHeld
<1>12. Shapes'
  <2>1. wallet' \in [Wallets -> WalletRows]
    BY <1>4, <1>10 DEF SettledWallets
  <2>2. bet' \in [Bets -> BetRows]
    <3>1. \A b \in Bets : bet'[b] \in BetRows
      BY <1>5, <1>6 DEF IInv, Shapes
    <3>2. QED  BY <1>4, <3>1
  <2>3. QED  BY <1>4, <1>8, <2>1, <2>2 DEF IInv, Shapes
<1>13. RoundsInOrder'
  <2> SUFFICES ASSUME NEW m \in Rounds
               PROVE  /\ round'[m].status = "NONE" => round'[m] = NoRound /\ BetsOf(m) = {}
                      /\ m \in Created => 1..m \subseteq Created
                      /\ round'[m].number = NoNumber <=>
                           round'[m].status \in {"NONE", "OPEN", "CLOSED"}
    BY <1>7, <1>9 DEF RoundsInOrder
  <2>1. CASE m = n
    BY <1>3, <1>8, <2>1, RouletteAssumption DEF IInv, RoundsInOrder
  <2>2. CASE m # n
    BY <1>8, <2>2 DEF IInv, RoundsInOrder
  <2>3. QED  BY <2>1, <2>2
<1>14. BetsInOrder'
  <2>1. \A b \in Placed : b \in Bets
    BY DEF Placed
  <2>2. \A b \in Bets \ Placed : bet'[b] = NoBet
    BY <1>3, <1>6 DEF IInv, BetsInOrder
  <2>3. \A b \in Placed :
          /\ bet'[b].round \in Rounds /\ bet'[b].wallet \in Wallets
          /\ bet'[b].type \in Types /\ bet'[b].stake \in Stakes
          /\ bet'[b].status = "PENDING" => bet'[b].payout = 0
    BY <1>5, <1>6, <2>1 DEF IInv, BetsInOrder
  <2>4. QED  BY <1>7, <2>2, <2>3 DEF IInv, BetsInOrder
<1>15. RoundsAddUp'
  <2> DEFINE paid == [b \in Bets |-> bet[b].payout]
             paidNow == [b \in Bets |-> bet'[b].payout]
  <2>1. Total(paidNow, BetsOf(n)) = Total(PayoutAt(number), Pending(n))
    <3>1. \A b \in BetsOf(n) : paidNow[b] = PayoutAt(number)[b]
      BY <1>3, <1>5 DEF PayoutAt
    <3> HIDE DEF paidNow
    <3>2. Total(paidNow, BetsOf(n)) = Total(PayoutAt(number), BetsOf(n))
      BY <3>1, TotalSame
    <3>3. QED  BY <1>3, <3>2, Zenon
  <2>2. \A m \in Rounds \ {n} : \A b \in BetsOf(m) : b \in Bets /\ bet'[b] = bet[b]
    BY <1>3, <1>6 DEF BetsOf
  <2>3. \A m \in Rounds \ {n} : Total(paidNow, BetsOf(m)) = Total(paid, BetsOf(m))
    <3>1. \A m \in Rounds \ {n} : \A b \in BetsOf(m) : paidNow[b] = paid[b]
      BY <2>2
    <3> HIDE DEF paid, paidNow
    <3>2. QED  BY <3>1, TotalSame
  <2>4. \A m \in Rounds : /\ round[m].staked = Total(StakeOf, BetsOf(m))
                          /\ round[m].payout = Total(paid, BetsOf(m))
    BY DEF IInv, RoundsAddUp
  <2>5. \A m \in Rounds : /\ round'[m].staked = Total(StakeOf', BetsOf(m)')
                          /\ round'[m].payout = Total(paidNow, BetsOf(m)')
    <3> HIDE DEF paid, paidNow
    <3>1. QED  BY <1>7, <1>8, <2>1, <2>3, <2>4
  <2>6. ASSUME NEW m \in Rounds, NEW b \in BetsOf(m)
        PROVE  IF round'[m].status = "SETTLED"
               THEN /\ bet'[b].status = Outcome(b, round[m].number)'
                    /\ bet'[b].payout = Pays(b, round[m].number)'
               ELSE bet'[b].status = "PENDING"
    <3>1. CASE m = n
      <4>1. /\ Outcome(b, round[m].number)' = Outcome(b, number)
            /\ Pays(b, round[m].number)' = Pays(b, number)
        BY <1>3, <1>5, <1>8, <3>1 DEF Outcome, Pays
      <4>2. QED  BY <1>3, <1>5, <1>8, <3>1, <4>1
    <3>2. CASE m # n
      <4>1. round'[m] = round[m] /\ bet'[b] = bet[b]
        BY <1>8, <2>2, <3>2
      <4>2. IF round[m].status = "SETTLED"
            THEN /\ bet[b].status = Outcome(b, round[m].number)
                 /\ bet[b].payout = Pays(b, round[m].number)
            ELSE bet[b].status = "PENDING"
        BY Zenon DEF IInv, RoundsAddUp
      <4>3. /\ Outcome(b, round[m].number)' = Outcome(b, round[m].number)
            /\ Pays(b, round[m].number)' = Pays(b, round[m].number)
        BY <4>1 DEF Outcome, Pays
      <4>4. QED  BY <4>1, <4>2, <4>3
    <3>3. QED  BY <3>1, <3>2
  <2>7. QED  BY <1>7, <2>5, <2>6 DEF RoundsAddUp
<1>16. WorkersInOrder' /\ CallsInOrder'
  <2>1. \A m \in Rounds : roundLock[m] # NoRequest => round'[m].status = round[m].status
    BY <1>3, <1>8
  <2>2. QED  BY <1>4, <1>9, <2>1, WorkersStay, CallsStay
<1>17. QED  BY <1>11, <1>12, <1>13, <1>14, <1>15, <1>16 DEF IInv

-----------------------------------------------------------------------------
(***************************************************************************)
(* The theorems.                                                           *)
(***************************************************************************)

LEMMA RouletteStep == IInv /\ [Next]_vars => IInv'
<1> SUFFICES ASSUME IInv, [Next]_vars PROVE IInv'
  OBVIOUS
<1>1. CASE UNCHANGED vars
  <2>1. RowsStay /\ UNCHANGED <<clock, pause, roundLock, worker, req>>
    BY <1>1 DEF vars, RowsStay
  <2>2. WorkersInOrder' /\ CallsInOrder'
    BY <2>1, RowsStayInOrder, WorkersStay, CallsStay DEF RowsStay
  <2>3. Shapes'
    BY <2>1 DEF IInv, Shapes, RowsStay
  <2>4. QED  BY <2>1, <2>2, <2>3, RowsStayInOrder DEF IInv
<1>2. CASE PauseOver \/ \E n \in Rounds : DeadlinePasses(n)
  BY <1>2, TimePasses
<1>3. ASSUME NEW p \in Replicas, WorkerStep(p) PROVE IInv'
  BY <1>3, TickSteps, CloseSteps, SpinSteps, SettleSteps, InsertSteps DEF WorkerStep, FinishTick
<1>4. ASSUME NEW r \in Requests, Submit(r) \/ Serve(r) \/ Fail(r) PROVE IInv'
  BY <1>4, CallBeginsOrEnds, CallSteps, CommitSteps DEF Serve
<1>5. ASSUME NEW b \in Bets, NEW key \in Keys, AdminRelease(b, key) \/ AdminCapture(b, key)
      PROVE  IInv'
  BY <1>5, AdminSteps
<1>6. ASSUME NEW w \in Wallets, NEW delta \in Deltas, NEW key \in Keys, Adjust(w, delta, key)
      PROVE  IInv'
  BY <1>6, AdjustSteps
<1>7. QED  BY <1>1, <1>2, <1>3, <1>4, <1>5, <1>6 DEF Next

\* The totals of every round are those of its bets, and a settled round has
\* settled each of them by the number drawn, for any number of rounds, bets,
\* replicas and placements that overlap.
THEOREM TotalsMatchBets == Spec => []RoundsAddUp
<1>1. IInv => RoundsAddUp
  BY DEF IInv
<1>2. QED  BY <1>1, RouletteInit, RouletteStep, PTL DEF Spec

\* Whichever placements, settlements, releases and captures meet on a round,
\* the locked funds are the stakes held, balances stay within their columns and
\* round numbers have no gap.
THEOREM StakesLocked == Spec => []StakesAddUp
<1>1. IInv => StakesAddUp
  <2> SUFFICES ASSUME IInv PROVE StakesAddUp
    OBVIOUS
  <2>1. Created = 1..Cardinality(Created)
    BY LatestIsNext DEF LatestNumber
  <2>2. QED  BY <2>1 DEF StakesAddUp, TypeOK, IInv, Shapes
<1>2. QED  BY <1>1, RouletteInit, RouletteStep, PTL DEF Spec

\* A row and its bets that stay as they are go forward.
LEMMA StayForward ==
  ASSUME IInv, NEW n \in Rounds, round'[n] = round[n], BetsOf(n)' = BetsOf(n)
  PROVE  GoesForward(n)
<1>1. round[n] \in RoundRows
  BY DEF IInv, Shapes
<1>2. Stage(round[n].status) \in Int /\ round[n].staked \in Nat
  BY <1>1 DEF RoundRows, Stage
<1>3. QED  BY <1>2 DEF GoesForward

\* Each state has one that follows it, and nothing leads back.
LEMMA ForwardStep ==
  ASSUME IInv, [Next]_vars, NEW n \in Rounds
  PROVE  GoesForward(n)
<1>0. round[n] \in RoundRows /\ round[n].staked \in Nat
  BY DEF IInv, Shapes, RoundRows
<1>1. CASE round' = round /\ \A b \in Bets : bet'[b].round = bet[b].round
  BY <1>1, StayForward DEF BetsOf
<1>2. ASSUME UNCHANGED bet,
             NEW m \in Rounds, NEW from \in {"NONE", "OPEN", "CLOSED"}, round[m].status = from,
             \A k \in Rounds \ {m} : round'[k] = round[k],
             Stage(round'[m].status) = Stage(from) + 1, round'[m].staked = round[m].staked
      PROVE  GoesForward(n)
  <2>1. BetsOf(n)' = BetsOf(n)
    BY <1>2 DEF BetsOf
  <2>2. CASE n = m
    <3>1. round[n].number = NoNumber
      BY <1>2, <2>2 DEF IInv, RoundsInOrder
    <3>2. Stage(from) \in Int
      BY DEF Stage
    <3>3. QED  BY <1>0, <1>2, <2>1, <2>2, <3>1, <3>2 DEF GoesForward
  <2>3. CASE n # m
    BY <1>2, <2>1, <2>3, StayForward
  <2>4. QED  BY <2>2, <2>3
<1>3. ASSUME NEW p \in Replicas, CloseRoundOnce(p) PROVE GoesForward(n)
  <2> DEFINE due == Due("OPEN", 1)
  <2>1. CASE due = {}
    BY <1>1, <1>3, <2>1 DEF CloseRoundOnce
  <2>2. CASE due # {}
    <3>1. PICK m \in Rounds : m \in due /\ m = Min(due)
      BY <2>2, Earliest DEF Due
    <3>2. UNCHANGED bet /\ round' = [round EXCEPT ![m].status = "CLOSED"]
      BY <1>3, <2>2, <3>1 DEF CloseRoundOnce
    <3>3. round[m].status = "OPEN" /\ round[m] \in RoundRows
      BY <3>1 DEF Due, IInv, Shapes
    <3>4. /\ round'[m].status = "CLOSED" /\ round'[m].staked = round[m].staked
          /\ \A k \in Rounds \ {m} : round'[k] = round[k]
      BY <3>2, <3>3 DEF IInv, Shapes, RoundRows
    <3>5. QED  BY <1>2, <3>2, <3>3, <3>4 DEF Stage
  <2>3. QED  BY <2>1, <2>2
<1>4. ASSUME NEW p \in Replicas, StartSpinningRoundOnce(p) PROVE GoesForward(n)
  <2> DEFINE due == Due("CLOSED", 1)
  <2>1. CASE due = {}
    BY <1>1, <1>4, <2>1 DEF StartSpinningRoundOnce
  <2>2. CASE due # {}
    <3>1. PICK m \in Rounds : m \in due /\ m = Min(due)
      BY <2>2, Earliest DEF Due
    <3>2. PICK number \in Wheel :
            UNCHANGED bet /\ round' = [round EXCEPT ![m].status = "SPINNING", ![m].number = number]
      BY <1>4, <2>2, <3>1 DEF StartSpinningRoundOnce
    <3>3. round[m].status = "CLOSED" /\ round[m] \in RoundRows
      BY <3>1 DEF Due, IInv, Shapes
    <3>4. /\ round'[m].status = "SPINNING" /\ round'[m].staked = round[m].staked
          /\ \A k \in Rounds \ {m} : round'[k] = round[k]
      BY <3>2, <3>3 DEF IInv, Shapes, RoundRows
    <3>5. UNCHANGED bet /\ round[m].status = "CLOSED"
      BY <3>2, <3>3
    <3>6. Stage(round'[m].status) = Stage("CLOSED") + 1
      BY <3>4 DEF Stage
    <3>7. QED  BY <1>2, <3>4, <3>5, <3>6, Zenon
  <2>3. QED  BY <2>1, <2>2
<1>5. ASSUME NEW p \in Replicas, InsertRound(p) PROVE GoesForward(n)
  <2>1. PICK m : m = worker[p].number
    OBVIOUS
  <2>2. CASE m \in Created
    BY <1>1, <1>5, <2>1, <2>2 DEF InsertRound
  <2>3. CASE m \notin Created
    <3>1. m \in Rounds /\ UNCHANGED bet /\ round' = [round EXCEPT ![m] = Fresh(0)]
      BY <1>5, <2>1, <2>3 DEF InsertRound, IInv, WorkersInOrder, NextNumber
    <3>2. round[m].status = "NONE" /\ round[m].staked = 0
      BY <2>3, <3>1 DEF Created, IInv, RoundsInOrder, NoRound
    <3>3. /\ round'[m].status = "OPEN" /\ round'[m].staked = 0
          /\ \A k \in Rounds \ {m} : round'[k] = round[k]
      BY <3>1 DEF IInv, Shapes, Fresh
    <3>4. QED  BY <1>2, <3>1, <3>2, <3>3 DEF Stage
  <2>4. QED  BY <2>2, <2>3
<1>6. ASSUME NEW p \in Replicas, SettleRound(p) PROVE GoesForward(n)
  <2> DEFINE due == Due("SPINNING", 2)
  <2>1. PICK m \in Rounds : m \in due /\ m = Min(due)
    <3>1. due # {} /\ due \subseteq Rounds
      BY <1>6 DEF SettleRound, Due
    <3>2. QED  BY <3>1, Earliest
  <2>2. PICK total :
          round' = [round EXCEPT ![m].status = "SETTLED", ![m].number = round[m].number,
                                 ![m].payout = total]
    BY <1>6, <2>1 DEF SettleRound, Winner
  <2>3. round[m].status = "SPINNING" /\ round[m] \in RoundRows
    BY <2>1 DEF Due, IInv, Shapes
  <2>4. /\ round'[m].status = "SETTLED" /\ round'[m].staked = round[m].staked
        /\ round'[m].number = round[m].number
        /\ \A k \in Rounds \ {m} : round'[k] = round[k]
    BY <2>2, <2>3 DEF IInv, Shapes, RoundRows
  <2>5. BetsOf(n)' = BetsOf(n)
    <3>1. \A b \in Bets : bet[b] \in BetRows
      BY DEF IInv, Shapes
    <3>2. \A b \in Bets : bet'[b].round = bet[b].round
      BY <1>6, <3>1 DEF SettleRound, BetRows
    <3>3. QED  BY <3>2 DEF BetsOf
  <2>6. CASE n = m
    BY <1>0, <2>3, <2>4, <2>5, <2>6 DEF GoesForward, Stage
  <2>7. CASE n # m
    BY <2>4, <2>5, <2>7, StayForward
  <2>8. QED  BY <2>6, <2>7
<1>7. ASSUME NEW r \in Requests, PlaceCommit(r) PROVE GoesForward(n)
  <2>1. PICK m, stake : m = req[r].number /\ stake = req[r].stake
    OBVIOUS
  <2>2. /\ m \in Rounds /\ round[m].status \in {"NONE", "OPEN"} /\ stake \in Nat
        /\ round'[m].status = "OPEN" /\ round'[m].staked = round[m].staked + stake
        /\ \A k \in Rounds \ {m} : round'[k] = round[k]
    BY <1>7, <2>1, CommitWrites, RouletteAssumption DEF Calls
  <2>3. CASE n = m
    <3>1. round[n].number = NoNumber
      BY <2>2, <2>3 DEF IInv, RoundsInOrder
    <3>2. QED  BY <1>0, <2>2, <2>3, <3>1 DEF GoesForward, Stage
  <2>4. CASE n # m
    <3>1. PICK b \in Bets :
            /\ bet[b] = NoBet
            /\ bet' = [bet EXCEPT ![b] =
                 [status |-> "PENDING", hold |-> "HELD", round |-> req[r].number,
                  wallet |-> req[r].wallet, type |-> req[r].type,
                  stake |-> req[r].stake, key |-> req[r].key, payout |-> 0]]
      BY <1>7, CommitWrites
    <3>2. bet[b].round # n /\ bet'[b].round # n /\ \A x \in Bets \ {b} : bet'[x] = bet[x]
      BY <2>1, <2>4, <3>1 DEF NoBet, IInv, Shapes, Rounds
    <3>3. BetsOf(n)' = BetsOf(n)
      BY <3>2 DEF BetsOf
    <3>4. QED  BY <2>2, <2>4, <3>3, StayForward
  <2>5. QED  BY <2>3, <2>4
<1>8. ASSUME NEW b \in Bets, NEW key \in Keys, AdminRelease(b, key) \/ AdminCapture(b, key)
      PROVE  GoesForward(n)
  <2>1. round' = round /\ \E hold : bet' = [bet EXCEPT ![b].hold = hold]
    BY <1>8 DEF AdminRelease, AdminCapture
  <2>2. \A x \in Bets : bet'[x].round = bet[x].round
    BY <2>1 DEF IInv, Shapes, BetRows
  <2>3. QED  BY <1>1, <2>1, <2>2
<1>9. ASSUME UNCHANGED <<round, bet>> PROVE GoesForward(n)
  BY <1>1, <1>9
<1>10. ASSUME NEW p \in Replicas, WorkerStep(p) PROVE GoesForward(n)
  BY <1>3, <1>4, <1>5, <1>6, <1>9, <1>10 DEF WorkerStep, FinishTick, Tick, GetCurrentRound,
     TickFails, SettleThrows, SettleNone, EnsureOpenRounds, EnsureLook, ReadNumber
<1>11. ASSUME NEW r \in Requests, Submit(r) \/ Serve(r) \/ Fail(r) PROVE GoesForward(n)
  BY <1>7, <1>9, <1>11 DEF Serve, Submit, Fail, PlaceLookup, ChooseRound, PlaceNumber, PlaceInsert,
     ReadClock, LockRound, PlaceAbort, Return
<1>12. QED
  BY <1>8, <1>9, <1>10, <1>11 DEF Next, vars, DeadlinePasses, PauseOver, Adjust

\* No round skips, repeats or goes back a state, none takes another's place, and
\* a closed one gets no bet, for any number of replicas and placements.
THEOREM RoundsForward == Spec => RoundsGoForward
<1>1. IInv /\ [Next]_vars => [\A n \in Rounds : GoesForward(n)]_vars
  BY ForwardStep
<1>2. QED  BY <1>1, RouletteInit, RouletteStep, PTL DEF Spec, RoundsGoForward

-----------------------------------------------------------------------------
(***************************************************************************)
(* What the ledgers tell.                                                  *)
(***************************************************************************)

BetReasons == {"BET_HOLD", "BET_RELEASE", "BET_CAPTURE", "BET_PAYOUT"}

LedgerRows ==
  [reason : Reasons, direction : {"CREDIT", "DEBIT"}, amount : Nat, before : Nat, after : Nat,
   key : Keys \cup (Bets \X {"capture", "payout"}), ref : Bets \cup {NoRef}]

PostsOf(rows, b, reason) == {i \in DOMAIN rows : rows[i].ref = b /\ rows[i].reason = reason}

\* The rows a bet has by what became of it.
Tells(row, reason) ==
  \/ reason = "BET_HOLD" /\ row.status # "NONE"
  \/ reason = "BET_RELEASE" /\ row.hold = "RELEASED"
  \/ reason = "BET_CAPTURE" /\ row.hold = "CAPTURED"
  \/ reason = "BET_PAYOUT" /\ row.status = "WON"

Told(row, rows, b) ==
  \A reason \in BetReasons :
    IF Tells(row, reason) THEN \E i \in DOMAIN rows : PostsOf(rows, b, reason) = {i}
                          ELSE PostsOf(rows, b, reason) = {}

Chained ==
  \A w \in Wallets : /\ ChainFrom(ledger[w], wallet[w].balance)
                     /\ KeysDistinct(ledger[w])

\* A bet not placed has no row in any ledger, a placed one has its rows in the
\* ledger of its wallet.
LInv ==
  /\ ledger \in [Wallets -> Seq(LedgerRows)]
  /\ Chained
  /\ \A b \in Placed : bet[b].hold # "NONE"
  /\ \A w \in Wallets, b \in Bets :
       b \notin Placed \/ bet[b].wallet = w => Told(bet[b], ledger[w], b)

\* Rows are posted after those there are.
LEMMA PostsAfter ==
  ASSUME NEW rows \in Seq(LedgerRows), NEW more \in Seq(LedgerRows), NEW b, NEW reason
  PROVE  /\ PostsOf(rows \o more, b, reason)
              = PostsOf(rows, b, reason) \cup {Len(rows) + i : i \in PostsOf(more, b, reason)}
         /\ DOMAIN rows \subseteq DOMAIN (rows \o more)
         /\ \A i \in DOMAIN more : Len(rows) + i \in DOMAIN (rows \o more)
<1> DEFINE new == rows \o more
           k == Len(rows)
           m == Len(more)
<1>1. /\ k \in Nat /\ m \in Nat /\ Len(new) = k + m /\ new \in Seq(LedgerRows)
      /\ DOMAIN rows = 1..k /\ DOMAIN more = 1..m /\ DOMAIN new = 1..(k + m)
      /\ \A i \in 1..(k + m) : new[i] = IF i =< k THEN rows[i] ELSE more[i - k]
  BY ConcatProperties
<1> HIDE DEF new, k, m
<1>2. \A i \in 1..k : i \in DOMAIN new /\ new[i] = rows[i]
  BY <1>1
<1>3. \A i \in 1..m : k + i \in DOMAIN new /\ new[k + i] = more[i]
  <2> SUFFICES ASSUME NEW i \in 1..m PROVE k + i \in DOMAIN new /\ new[k + i] = more[i]
    OBVIOUS
  <2>1. k + i \in 1..(k + m) /\ ~(k + i =< k) /\ (k + i) - k = i
    BY <1>1
  <2>2. QED  BY <1>1, <2>1
<1>4. \A i \in DOMAIN new : i \in 1..k \/ \E j \in 1..m : i = k + j
  <2> SUFFICES ASSUME NEW i \in DOMAIN new, i \notin 1..k PROVE \E j \in 1..m : i = k + j
    OBVIOUS
  <2>1. i - k \in 1..m /\ i = k + (i - k)
    BY <1>1
  <2>2. QED  BY <2>1
<1>5. PostsOf(new, b, reason)
        = PostsOf(rows, b, reason) \cup {k + i : i \in PostsOf(more, b, reason)}
  <2>1. \A i \in PostsOf(new, b, reason) :
          i \in PostsOf(rows, b, reason) \cup {k + j : j \in PostsOf(more, b, reason)}
    <3> SUFFICES ASSUME NEW i \in DOMAIN new, new[i].ref = b, new[i].reason = reason
                 PROVE  \/ i \in PostsOf(rows, b, reason)
                        \/ i \in {k + j : j \in PostsOf(more, b, reason)}
      BY DEF PostsOf
    <3>1. CASE i \in 1..k
      BY <1>1, <1>2, <3>1 DEF PostsOf
    <3>2. ASSUME NEW j \in 1..m, i = k + j PROVE i \in {k + x : x \in PostsOf(more, b, reason)}
      <4>1. j \in PostsOf(more, b, reason)
        BY <1>1, <1>3, <3>2 DEF PostsOf
      <4>2. QED  BY <3>2, <4>1
    <3>3. QED  BY <1>4, <3>1, <3>2
  <2>2. \A i \in PostsOf(rows, b, reason) : i \in PostsOf(new, b, reason)
    BY <1>1, <1>2 DEF PostsOf
  <2>3. \A i \in PostsOf(more, b, reason) : k + i \in PostsOf(new, b, reason)
    BY <1>1, <1>3 DEF PostsOf
  <2>4. QED  BY <2>1, <2>2, <2>3
<1>6. QED  BY <1>1, <1>2, <1>3, <1>5 DEF new, k

\* Rows that tell what becomes of a bet, each of them once.
LEMMA ToldAfter ==
  ASSUME NEW rows \in Seq(LedgerRows), NEW more \in Seq(LedgerRows), NEW b, NEW old, NEW new,
         Told(old, rows, b),
         \A reason \in BetReasons :
           /\ Tells(new, reason) <=> Tells(old, reason) \/ PostsOf(more, b, reason) # {}
           /\ Tells(old, reason) => PostsOf(more, b, reason) = {}
           /\ \A i, j \in PostsOf(more, b, reason) : i = j
  PROVE  Told(new, rows \o more, b)
<1> SUFFICES ASSUME NEW reason \in BetReasons
             PROVE  IF Tells(new, reason)
                    THEN \E i \in DOMAIN (rows \o more) : PostsOf(rows \o more, b, reason) = {i}
                    ELSE PostsOf(rows \o more, b, reason) = {}
  BY DEF Told
<1>1. PICK P, M, Q :
        /\ P = PostsOf(rows, b, reason) /\ M = PostsOf(more, b, reason)
        /\ Q = PostsOf(rows \o more, b, reason)
  OBVIOUS
<1>2. /\ Q = P \cup {Len(rows) + i : i \in M} /\ DOMAIN rows \subseteq DOMAIN (rows \o more)
      /\ \A i \in DOMAIN more : Len(rows) + i \in DOMAIN (rows \o more)
  BY <1>1, PostsAfter
<1>3. IF Tells(old, reason) THEN \E i \in DOMAIN rows : P = {i} ELSE P = {}
  BY <1>1 DEF Told
<1>4. /\ Tells(new, reason) <=> Tells(old, reason) \/ M # {}
      /\ Tells(old, reason) => M = {}
      /\ \A i, j \in M : i = j
      /\ M \subseteq DOMAIN more
  BY <1>1 DEF PostsOf
<1>5. CASE M = {}
  BY <1>1, <1>2, <1>3, <1>4, <1>5
<1>6. CASE M # {}
  <2>1. PICK i \in DOMAIN more : M = {i}
    BY <1>4, <1>6
  <2>2. P = {} /\ Q = {Len(rows) + i} /\ Tells(new, reason)
    BY <1>2, <1>3, <1>4, <2>1
  <2>3. QED  BY <1>1, <1>2, <2>1, <2>2
<1>7. QED  BY <1>5, <1>6

\* One row posted under an unused key, on the balance there is.
LEMMA RowPosted ==
  ASSUME LInv, NEW w \in Wallets, NEW entry \in LedgerRows, Post(w, entry),
         ~KeyUsed(w, entry.key), entry.before = wallet[w].balance,
         entry.after = wallet'[w].balance,
         \A v \in Wallets \ {w} : wallet'[v].balance = wallet[v].balance
  PROVE  /\ ledger' \in [Wallets -> Seq(LedgerRows)] /\ Chained'
         /\ ledger'[w] = ledger[w] \o <<entry>>
         /\ \A v \in Wallets \ {w} : ledger'[v] = ledger[v]
<1> DEFINE rows == ledger[w]
           new == Append(rows, entry)
<1>1. rows \in Seq(LedgerRows) /\ ledger' = [ledger EXCEPT ![w] = new] /\ ledger'[w] = new
  BY DEF LInv, Post
<1>2. \A i \in DOMAIN rows : rows[i].key # entry.key
  BY DEF KeyUsed
<1>3. ChainFrom(rows, wallet[w].balance) /\ KeysDistinct(rows)
  BY DEF LInv, Chained
<1> HIDE DEF rows
<1>4. /\ new \in Seq(LedgerRows) /\ ChainFrom(new, wallet'[w].balance) /\ KeysDistinct(new)
  BY <1>1, <1>2, <1>3, ChainAppend
<1>5. new = rows \o <<entry>>
  BY <1>1
<1> HIDE DEF new
<1>6. \A v \in Wallets \ {w} : ledger'[v] = ledger[v]
  BY <1>1 DEF LInv
<1>7. ledger' \in [Wallets -> Seq(LedgerRows)]
  BY <1>1, <1>4 DEF LInv
<1>8. Chained'
  <2> SUFFICES ASSUME NEW v \in Wallets
               PROVE  ChainFrom(ledger'[v], wallet'[v].balance) /\ KeysDistinct(ledger'[v])
    BY DEF Chained, ChainFrom, KeysDistinct
  <2>1. CASE v = w
    BY <1>1, <1>4, <2>1
  <2>2. CASE v # w
    BY <1>6, <2>2 DEF LInv, Chained
  <2>3. QED  BY <2>1, <2>2
<1>9. QED  BY <1>1, <1>5, <1>6, <1>7, <1>8 DEF rows

\* What one row tells of a bet.
LEMMA PostsOfOne ==
  ASSUME NEW entry \in LedgerRows, NEW b, NEW reason
  PROVE  /\ <<entry>> \in Seq(LedgerRows)
         /\ PostsOf(<<entry>>, b, reason) =
              IF entry.ref = b /\ entry.reason = reason THEN {1} ELSE {}
BY DEF PostsOf

\* Steps that post nothing leave what the ledgers tell.
LEMMA LedgersStay ==
  ASSUME LInv, UNCHANGED <<wallet, ledger, bet>>
  PROVE  LInv'
<1>1. Placed' = Placed
  BY DEF Placed
<1>2. Chained'
  BY DEF LInv, Chained, ChainFrom, KeysDistinct
<1>3. \A w \in Wallets, b \in Bets :
        b \notin Placed' \/ bet'[b].wallet = w => Told(bet'[b], ledger'[w], b)
  BY <1>1 DEF LInv
<1>4. QED  BY <1>1, <1>2, <1>3 DEF LInv, Told, PostsOf, Tells

\* A row about no bet.
LEMMA AdjustPosts ==
  ASSUME IInv, LInv, NEW w \in Wallets, NEW delta \in Deltas, NEW key \in Keys,
         Adjust(w, delta, key)
  PROVE  LInv'
<1>1. UNCHANGED bet /\ AdjustWalletBalance(w, delta, key)
  BY DEF Adjust
<1>2. PICK before, after : before = wallet[w].balance /\ after = before + delta
  OBVIOUS
<1>3. before \in Nat /\ delta \in Nat /\ delta > 0 /\ after \in Nat
  BY <1>2, RouletteAssumption DEF IInv, Shapes, WalletRows
<1> DEFINE entry == Entry("ADJUST", "CREDIT", delta, before, after, key, NoRef)
<1>4. /\ entry \in LedgerRows /\ entry.before = before /\ entry.after = after
      /\ entry.key = key /\ entry.reason = "ADJUST"
  BY <1>3 DEF Entry, LedgerRows, Reasons
<1>5. Post(w, entry)
  BY <1>1, <1>2, <1>3 DEF AdjustWalletBalance
<1> HIDE DEF entry
<1>6. /\ ~KeyUsed(w, key) /\ wallet'[w].balance = after
      /\ \A v \in Wallets \ {w} : wallet'[v] = wallet[v]
  BY <1>1, <1>2 DEF AdjustWalletBalance, IInv, Shapes, WalletRows
<1>7. /\ ledger' \in [Wallets -> Seq(LedgerRows)] /\ Chained'
      /\ ledger'[w] = ledger[w] \o <<entry>>
      /\ \A v \in Wallets \ {w} : ledger'[v] = ledger[v]
  BY <1>2, <1>4, <1>5, <1>6, RowPosted
<1>8. Placed' = Placed
  BY <1>1 DEF Placed
<1>9. ASSUME NEW v \in Wallets, NEW b \in Bets, b \notin Placed \/ bet[b].wallet = v
      PROVE  Told(bet[b], ledger'[v], b)
  <2>1. Told(bet[b], ledger[v], b) /\ ledger[v] \in Seq(LedgerRows)
    BY <1>9 DEF LInv
  <2>2. CASE v = w
    <3>1. \A reason \in BetReasons : PostsOf(<<entry>>, b, reason) = {}
      BY <1>4, PostsOfOne DEF BetReasons
    <3>2. <<entry>> \in Seq(LedgerRows)
      BY <1>4
    <3>3. Told(bet[b], ledger[v] \o <<entry>>, b)
      BY <2>1, <3>1, <3>2, ToldAfter
    <3>4. QED  BY <1>7, <2>2, <3>3
  <2>3. CASE v # w
    BY <1>7, <2>1, <2>3
  <2>4. QED  BY <2>2, <2>3
<1>10. QED  BY <1>1, <1>7, <1>8, <1>9 DEF LInv

\* A row that tells the change of one bet.
LEMMA BetPosts ==
  ASSUME LInv, NEW w \in Wallets, NEW b \in Bets, NEW entry \in LedgerRows, Post(w, entry),
         ~KeyUsed(w, entry.key), entry.before = wallet[w].balance,
         entry.after = wallet'[w].balance,
         \A v \in Wallets \ {w} : wallet'[v].balance = wallet[v].balance,
         entry.ref = b, entry.reason \in BetReasons,
         b \in Placed => bet[b].wallet = w, ~Tells(bet[b], entry.reason),
         \A reason \in BetReasons :
           Tells(bet'[b], reason) <=> Tells(bet[b], reason) \/ reason = entry.reason,
         bet'[b].status # "NONE", bet'[b].hold # "NONE", bet'[b].wallet = w,
         \A x \in Bets \ {b} : bet'[x] = bet[x]
  PROVE  LInv'
<1>1. /\ ledger' \in [Wallets -> Seq(LedgerRows)] /\ Chained'
      /\ ledger'[w] = ledger[w] \o <<entry>>
      /\ \A v \in Wallets \ {w} : ledger'[v] = ledger[v]
  BY RowPosted
<1>2. Placed' = Placed \cup {b}
  BY DEF Placed
<1>3. \A x \in Placed' : bet'[x].hold # "NONE"
  BY <1>2 DEF LInv, Placed
<1>4. ASSUME NEW v \in Wallets, NEW x \in Bets, x \notin Placed' \/ bet'[x].wallet = v
      PROVE  Told(bet'[x], ledger'[v], x)
  <2>1. ledger[v] \in Seq(LedgerRows) /\ <<entry>> \in Seq(LedgerRows)
    BY DEF LInv
  <2>2. CASE x = b
    <3>1. v = w /\ Told(bet[b], ledger[w], b)
      BY <1>2, <1>4, <2>2 DEF LInv
    <3>2. \A reason \in BetReasons :
            PostsOf(<<entry>>, b, reason) = IF reason = entry.reason THEN {1} ELSE {}
      BY PostsOfOne
    <3>3. \A reason \in BetReasons :
            /\ Tells(bet'[b], reason) <=> Tells(bet[b], reason) \/ PostsOf(<<entry>>, b, reason) # {}
            /\ Tells(bet[b], reason) => PostsOf(<<entry>>, b, reason) = {}
            /\ \A i, j \in PostsOf(<<entry>>, b, reason) : i = j
      BY <3>2
    <3>4. PICK old, new, rows, more :
            old = bet[b] /\ new = bet'[b] /\ rows = ledger[w] /\ more = <<entry>>
      OBVIOUS
    <3>5. /\ rows \in Seq(LedgerRows) /\ more \in Seq(LedgerRows) /\ Told(old, rows, b)
          /\ \A reason \in BetReasons :
               /\ Tells(new, reason) <=> Tells(old, reason) \/ PostsOf(more, b, reason) # {}
               /\ Tells(old, reason) => PostsOf(more, b, reason) = {}
               /\ \A i, j \in PostsOf(more, b, reason) : i = j
      BY ONLY <2>1, <3>1, <3>3, <3>4
    <3>6. Told(new, rows \o more, b)
      BY <3>5, ToldAfter
    <3>7. QED  BY <1>1, <2>2, <3>1, <3>4, <3>6
  <2>3. CASE x # b
    <3>1. bet'[x] = bet[x] /\ Told(bet[x], ledger[v], x)
      BY <1>2, <1>4, <2>3 DEF LInv
    <3>2. CASE v = w
      <4>1. \A reason \in BetReasons : PostsOf(<<entry>>, x, reason) = {}
        BY <2>3, PostsOfOne
      <4>2. Told(bet[x], ledger[v] \o <<entry>>, x)
        BY <2>1, <3>1, <4>1, ToldAfter
      <4>3. QED  BY <1>1, <3>1, <3>2, <4>2
    <3>3. CASE v # w
      BY <1>1, <3>1, <3>3
    <3>4. QED  BY <3>2, <3>3
  <2>4. QED  BY <2>2, <2>3
<1>5. QED  BY <1>1, <1>3, <1>4 DEF LInv

LEMMA AdminPosts ==
  ASSUME IInv, LInv, NEW b \in Bets, NEW key \in Keys, AdminRelease(b, key) \/ AdminCapture(b, key)
  PROVE  LInv'
<1>1. PICK w, stake, before : w = bet[b].wallet /\ stake = bet[b].stake
                              /\ before = wallet[w].balance
  OBVIOUS
<1>2. bet[b].hold = "HELD" /\ ~KeyUsed(w, key)
  BY <1>1 DEF AdminRelease, AdminCapture
<1>3. /\ b \in Placed /\ w \in Wallets /\ stake \in Nat /\ bet[b] \in BetRows
      /\ bet[b].status # "NONE"
  BY <1>1, <1>2 DEF IInv, BetsInOrder, NoBet, Placed, Shapes, BetRows
<1>4. before \in Nat /\ wallet[w] \in WalletRows
  BY <1>1, <1>3 DEF IInv, Shapes, WalletRows
<1>5. ASSUME NEW hold \in {"RELEASED", "CAPTURED"}, NEW row,
             row = [bet[b] EXCEPT !.hold = hold]
      PROVE  row.hold = hold /\ row.status = bet[b].status /\ row.wallet = w
  BY <1>1, <1>3, <1>5 DEF BetRows
<1>6. CASE AdminRelease(b, key)
  <2> DEFINE entry == Entry("BET_RELEASE", "CREDIT", stake, before, before + stake, key, b)
             row == [bet[b] EXCEPT !.hold = "RELEASED"]
  <2>1. /\ entry \in LedgerRows /\ entry.before = before /\ entry.after = before + stake
        /\ entry.key = key /\ entry.reason = "BET_RELEASE" /\ entry.ref = b
    BY <1>3, <1>4 DEF Entry, LedgerRows, Reasons
  <2>2. Post(w, entry)
    BY <1>1, <1>6 DEF AdminRelease
  <2>3. wallet' = [wallet EXCEPT ![w].balance = before + stake, ![w].locked = @ - stake]
    BY <1>1, <1>6 DEF AdminRelease
  <2>4. /\ wallet'[w].balance = before + stake
        /\ \A v \in Wallets \ {w} : wallet'[v] = wallet[v]
    BY <1>3, <1>4, <2>3 DEF IInv, Shapes, WalletRows
  <2>5. /\ bet'[b] = row /\ \A x \in Bets \ {b} : bet'[x] = bet[x]
    BY <1>6 DEF AdminRelease, IInv, Shapes
  <2>6. row.hold = "RELEASED" /\ row.status = bet[b].status /\ row.wallet = w
    BY <1>5
  <2> HIDE DEF entry, row
  <2>7. \A reason \in BetReasons :
          Tells(row, reason) <=> Tells(bet[b], reason) \/ reason = entry.reason
    BY <1>2, <2>1, <2>6 DEF Tells
  <2>8. ~Tells(bet[b], entry.reason) /\ entry.reason \in BetReasons
    BY <1>2, <2>1 DEF Tells, BetReasons
  <2>9. QED
    BY <1>1, <1>2, <1>3, <2>1, <2>2, <2>4, <2>5, <2>6, <2>7, <2>8, BetPosts
<1>7. CASE AdminCapture(b, key)
  <2> DEFINE entry == Entry("BET_CAPTURE", "DEBIT", stake, before, before, key, b)
             row == [bet[b] EXCEPT !.hold = "CAPTURED"]
  <2>1. /\ entry \in LedgerRows /\ entry.before = before /\ entry.after = before
        /\ entry.key = key /\ entry.reason = "BET_CAPTURE" /\ entry.ref = b
    BY <1>3, <1>4 DEF Entry, LedgerRows, Reasons
  <2>2. Post(w, entry)
    BY <1>1, <1>7 DEF AdminCapture
  <2>3. wallet' = [wallet EXCEPT ![w].locked = @ - stake]
    BY <1>1, <1>7 DEF AdminCapture
  <2>4. /\ wallet'[w].balance = before
        /\ \A v \in Wallets \ {w} : wallet'[v] = wallet[v]
    BY <1>1, <1>3, <1>4, <2>3 DEF IInv, Shapes, WalletRows
  <2>5. /\ bet'[b] = row /\ \A x \in Bets \ {b} : bet'[x] = bet[x]
    BY <1>7 DEF AdminCapture, IInv, Shapes
  <2>6. row.hold = "CAPTURED" /\ row.status = bet[b].status /\ row.wallet = w
    BY <1>5
  <2> HIDE DEF entry, row
  <2>7. \A reason \in BetReasons :
          Tells(row, reason) <=> Tells(bet[b], reason) \/ reason = entry.reason
    BY <1>2, <2>1, <2>6 DEF Tells
  <2>8. ~Tells(bet[b], entry.reason) /\ entry.reason \in BetReasons
    BY <1>2, <2>1 DEF Tells, BetReasons
  <2>9. QED
    BY <1>1, <1>2, <1>3, <2>1, <2>2, <2>4, <2>5, <2>6, <2>7, <2>8, BetPosts
<1>8. QED  BY <1>6, <1>7

LEMMA CommitPosts ==
  ASSUME IInv, LInv, NEW r \in Requests, PlaceCommit(r)
  PROVE  LInv'
<1>1. PICK n, w, stake, type, key, before :
        n = req[r].number /\ w = req[r].wallet /\ stake = req[r].stake
          /\ type = req[r].type /\ key = req[r].key /\ before = wallet[w].balance
  OBVIOUS
<1>2. /\ w \in Wallets /\ stake \in Nat /\ stake \in Stakes /\ key \in Keys
  BY <1>1, CommitWrites, RouletteAssumption DEF Calls
<1> DEFINE row == [status |-> "PENDING", hold |-> "HELD", round |-> n, wallet |-> w,
                   type |-> type, stake |-> stake, key |-> key, payout |-> 0]
           entry(b) == Entry("BET_HOLD", "DEBIT", stake, before, before - stake, key, b)
<1>3. PICK b \in Bets : bet[b] = NoBet /\ bet' = [bet EXCEPT ![b] = row] /\ Post(w, entry(b))
  BY <1>1 DEF PlaceCommit
<1>4. ~KeyUsed(w, key) /\ DebitBalanceInTx(w, stake)
  BY <1>1 DEF PlaceCommit
<1>5. /\ before \in Nat /\ before - stake \in Nat /\ wallet'[w].balance = before - stake
      /\ \A v \in Wallets \ {w} : wallet'[v] = wallet[v]
  <2>1. wallet[w] \in WalletRows /\ wallet \in [Wallets -> WalletRows]
    BY <1>2 DEF IInv, Shapes
  <2>2. before \in Nat /\ before >= stake
    BY <1>1, <1>4, <2>1 DEF DebitBalanceInTx, CanDebit, WalletRows
  <2>3. wallet'[w].balance = before - stake /\ \A v \in Wallets \ {w} : wallet'[v] = wallet[v]
    BY <1>1, <1>2, <1>4, <2>1 DEF DebitBalanceInTx
  <2>4. QED  BY <1>2, <2>2, <2>3
<1>6. /\ entry(b) \in LedgerRows /\ entry(b).before = before /\ entry(b).after = before - stake
      /\ entry(b).key = key /\ entry(b).reason = "BET_HOLD" /\ entry(b).ref = b
  BY <1>2, <1>5 DEF Entry, LedgerRows, Reasons
<1>7. row.status = "PENDING" /\ row.hold = "HELD" /\ row.wallet = w
  OBVIOUS
<1>8. bet'[b] = row /\ \A x \in Bets \ {b} : bet'[x] = bet[x]
  BY <1>3 DEF IInv, Shapes
<1>9. bet[b].status = "NONE" /\ bet[b].hold = "NONE" /\ b \notin Placed
  BY <1>3 DEF NoBet, Placed
<1> HIDE DEF row
<1>10. PICK one : one = entry(b)
  OBVIOUS
<1>11. /\ one \in LedgerRows /\ one.before = before /\ one.after = before - stake
       /\ one.key = key /\ one.reason = "BET_HOLD" /\ one.ref = b /\ Post(w, one)
  BY <1>3, <1>6, <1>10
<1> HIDE DEF entry
<1>12. /\ \A reason \in BetReasons :
            Tells(row, reason) <=> Tells(bet[b], reason) \/ reason = one.reason
       /\ ~Tells(bet[b], one.reason) /\ one.reason \in BetReasons
  BY <1>7, <1>9, <1>11 DEF Tells, BetReasons
<1>13. QED
  BY <1>1, <1>2, <1>4, <1>5, <1>7, <1>8, <1>9, <1>11, <1>12, BetPosts

-----------------------------------------------------------------------------
(***************************************************************************)
(* The rows of a settlement.                                               *)
(***************************************************************************)

\* A sequence of the members of a finite set lists each of them once.
LEMMA SeqsList ==
  ASSUME NEW S, IsFiniteSet(S), NEW seq \in SetToSeqs(S)
  PROVE  /\ seq \in Seq(S) /\ Len(seq) \in Nat /\ DOMAIN seq = 1..Len(seq)
         /\ \A i, j \in DOMAIN seq : seq[i] = seq[j] => i = j
         /\ \A x \in S : \E i \in DOMAIN seq : seq[i] = x
<1>1. PICK m \in Nat : m = Cardinality(S)
  BY FS_CardinalityType
<1>2. seq \in [1..m -> S] /\ \A i, j \in 1..m : i # j => seq[i] # seq[j]
  BY <1>1 DEF SetToSeqs
<1>3. seq \in Seq(S) /\ Len(seq) = m /\ DOMAIN seq = 1..m
  BY <1>2
<1>4. Cardinality(1..m) = m
  BY FS_Interval
<1>5. seq \in Injection(1..m, S)
  BY <1>2 DEF Injection, IsInjective
<1>6. seq \in Surjection(1..m, S)
  BY <1>1, <1>4, <1>5, FS_Injection
<1>7. \A x \in S : \E i \in 1..m : seq[i] = x
  BY <1>6 DEF Surjection
<1>8. QED  BY <1>2, <1>3, <1>7

\* The postings of a round that is settled.
LEMMA PostingTypes ==
  ASSUME IInv, NEW n \in Rounds, round[n].status = "SPINNING", NEW w \in Wallets
  PROVE  /\ IsFiniteSet(Postings(w, n)) /\ Winner(n) \in Wheel
         /\ \A posting \in Postings(w, n) :
              /\ posting[1] \in Pending(n) /\ bet[posting[1]].wallet = w
              /\ posting[2] \in {"capture", "payout"} /\ posting = <<posting[1], posting[2]>>
              /\ posting[2] = "capture" => ToCapture(posting[1])
              /\ posting[2] = "payout" => Pays(posting[1], Winner(n)) > 0
         /\ \A b \in Pending(n) : bet[b].wallet = w =>
              /\ ToCapture(b) => <<b, "capture">> \in Postings(w, n)
              /\ Pays(b, Winner(n)) > 0 => <<b, "payout">> \in Postings(w, n)
         /\ \A b \in Pending(n) : b \in Bets /\ bet[b].stake \in Nat /\ Pays(b, Winner(n)) \in Nat
<1>1. IsFiniteSet(Pending(n)) /\ Pending(n) \subseteq Placed /\ Winner(n) \in Wheel
  BY SpinningBets DEF Winner
<1> DEFINE bets == {b \in Pending(n) : bet[b].wallet = w}
           captures == {b \in bets : ToCapture(b)}
           wins == {b \in bets : Pays(b, Winner(n)) > 0}
<1>2. Postings(w, n) = (captures \X {"capture"}) \cup (wins \X {"payout"})
  BY DEF Postings
<1>3. IsFiniteSet(Postings(w, n))
  <2>1. captures \in SUBSET Pending(n) /\ wins \in SUBSET Pending(n)
    OBVIOUS
  <2>2. IsFiniteSet(captures) /\ IsFiniteSet(wins)
    BY <1>1, <2>1, FS_Subset
  <2>3. IsFiniteSet({"capture"}) /\ IsFiniteSet({"payout"})
    BY FS_Singleton
  <2> HIDE DEF captures, wins
  <2>4. IsFiniteSet(captures \X {"capture"}) /\ IsFiniteSet(wins \X {"payout"})
    BY <2>2, <2>3, FS_Product
  <2>5. PICK C, W : C = captures \X {"capture"} /\ W = wins \X {"payout"}
    OBVIOUS
  <2>6. IsFiniteSet(C \cup W)
    BY <2>4, <2>5, FS_Union
  <2>7. QED  BY <1>2, <2>5, <2>6
<1>4. \A b \in Pending(n) : b \in Bets /\ bet[b].stake \in Nat /\ Pays(b, Winner(n)) \in Nat
  BY <1>1, PaysType, RouletteAssumption DEF IInv, BetsInOrder, Placed
<1>5. QED  BY <1>1, <1>2, <1>3, <1>4

\* The bets paid by the postings before the i-th.
PaidBefore(seq, i) == {b \in Bets : \E j \in 1..(i - 1) : seq[j] = <<b, "payout">>}

LEMMA PaidGrows ==
  ASSUME IInv, NEW n \in Rounds, round[n].status = "SPINNING", NEW w \in Wallets,
         NEW seq \in Orders(w, n)
  PROVE  /\ seq \in Seq(Postings(w, n)) /\ Len(seq) \in Nat /\ DOMAIN seq = 1..Len(seq)
         /\ \A i, j \in DOMAIN seq : seq[i] = seq[j] => i = j
         /\ \A x \in Postings(w, n) : \E i \in DOMAIN seq : seq[i] = x
         /\ PaidBefore(seq, 1) = {}
         /\ \A i \in DOMAIN seq :
              IF seq[i][2] = "payout"
              THEN /\ PaidBefore(seq, i + 1) = PaidBefore(seq, i) \cup {seq[i][1]}
                   /\ seq[i][1] \notin PaidBefore(seq, i)
              ELSE PaidBefore(seq, i + 1) = PaidBefore(seq, i)
         /\ PaidBefore(seq, Len(seq) + 1)
              = {b \in Pending(n) : bet[b].wallet = w /\ Pays(b, Winner(n)) > 0}
         /\ \A i : i \in 1..(Len(seq) + 1) =>
              PaidBefore(seq, i) \subseteq Pending(n) /\ IsFiniteSet(PaidBefore(seq, i))
<1>1. seq \in SetToSeqs(Postings(w, n))
  BY DEF Orders
<1>2. PICK m \in Nat :
        /\ m = Len(seq) /\ seq \in Seq(Postings(w, n)) /\ DOMAIN seq = 1..m
        /\ \A i, j \in 1..m : seq[i] = seq[j] => i = j
        /\ \A x \in Postings(w, n) : \E i \in 1..m : seq[i] = x
  <2>1. IsFiniteSet(Postings(w, n))
    BY PostingTypes
  <2>2. QED  BY <1>1, <2>1, SeqsList
<1>3. \A i \in 1..m :
        /\ seq[i] \in Postings(w, n) /\ seq[i][1] \in Pending(n) /\ bet[seq[i][1]].wallet = w
        /\ seq[i] = <<seq[i][1], seq[i][2]>> /\ seq[i][1] \in Bets
        /\ seq[i][2] = "payout" => Pays(seq[i][1], Winner(n)) > 0
  <2>1. \A i \in 1..m : seq[i] \in Postings(w, n)
    BY <1>2
  <2>2. QED  BY <2>1, PostingTypes
<1>4. PaidBefore(seq, 1) = {}
  BY DEF PaidBefore
<1>5. ASSUME NEW i \in 1..m
      PROVE  IF seq[i][2] = "payout"
             THEN /\ PaidBefore(seq, i + 1) = PaidBefore(seq, i) \cup {seq[i][1]}
                  /\ seq[i][1] \notin PaidBefore(seq, i)
             ELSE PaidBefore(seq, i + 1) = PaidBefore(seq, i)
  <2>1. (i + 1) - 1 = i /\ 1..i = 1..(i - 1) \cup {i} /\ i \notin 1..(i - 1)
        /\ 1..(i - 1) \subseteq 1..m
    OBVIOUS
  <2>2. PaidBefore(seq, i + 1) = PaidBefore(seq, i) \cup {b \in Bets : seq[i] = <<b, "payout">>}
    BY <2>1 DEF PaidBefore
  <2>3. CASE seq[i][2] = "payout"
    <3>1. {b \in Bets : seq[i] = <<b, "payout">>} = {seq[i][1]}
      BY <1>3, <2>3
    <3>2. seq[i][1] \notin PaidBefore(seq, i)
      <4>1. seq[i] = <<seq[i][1], "payout">>
        BY <1>3, <2>3
      <4>2. \A j \in 1..(i - 1) : seq[j] # seq[i]
        BY <1>2, <2>1
      <4>3. QED  BY <4>1, <4>2 DEF PaidBefore
    <3>3. QED  BY <2>2, <2>3, <3>1, <3>2
  <2>4. CASE seq[i][2] # "payout"
    <3>1. {b \in Bets : seq[i] = <<b, "payout">>} = {}
      BY <1>3, <2>4
    <3>2. QED  BY <2>2, <2>4, <3>1
  <2>5. QED  BY <2>3, <2>4
<1>6. PaidBefore(seq, m + 1) = {b \in Pending(n) : bet[b].wallet = w /\ Pays(b, Winner(n)) > 0}
  <2>1. PaidBefore(seq, m + 1) = {b \in Bets : \E j \in 1..m : seq[j] = <<b, "payout">>}
    <3>1. (m + 1) - 1 = m
      OBVIOUS
    <3>2. QED  BY <3>1 DEF PaidBefore
  <2>2. ASSUME NEW b \in Bets, NEW j \in 1..m, seq[j] = <<b, "payout">>
        PROVE  b \in Pending(n) /\ bet[b].wallet = w /\ Pays(b, Winner(n)) > 0
    <3>1. seq[j][1] = b /\ seq[j][2] = "payout"
      BY <2>2
    <3>2. QED  BY <1>3, <3>1
  <2>3. ASSUME NEW b \in Pending(n), bet[b].wallet = w, Pays(b, Winner(n)) > 0
        PROVE  b \in Bets /\ \E j \in 1..m : seq[j] = <<b, "payout">>
    <3>1. b \in Bets /\ <<b, "payout">> \in Postings(w, n)
      BY <2>3, PostingTypes
    <3>2. QED  BY <1>2, <3>1
  <2>4. QED  BY <2>1, <2>2, <2>3
<1>7. ASSUME NEW i, i \in 1..(m + 1)
      PROVE  PaidBefore(seq, i) \subseteq Pending(n) /\ IsFiniteSet(PaidBefore(seq, i))
  <2>1. 1..(i - 1) \subseteq 1..m
    BY <1>7
  <2>2. PaidBefore(seq, i) \subseteq Pending(n)
    <3> SUFFICES ASSUME NEW b \in Bets, NEW j \in 1..(i - 1), seq[j] = <<b, "payout">>
                 PROVE  b \in Pending(n)
      BY DEF PaidBefore
    <3>1. seq[j][1] = b /\ j \in 1..m
      BY <2>1
    <3>2. QED  BY <1>3, <3>1
  <2>3. IsFiniteSet(Pending(n))
    BY SpinningBets
  <2>4. QED  BY <2>2, <2>3, FS_Subset
<1>8. QED  BY <1>2, <1>4, <1>5, <1>6, <1>7

\* What the postings before the i-th have left, and what all of them leave.
LEMMA BalanceGrows ==
  ASSUME IInv, NEW n \in Rounds, round[n].status = "SPINNING", NEW w \in Wallets,
         NEW seq \in Orders(w, n), NEW Before,
         \A i \in 1..(Len(seq) + 1) : Before[i] = BalanceBefore(w, seq, i, Winner(n))
  PROVE  /\ \A i \in 1..(Len(seq) + 1) : Before[i] \in Nat
         /\ Before[1] = wallet[w].balance
         /\ \A i \in DOMAIN seq :
              Before[i + 1] = Before[i] + IF seq[i][2] = "payout"
                                          THEN Pays(seq[i][1], Winner(n)) ELSE 0
         /\ Before[Len(seq) + 1] = SettledWallets(n)[w].balance
<1> DEFINE pays == PayoutAt(Winner(n))
           given(i) == Total(pays, PaidBefore(seq, i))
           bets == {b \in Pending(n) : bet[b].wallet = w}
           winners == {b \in Pending(n) : bet[b].wallet = w /\ Pays(b, Winner(n)) > 0}
<1>1. /\ Len(seq) \in Nat /\ DOMAIN seq = 1..Len(seq)
      /\ PaidBefore(seq, 1) = {} /\ PaidBefore(seq, Len(seq) + 1) = winners
      /\ \A i \in DOMAIN seq :
           IF seq[i][2] = "payout"
           THEN /\ PaidBefore(seq, i + 1) = PaidBefore(seq, i) \cup {seq[i][1]}
                /\ seq[i][1] \notin PaidBefore(seq, i)
           ELSE PaidBefore(seq, i + 1) = PaidBefore(seq, i)
      /\ \A i : i \in 1..(Len(seq) + 1) =>
           PaidBefore(seq, i) \subseteq Pending(n) /\ IsFiniteSet(PaidBefore(seq, i))
  BY PaidGrows
<1>2. \A b \in Pending(n) : b \in Bets /\ pays[b] = Pays(b, Winner(n)) /\ pays[b] \in Nat
  BY PostingTypes DEF PayoutAt
<1>3. \A i \in 1..(Len(seq) + 1) : Before[i] = wallet[w].balance + given(i)
  BY DEF BalanceBefore, PaidBefore
<1>4. wallet[w].balance \in Nat
  BY DEF IInv, Shapes, WalletRows
<1> HIDE DEF pays
<1>5. \A i \in 1..(Len(seq) + 1) : given(i) \in Nat
  <2> SUFFICES ASSUME NEW i \in 1..(Len(seq) + 1) PROVE given(i) \in Nat
    OBVIOUS
  <2>1. /\ PaidBefore(seq, i) \subseteq Pending(n) /\ IsFiniteSet(PaidBefore(seq, i))
        /\ \A b \in PaidBefore(seq, i) : pays[b] \in Nat
    BY <1>1, <1>2
  <2>2. QED  BY <2>1, TotalType
<1>6. given(1) = 0
  BY <1>1, TotalOfNothing
<1>7. ASSUME NEW i \in DOMAIN seq
      PROVE  given(i + 1) = given(i) + IF seq[i][2] = "payout"
                                       THEN Pays(seq[i][1], Winner(n)) ELSE 0
  <2>1. i \in 1..(Len(seq) + 1) /\ i + 1 \in 1..(Len(seq) + 1)
    BY <1>1
  <2>2. CASE seq[i][2] = "payout"
    <3>1. PICK S, b : S = PaidBefore(seq, i) /\ b = seq[i][1]
      OBVIOUS
    <3>2. PaidBefore(seq, i + 1) = S \cup {b} /\ b \notin S
      BY <1>1, <2>2, <3>1
    <3>3. IsFiniteSet(S) /\ S \cup {b} \subseteq Pending(n)
      BY <1>1, <2>1, <3>1, <3>2
    <3>4. Total(pays, S \cup {b}) = Total(pays, S) + pays[b]
      BY <1>2, <3>2, <3>3, TotalAdd
    <3>5. b \in Pending(n)
      BY <3>3
    <3>6. QED  BY <1>2, <2>2, <3>1, <3>2, <3>4, <3>5
  <2>3. CASE seq[i][2] # "payout"
    <3>1. given(i + 1) = given(i)
      BY <1>1, <2>3
    <3>2. given(i) \in Nat
      BY <1>5, <2>1
    <3>3. QED  BY <2>3, <3>1, <3>2
  <2>4. QED  BY <2>2, <2>3
<1>8. given(Len(seq) + 1) = Total(pays, bets)
  <2>1. winners \subseteq bets
    OBVIOUS
  <2>2. \A b \in bets : pays[b] = IF b \in winners THEN pays[b] ELSE 0
    BY <1>2
  <2>3. Total(pays, bets) = Total(pays, winners)
    BY <2>1, <2>2, TotalWhere
  <2>4. QED  BY <1>1, <2>3
<1>9. SettledWallets(n)[w].balance = wallet[w].balance + Total(pays, bets)
  <2>1. PICK taken, total :
          /\ taken = Total(StakeOf, {b \in bets : ToCapture(b)})
          /\ total = Total(pays, bets)
    OBVIOUS
  <2>2. SettledWallets(n)[w] = [wallet[w] EXCEPT !.balance = @ + total, !.locked = @ - taken]
    BY <2>1 DEF SettledWallets, pays
  <2>3. wallet[w] \in WalletRows
    BY DEF IInv, Shapes
  <2>4. SettledWallets(n)[w].balance = wallet[w].balance + total
    BY <2>2, <2>3 DEF WalletRows
  <2>5. QED  BY <2>1, <2>4
<1> HIDE DEF given, bets, winners
<1>10. \A i \in 1..(Len(seq) + 1) : Before[i] \in Nat
  BY <1>3, <1>4, <1>5
<1>11. Before[1] = wallet[w].balance
  <2>1. 1 \in 1..(Len(seq) + 1)
    BY <1>1
  <2>2. QED  BY <1>3, <1>4, <1>6, <2>1
<1>12. ASSUME NEW i \in DOMAIN seq
       PROVE  Before[i + 1] = Before[i] + IF seq[i][2] = "payout"
                                          THEN Pays(seq[i][1], Winner(n)) ELSE 0
  <2>1. PICK x : x = IF seq[i][2] = "payout" THEN Pays(seq[i][1], Winner(n)) ELSE 0
    OBVIOUS
  <2>2. x \in Nat
    <3>1. CASE seq[i][2] = "payout"
      <4>1. seq[i] \in Postings(w, n)
        BY PaidGrows
      <4>2. seq[i][1] \in Pending(n)
        BY <4>1, PostingTypes
      <4>3. QED  BY <1>2, <2>1, <3>1, <4>2
    <3>2. CASE seq[i][2] # "payout"
      BY <2>1, <3>2
    <3>3. QED  BY <3>1, <3>2
  <2>3. given(i + 1) = given(i) + x
    BY <1>7, <2>1
  <2>4. i \in 1..(Len(seq) + 1) /\ i + 1 \in 1..(Len(seq) + 1)
    BY <1>1
  <2>5. given(i) \in Nat /\ given(i + 1) \in Nat
    BY <1>5, <2>4
  <2>6. PICK old \in Nat, now \in Nat, next \in Nat :
          old = wallet[w].balance /\ now = given(i) /\ next = given(i + 1)
    BY <1>4, <2>5
  <2>7. next = now + x /\ Before[i] = old + now /\ Before[i + 1] = old + next
    BY ONLY <1>3, <2>3, <2>4, <2>6
  <2>8. Before[i + 1] = Before[i] + x
    BY ONLY <2>2, <2>7, old \in Nat, now \in Nat
  <2>9. QED  BY <2>1, <2>8
<1>13. Before[Len(seq) + 1] = SettledWallets(n)[w].balance
  <2>1. Len(seq) + 1 \in 1..(Len(seq) + 1)
    BY <1>1
  <2>2. QED  BY <1>3, <1>8, <1>9, <2>1
<1>14. QED  BY <1>10, <1>11, <1>12, <1>13

\* The rows a settlement posts to a ledger.
RowsOf(w, seq, number) ==
  [i \in DOMAIN seq |-> SettlementRow(seq[i], BalanceBefore(w, seq, i, number), number)]

\* They are rows, each under the key of its posting, and each starts from the
\* balance its predecessor left.
LEMMA RowsChain ==
  ASSUME IInv, NEW n \in Rounds, round[n].status = "SPINNING", NEW w \in Wallets,
         NEW seq \in Orders(w, n), NEW more, more = RowsOf(w, seq, Winner(n))
  PROVE  /\ more \in Seq(LedgerRows) /\ Len(more) = Len(seq) /\ DOMAIN more = DOMAIN seq
         /\ \A i \in DOMAIN seq :
              /\ more[i].key = seq[i] /\ more[i].ref = seq[i][1]
              /\ more[i].reason = IF seq[i][2] = "capture" THEN "BET_CAPTURE" ELSE "BET_PAYOUT"
         /\ more # <<>> => more[1].before = wallet[w].balance
         /\ \A i \in 1..(Len(more) - 1) : more[i + 1].before = more[i].after
         /\ SettledWallets(n)[w].balance =
              IF more = <<>> THEN wallet[w].balance ELSE more[Len(more)].after
<1> DEFINE m == Len(seq)
<1>1. /\ seq \in Seq(Postings(w, n)) /\ m \in Nat /\ DOMAIN seq = 1..m
  BY PaidGrows
<1>2. PICK Before :
        \A i \in 1..(m + 1) : Before[i] = BalanceBefore(w, seq, i, Winner(n))
  <2> WITNESS [i \in 1..(m + 1) |-> BalanceBefore(w, seq, i, Winner(n))]
  <2>1. QED  OBVIOUS
<1>3. /\ \A i \in 1..(m + 1) : Before[i] \in Nat
      /\ Before[1] = wallet[w].balance /\ Before[m + 1] = SettledWallets(n)[w].balance
      /\ \A i \in 1..m :
           Before[i + 1] = Before[i] + IF seq[i][2] = "payout"
                                       THEN Pays(seq[i][1], Winner(n)) ELSE 0
  BY <1>1, <1>2, BalanceGrows
<1>4. ASSUME NEW i \in 1..m
      PROVE  /\ more[i] \in LedgerRows /\ more[i].before = Before[i]
             /\ more[i].after = Before[i + 1]
             /\ more[i].key = seq[i] /\ more[i].ref = seq[i][1]
             /\ more[i].reason = IF seq[i][2] = "capture" THEN "BET_CAPTURE" ELSE "BET_PAYOUT"
  <2>1. /\ seq[i] \in Postings(w, n) /\ i \in 1..(m + 1) /\ i + 1 \in 1..(m + 1)
    BY <1>1
  <2>2. PICK b, what, old, new, pays :
          /\ b = seq[i][1] /\ what = seq[i][2] /\ old = Before[i] /\ new = Before[i + 1]
          /\ pays = Pays(b, Winner(n))
    OBVIOUS
  <2>3. /\ b \in Bets /\ what \in {"capture", "payout"} /\ seq[i] = <<b, what>>
        /\ bet[b].stake \in Nat /\ pays \in Nat
    BY <2>1, <2>2, PostingTypes
  <2>4. /\ old \in Nat /\ new \in Nat /\ new = old + IF what = "payout" THEN pays ELSE 0
    BY <1>3, <2>1, <2>2
  <2>5. more[i] = SettlementRow(<<b, what>>, old, Winner(n))
    BY <1>1, <1>2, <2>1, <2>2, <2>3 DEF RowsOf
  <2>6. CASE what = "capture"
    <3>1. more[i] = Entry("BET_CAPTURE", "DEBIT", bet[b].stake, old, old, <<b, "capture">>, b)
      BY <2>5, <2>6 DEF SettlementRow
    <3>2. new = old /\ <<b, "capture">> \in Bets \X {"capture", "payout"}
      BY <2>3, <2>4, <2>6
    <3>3. /\ more[i] \in LedgerRows /\ more[i].before = old /\ more[i].after = old
          /\ more[i].key = <<b, "capture">> /\ more[i].ref = b
          /\ more[i].reason = "BET_CAPTURE"
      BY <2>3, <2>4, <3>1, <3>2 DEF Entry, LedgerRows, Reasons
    <3>4. QED  BY <2>2, <2>3, <2>6, <3>2, <3>3
  <2>7. CASE what = "payout"
    <3>1. more[i] = Entry("BET_PAYOUT", "CREDIT", pays, old, old + pays, <<b, "payout">>, b)
      BY <2>2, <2>5, <2>7 DEF SettlementRow
    <3>2. new = old + pays /\ <<b, "payout">> \in Bets \X {"capture", "payout"}
      BY <2>3, <2>4, <2>7
    <3>3. /\ more[i] \in LedgerRows /\ more[i].before = old /\ more[i].after = new
          /\ more[i].key = <<b, "payout">> /\ more[i].ref = b
          /\ more[i].reason = "BET_PAYOUT"
      BY <2>3, <2>4, <3>1, <3>2 DEF Entry, LedgerRows, Reasons
    <3>4. QED  BY <2>2, <2>3, <2>7, <3>2, <3>3
  <2>8. QED  BY <2>3, <2>6, <2>7
<1>5. more \in Seq(LedgerRows) /\ Len(more) = m /\ DOMAIN more = 1..m
  <2>1. more = [i \in 1..m |-> more[i]]
    BY <1>1 DEF RowsOf
  <2>2. QED  BY <1>1, <1>4, <2>1
<1>6. more # <<>> => more[1].before = wallet[w].balance
  <2>1. more # <<>> => 1 \in 1..m
    BY <1>1, <1>5
  <2>2. QED  BY <1>3, <1>4, <2>1
<1>7. ASSUME NEW i \in 1..(Len(more) - 1) PROVE more[i + 1].before = more[i].after
  <2>1. i \in 1..m /\ i + 1 \in 1..m
    BY <1>1, <1>5
  <2>2. QED  BY <1>4, <2>1
<1>8. SettledWallets(n)[w].balance =
        IF more = <<>> THEN wallet[w].balance ELSE more[Len(more)].after
  <2>1. CASE more = <<>>
    <3>1. m + 1 = 1
      BY <1>5, <2>1
    <3>2. QED  BY <1>3, <2>1, <3>1
  <2>2. CASE more # <<>>
    <3>1. m \in 1..m
      BY <1>1, <1>5, <2>2
    <3>2. QED  BY <1>3, <1>4, <1>5, <2>2, <3>1
  <2>3. QED  BY <2>1, <2>2
<1>9. QED  BY <1>1, <1>4, <1>5, <1>6, <1>7, <1>8

\* What the rows of a settlement tell: the stake a pending bet still held is
\* captured, and a bet that won is paid.
LEMMA RowsTell ==
  ASSUME IInv, LInv, NEW n \in Rounds, round[n].status = "SPINNING", NEW w \in Wallets,
         NEW seq \in Orders(w, n), NEW more, more = RowsOf(w, seq, Winner(n)),
         NEW b \in Bets, NEW reason \in BetReasons
  PROVE  /\ \A i, j \in PostsOf(more, b, reason) : i = j
         /\ PostsOf(more, b, reason) # {} <=>
              /\ b \in Pending(n) /\ bet[b].wallet = w
              /\ \/ reason = "BET_CAPTURE" /\ ToCapture(b)
                 \/ reason = "BET_PAYOUT" /\ Pays(b, Winner(n)) > 0
<1>1. /\ DOMAIN more = DOMAIN seq
      /\ \A i \in DOMAIN seq :
           /\ more[i].ref = seq[i][1]
           /\ more[i].reason = IF seq[i][2] = "capture" THEN "BET_CAPTURE" ELSE "BET_PAYOUT"
  BY RowsChain
<1>2. /\ \A i, j \in DOMAIN seq : seq[i] = seq[j] => i = j
      /\ \A x \in Postings(w, n) : \E i \in DOMAIN seq : seq[i] = x
      /\ \A i \in DOMAIN seq : seq[i] \in Postings(w, n)
  BY PaidGrows
<1>3. \A i \in DOMAIN seq :
        /\ seq[i][1] \in Pending(n) /\ bet[seq[i][1]].wallet = w
        /\ seq[i][2] \in {"capture", "payout"} /\ seq[i] = <<seq[i][1], seq[i][2]>>
        /\ seq[i][2] = "capture" => ToCapture(seq[i][1])
        /\ seq[i][2] = "payout" => Pays(seq[i][1], Winner(n)) > 0
  BY <1>2, PostingTypes
<1>4. \A i \in PostsOf(more, b, reason) :
        /\ i \in DOMAIN seq
        /\ \/ reason = "BET_CAPTURE" /\ seq[i] = <<b, "capture">>
           \/ reason = "BET_PAYOUT" /\ seq[i] = <<b, "payout">>
  BY <1>1, <1>3 DEF PostsOf
<1>5. \A i, j \in PostsOf(more, b, reason) : i = j
  BY <1>2, <1>4
<1>6. ASSUME NEW i \in PostsOf(more, b, reason)
      PROVE  /\ b \in Pending(n) /\ bet[b].wallet = w
             /\ \/ reason = "BET_CAPTURE" /\ ToCapture(b)
                \/ reason = "BET_PAYOUT" /\ Pays(b, Winner(n)) > 0
  <2>1. CASE reason = "BET_CAPTURE"
    <3>1. i \in DOMAIN seq /\ seq[i][1] = b /\ seq[i][2] = "capture"
      BY <1>4, <2>1
    <3>2. QED  BY <1>3, <2>1, <3>1
  <2>2. CASE reason = "BET_PAYOUT"
    <3>1. i \in DOMAIN seq /\ seq[i][1] = b /\ seq[i][2] = "payout"
      BY <1>4, <2>2
    <3>2. QED  BY <1>3, <2>2, <3>1
  <2>3. QED  BY <1>4, <2>1, <2>2
<1>7. ASSUME b \in Pending(n), bet[b].wallet = w
      PROVE  /\ reason = "BET_CAPTURE" /\ ToCapture(b) => PostsOf(more, b, reason) # {}
             /\ reason = "BET_PAYOUT" /\ Pays(b, Winner(n)) > 0 => PostsOf(more, b, reason) # {}
  <2>1. ASSUME NEW what \in {"capture", "payout"}, <<b, what>> \in Postings(w, n),
               reason = IF what = "capture" THEN "BET_CAPTURE" ELSE "BET_PAYOUT"
        PROVE  PostsOf(more, b, reason) # {}
    <3>1. PICK i \in DOMAIN seq : seq[i] = <<b, what>>
      BY <1>2, <2>1
    <3>2. seq[i][1] = b /\ seq[i][2] = what
      BY <3>1
    <3>3. i \in PostsOf(more, b, reason)
      BY <1>1, <2>1, <3>2 DEF PostsOf
    <3>4. QED  BY <3>3
  <2>2. /\ ToCapture(b) => <<b, "capture">> \in Postings(w, n)
        /\ Pays(b, Winner(n)) > 0 => <<b, "payout">> \in Postings(w, n)
    BY <1>7, PostingTypes
  <2>3. QED  BY <2>1, <2>2
<1>8. QED  BY <1>5, <1>6, <1>7

\* A bet wins exactly when it is paid.
LEMMA WonIsPaid ==
  ASSUME IInv, NEW b \in Placed, NEW number \in Wheel
  PROVE  Pays(b, number) > 0 <=> Outcome(b, number) = "WON"
<1>1. bet[b].type \in BetTypes /\ bet[b].stake \in Nat /\ bet[b].stake > 0
  <2>1. bet[b].type \in BetTypes /\ bet[b].stake \in Nat \ {0}
    BY RouletteAssumption DEF IInv, BetsInOrder
  <2>2. QED  BY <2>1
<1>2. PayoutMultiplier(bet[b].type) \in {2, 7, 14}
  BY <1>1 DEF PayoutMultiplier, BetTypes
<1>3. bet[b].stake * PayoutMultiplier(bet[b].type) > 0
  <2>1. PICK s \in Nat, k \in {2, 7, 14} :
          s = bet[b].stake /\ k = PayoutMultiplier(bet[b].type) /\ s > 0
    BY <1>1, <1>2
  <2>2. s * 2 > 0 /\ s * 7 > 0 /\ s * 14 > 0
    BY ONLY <2>1, s \in Nat
  <2>3. s * k > 0
    BY <2>2
  <2>4. QED  BY <2>1, <2>3
<1>4. CASE Won(bet[b].type, number)
  BY <1>3, <1>4 DEF Pays, ComputePayout, Outcome
<1>5. CASE ~Won(bet[b].type, number)
  BY <1>5 DEF Pays, ComputePayout, Outcome
<1>6. QED  BY <1>4, <1>5

LEMMA SettlePosts ==
  ASSUME IInv, LInv, NEW p \in Replicas, SettleRound(p)
  PROVE  LInv'
<1> DEFINE due == Due("SPINNING", 2)
<1>1. PICK n \in Rounds : n \in due /\ n = Min(due)
  <2>1. due # {} /\ due \subseteq Rounds
    BY DEF SettleRound, Due
  <2>2. QED  BY <2>1, Earliest
<1>2. /\ round[n].status = "SPINNING" /\ Winner(n) \in Wheel
      /\ Pending(n) \subseteq Placed /\ Pending(n) \subseteq Bets
  BY <1>1, SpinningBets DEF Due, Pending, Winner
<1>3. PICK order :
        /\ \A w \in Wallets : order[w] \in Orders(w, n)
        /\ ledger' = [w \in Wallets |-> SettledLedger(w, order[w], Winner(n))]
  BY <1>1 DEF SettleRound
<1>4. /\ Settleable(n) /\ wallet' = SettledWallets(n)
      /\ bet' = [b \in Bets |->
                  IF b \in Pending(n)
                  THEN [bet[b] EXCEPT !.status = Outcome(b, Winner(n)),
                                      !.payout = Pays(b, Winner(n)),
                                      !.hold = "CAPTURED"]
                  ELSE bet[b]]
  BY <1>1 DEF SettleRound
<1>5. ASSUME NEW b \in Pending(n)
      PROVE  /\ bet'[b].status = Outcome(b, Winner(n)) /\ bet'[b].status # "NONE"
             /\ bet'[b].hold = "CAPTURED" /\ bet'[b].wallet = bet[b].wallet
             /\ bet'[b].status = "WON" <=> Pays(b, Winner(n)) > 0
             /\ bet[b].status = "PENDING" /\ bet[b].hold # "RELEASED" /\ bet[b].hold # "NONE"
  <2>1. b \in Bets /\ b \in Placed /\ bet[b] \in BetRows
    BY <1>2 DEF IInv, Shapes
  <2>2. bet'[b] = [bet[b] EXCEPT !.status = Outcome(b, Winner(n)), !.payout = Pays(b, Winner(n)),
                                 !.hold = "CAPTURED"]
    BY <1>4, <2>1
  <2>3. /\ bet'[b].status = Outcome(b, Winner(n)) /\ bet'[b].hold = "CAPTURED"
        /\ bet'[b].wallet = bet[b].wallet
    BY <2>1, <2>2 DEF BetRows
  <2>4. /\ Outcome(b, Winner(n)) \in {"WON", "LOST"}
        /\ Pays(b, Winner(n)) > 0 <=> Outcome(b, Winner(n)) = "WON"
    BY <1>2, <2>1, PaysType, WonIsPaid
  <2>5. /\ bet[b].status = "PENDING" /\ bet[b].hold # "RELEASED" /\ bet[b].hold # "NONE"
    BY <1>4, <2>1 DEF Settleable, Pending, LInv
  <2>6. QED  BY <2>3, <2>4, <2>5
<1>6. \A b \in Bets \ Pending(n) : bet'[b] = bet[b]
  BY <1>4
<1>7. Placed' = Placed
  BY <1>2, <1>5, <1>6 DEF Placed
<1>8. ASSUME NEW w \in Wallets
      PROVE  /\ ledger'[w] \in Seq(LedgerRows)
             /\ ChainFrom(ledger'[w], wallet'[w].balance) /\ KeysDistinct(ledger'[w])
  <2>1. PICK seq, more, rows :
          /\ seq = order[w] /\ more = RowsOf(w, seq, Winner(n)) /\ rows = ledger[w]
    OBVIOUS
  <2>2. seq \in Orders(w, n) /\ ledger'[w] = rows \o more
    BY <1>3, <2>1 DEF SettledLedger, RowsOf
  <2>3. rows \in Seq(LedgerRows) /\ ChainFrom(rows, wallet[w].balance) /\ KeysDistinct(rows)
    BY <2>1 DEF LInv, Chained
  <2>4. /\ more \in Seq(LedgerRows) /\ DOMAIN more = DOMAIN seq
        /\ \A i \in DOMAIN seq : more[i].key = seq[i]
        /\ more # <<>> => more[1].before = wallet[w].balance
        /\ \A i \in 1..(Len(more) - 1) : more[i + 1].before = more[i].after
        /\ wallet'[w].balance = IF more = <<>> THEN wallet[w].balance ELSE more[Len(more)].after
    <3>1. PICK wallets : wallets = SettledWallets(n)
      OBVIOUS
    <3>2. wallet' = wallets
      BY <1>4, <3>1
    <3>3. wallets[w].balance = IF more = <<>> THEN wallet[w].balance ELSE more[Len(more)].after
      BY <1>2, <2>1, <2>2, <3>1, RowsChain
    <3>4. /\ more \in Seq(LedgerRows) /\ DOMAIN more = DOMAIN seq
          /\ \A i \in DOMAIN seq : more[i].key = seq[i]
          /\ more # <<>> => more[1].before = wallet[w].balance
          /\ \A i \in 1..(Len(more) - 1) : more[i + 1].before = more[i].after
      BY <1>2, <2>1, <2>2, RowsChain
    <3>5. QED  BY <3>2, <3>3, <3>4
  <2>5. /\ \A i, j \in DOMAIN seq : seq[i] = seq[j] => i = j
        /\ \A i \in DOMAIN seq : seq[i] \in Postings(w, n)
    BY <1>2, <2>2, PaidGrows
  <2>6. KeysDistinct(more)
    BY <2>4, <2>5 DEF KeysDistinct
  <2>7. \A i \in DOMAIN rows, j \in DOMAIN more : rows[i].key # more[j].key
    <3>1. \A posting \in Postings(w, n) : ~KeyUsed(w, posting)
      BY <1>4 DEF Settleable
    <3>2. \A posting \in Postings(w, n) : \A i \in DOMAIN rows : rows[i].key # posting
      BY <2>1, <3>1 DEF KeyUsed
    <3>3. QED  BY <2>4, <2>5, <3>2
  <2>8. /\ rows \o more \in Seq(LedgerRows)
        /\ ChainFrom(rows \o more, wallet'[w].balance) /\ KeysDistinct(rows \o more)
    BY <2>3, <2>4, <2>6, <2>7, ChainConcat
  <2>9. QED  BY <2>2, <2>8
<1>9. ledger' \in [Wallets -> Seq(LedgerRows)] /\ Chained'
  <2>1. ledger' \in [Wallets -> Seq(LedgerRows)]
    BY <1>3, <1>8
  <2>2. QED  BY <1>8, <2>1 DEF Chained, ChainFrom, KeysDistinct
<1>10. \A b \in Placed' : bet'[b].hold # "NONE"
  BY <1>5, <1>6, <1>7 DEF LInv, Placed
<1>11. ASSUME NEW w \in Wallets, NEW b \in Bets, b \notin Placed' \/ bet'[b].wallet = w
       PROVE  Told(bet'[b], ledger'[w], b)
  <2>1. PICK seq, more, rows, old, new :
          /\ seq = order[w] /\ more = RowsOf(w, seq, Winner(n)) /\ rows = ledger[w]
          /\ old = bet[b] /\ new = bet'[b]
    OBVIOUS
  <2>2. seq \in Orders(w, n) /\ ledger'[w] = rows \o more
    BY <1>3, <2>1 DEF SettledLedger, RowsOf
  <2>3. /\ rows \in Seq(LedgerRows) /\ more \in Seq(LedgerRows) /\ Told(old, rows, b)
    <3>1. more \in Seq(LedgerRows)
      BY <1>2, <2>1, <2>2, RowsChain
    <3>2. b \notin Placed \/ bet[b].wallet = w
      BY <1>5, <1>6, <1>7, <1>11
    <3>3. QED  BY <2>1, <3>1, <3>2 DEF LInv
  <2>4. ASSUME NEW reason \in BetReasons
        PROVE  /\ Tells(new, reason) <=> Tells(old, reason) \/ PostsOf(more, b, reason) # {}
               /\ Tells(old, reason) => PostsOf(more, b, reason) = {}
               /\ \A i, j \in PostsOf(more, b, reason) : i = j
    <3>1. /\ \A i, j \in PostsOf(more, b, reason) : i = j
          /\ PostsOf(more, b, reason) # {} <=>
               /\ b \in Pending(n) /\ bet[b].wallet = w
               /\ \/ reason = "BET_CAPTURE" /\ ToCapture(b)
                  \/ reason = "BET_PAYOUT" /\ Pays(b, Winner(n)) > 0
      BY <1>2, <2>1, <2>2, RowsTell
    <3>2. CASE b \notin Pending(n)
      BY <1>6, <2>1, <3>1, <3>2
    <3>3. CASE b \in Pending(n)
      <4>1. /\ new.hold = "CAPTURED" /\ new.status # "NONE"
            /\ new.status = "WON" <=> Pays(b, Winner(n)) > 0
            /\ old.status = "PENDING" /\ old.hold # "RELEASED" /\ old.hold # "NONE"
            /\ bet[b].wallet = w
        BY <1>2, <1>5, <1>7, <1>11, <2>1, <3>3
      <4>2. old.hold \in {"HELD", "CAPTURED"} /\ (ToCapture(b) <=> old.hold = "HELD")
        BY <2>1, <4>1 DEF IInv, Shapes, BetRows, ToCapture
      <4>3. QED  BY <3>1, <3>3, <4>1, <4>2 DEF Tells
    <3>4. QED  BY <3>2, <3>3
  <2>5. Told(new, rows \o more, b)
    BY <2>3, <2>4, ToldAfter
  <2>6. QED  BY <2>1, <2>2, <2>5
<1>12. QED  BY <1>9, <1>10, <1>11 DEF LInv

-----------------------------------------------------------------------------
(***************************************************************************)
(* The theorem about the ledgers.                                          *)
(***************************************************************************)

LEMMA LedgersInit == Init => LInv
<1> SUFFICES ASSUME Init PROVE LInv
  OBVIOUS
<1>1. Placed = {}
  BY DEF Init, Placed, NoBet
<1>2. \A w \in Wallets : ledger[w] = <<>> /\ wallet[w].balance = 0
  BY DEF Init, MoneyInit
<1>3. ledger \in [Wallets -> Seq(LedgerRows)]
  <2>1. <<>> \in Seq(LedgerRows)
    BY EmptySeq
  <2>2. QED  BY <2>1 DEF Init, MoneyInit
<1>4. ChainFrom(<<>>, 0) /\ KeysDistinct(<<>>)
  BY DEF ChainFrom, KeysDistinct
<1>5. ASSUME NEW b \in Bets PROVE Told(bet[b], <<>>, b)
  <2>1. bet[b].status = "NONE" /\ bet[b].hold = "NONE"
    BY DEF Init, NoBet
  <2>2. \A reason : PostsOf(<<>>, b, reason) = {}
    BY DEF PostsOf
  <2>3. \A reason : ~Tells(bet[b], reason)
    BY <2>1 DEF Tells
  <2>4. QED  BY <2>2, <2>3 DEF Told
<1>6. QED  BY <1>1, <1>2, <1>3, <1>4, <1>5 DEF LInv, Chained

LEMMA LedgersStep == IInv /\ LInv /\ [Next]_vars => LInv'
<1> SUFFICES ASSUME IInv, LInv, [Next]_vars PROVE LInv'
  OBVIOUS
<1>1. CASE UNCHANGED vars
  BY <1>1, LedgersStay DEF vars
<1>2. CASE PauseOver \/ \E n \in Rounds : DeadlinePasses(n)
  <2>1. UNCHANGED <<wallet, ledger, bet>>
    BY <1>2 DEF PauseOver, DeadlinePasses
  <2>2. QED  BY <2>1, LedgersStay
<1>3. ASSUME NEW p \in Replicas, WorkerStep(p) PROVE LInv'
  <2>1. CASE SettleRound(p)
    BY <2>1, SettlePosts
  <2>2. CASE ~SettleRound(p)
    <3>1. UNCHANGED <<wallet, ledger, bet>>
      BY <1>3, <2>2
         DEF WorkerStep, FinishTick, Tick, GetCurrentRound, TickFails, CloseRoundOnce,
             StartSpinningRoundOnce, SettleThrows, SettleNone, EnsureOpenRounds, EnsureLook,
             ReadNumber, InsertRound
    <3>2. QED  BY <3>1, LedgersStay
  <2>3. QED  BY <2>1, <2>2
<1>4. ASSUME NEW r \in Requests, Submit(r) \/ Serve(r) \/ Fail(r) PROVE LInv'
  <2>1. CASE PlaceCommit(r)
    BY <2>1, CommitPosts
  <2>2. CASE ~PlaceCommit(r)
    <3>1. UNCHANGED <<wallet, ledger, bet>>
      BY <1>4, <2>2
         DEF Submit, Serve, Fail, Return, PlaceLookup, ChooseRound, PlaceNumber, PlaceInsert,
             ReadClock, LockRound, PlaceAbort
    <3>2. QED  BY <3>1, LedgersStay
  <2>3. QED  BY <2>1, <2>2
<1>5. ASSUME NEW b \in Bets, NEW key \in Keys, AdminRelease(b, key) \/ AdminCapture(b, key)
      PROVE  LInv'
  BY <1>5, AdminPosts
<1>6. ASSUME NEW w \in Wallets, NEW delta \in Deltas, NEW key \in Keys, Adjust(w, delta, key)
      PROVE  LInv'
  BY <1>6, AdjustPosts
<1>7. QED  BY <1>1, <1>2, <1>3, <1>4, <1>5, <1>6 DEF Next

\* The ledger of a wallet is an unbroken chain without a repeated key, and tells
\* of every bet once that it was placed, how its reservation ended and that it
\* won, for any number of bets, replicas and placements, whoever captured.
THEOREM LedgersTell == Spec => []LedgerTellsBets
<1>1. IInv /\ LInv => LedgerTellsBets
  <2> SUFFICES ASSUME IInv, LInv PROVE LedgerTellsBets
    OBVIOUS
  <2>1. \A w \in Wallets : ChainFrom(ledger[w], wallet[w].balance) /\ KeysDistinct(ledger[w])
    BY DEF LInv, Chained
  <2>2. ASSUME NEW b \in Placed, NEW reason \in BetReasons
        PROVE  Cardinality(PostsOf(ledger[bet[b].wallet], b, reason))
                 = IF Tells(bet[b], reason) THEN 1 ELSE 0
    <3>1. Told(bet[b], ledger[bet[b].wallet], b)
      BY DEF LInv, IInv, BetsInOrder, Placed
    <3>2. QED  BY <3>1, FS_EmptySet, FS_Singleton DEF Told
  <2>3. ASSUME NEW b \in Bets, bet[b].status # "NONE"
        PROVE  LET Posted(reason) ==
                     Cardinality({i \in DOMAIN ledger[bet[b].wallet] :
                                    /\ ledger[bet[b].wallet][i].ref = b
                                    /\ ledger[bet[b].wallet][i].reason = reason})
               IN /\ Posted("BET_HOLD") = 1
                  /\ Posted("BET_RELEASE") = IF bet[b].hold = "RELEASED" THEN 1 ELSE 0
                  /\ Posted("BET_CAPTURE") = IF bet[b].hold = "CAPTURED" THEN 1 ELSE 0
                  /\ Posted("BET_PAYOUT") = IF bet[b].status = "WON" THEN 1 ELSE 0
    <3>1. \A reason \in BetReasons :
            Cardinality(PostsOf(ledger[bet[b].wallet], b, reason))
              = IF Tells(bet[b], reason) THEN 1 ELSE 0
      BY <2>2, <2>3 DEF Placed
    <3>2. /\ Tells(bet[b], "BET_HOLD")
          /\ Tells(bet[b], "BET_RELEASE") <=> bet[b].hold = "RELEASED"
          /\ Tells(bet[b], "BET_CAPTURE") <=> bet[b].hold = "CAPTURED"
          /\ Tells(bet[b], "BET_PAYOUT") <=> bet[b].status = "WON"
      BY <2>3 DEF Tells
    <3>3. QED  BY <3>1, <3>2 DEF BetReasons, PostsOf
  <2>4. QED  BY <2>1, <2>3 DEF LedgerTellsBets
<1>2. QED  BY <1>1, RouletteInit, RouletteStep, LedgersInit, LedgersStep, PTL DEF Spec

=============================================================================
