---------------------------- MODULE WalletLocks -----------------------------
(***************************************************************************)
(* Transactions that lock more than one wallet row, or other rows beside   *)
(* one, and calls made of several transactions: the shared part of tips,   *)
(* rain, the vault and affiliate claims.                                   *)
(*                                                                         *)
(* A call notes the time (Date.now(), new Date()) when it starts.  A       *)
(* transaction locks its wallets one after the other with SELECT ... FOR   *)
(* UPDATE and keeps the balances it read; its writes become visible when   *)
(* it commits.  PostgreSQL rolls back one of the transactions that wait    *)
(* for each other.                                                         *)
(***************************************************************************)
EXTENDS WalletLedger, FiniteSets

CONSTANTS
  Requests,    \* calls that run at the same time
  NoRequest,   \* a row lock nobody holds
  Offered,     \* operations callers ask for
  Amounts,     \* amounts callers ask for
  Funds,       \* what every wallet holds at the start, posted by one adjustment
  MaxCalls,    \* bound on the calls of one behaviour
  MaxClock     \* bound on the time

ASSUME WalletLocksAssumption ==
  /\ Amounts \subseteq Nat \ {0}
  /\ Funds \in 1..BigintMax
  /\ NoRequest \notin Requests
  /\ MaxClock \in Nat
  /\ IsFiniteSet(Wallets)

VARIABLES
  walletLock,  \* [Wallets -> the request that holds the row, or NoRequest]
  req,         \* [Requests -> Idle or the state of the call]
  clock,       \* the time, in quarters of an hour
  calls        \* calls made so far

callVars == <<walletLock, req, clock, calls>>

Idle == [pc |-> "idle"]

CallsInit ==
  /\ wallet = [w \in Wallets |-> [balance |-> Funds, locked |-> 0, wager |-> 0]]
  /\ ledger = [w \in Wallets |->
       << Entry("ADJUST", "CREDIT", Funds, 0, Funds, <<"funds">>, NoRef) >>]
  /\ walletLock = [w \in Wallets |-> NoRequest]
  /\ req = [r \in Requests |-> Idle]
  /\ clock = 0
  /\ calls = 0

\* The call starts, with its arguments and the time it notes.
Start(r, call) ==
  /\ req[r] = Idle
  /\ call.op \in Offered
  /\ calls < MaxCalls
  /\ calls' = calls + 1
  /\ req' = [req EXCEPT ![r] = call]
  /\ UNCHANGED <<moneyVars, walletLock, clock>>

Goto(r, pc) == req' = [req EXCEPT ![r].pc = pc]

At(r, op, pc) == req[r].pc = pc /\ req[r].op = op

Unlocked(r) == [w \in Wallets |-> IF walletLock[w] = r THEN NoRequest ELSE walletLock[w]]

\* The transaction commits or rolls back, and the call answers.
Answer(r) ==
  /\ walletLock' = Unlocked(r)
  /\ req' = [req EXCEPT ![r] = Idle]

Free(w) == walletLock[w] = NoRequest

\* Mutant: the row is read without FOR UPDATE.
LockableAlways(r, w) == TRUE

Lockable(r, w) == walletLock[w] \in {NoRequest, r}

\* The balances read so far, and that of one wallet more.
ReadAlso(read, w) ==
  [v \in DOMAIN read \cup {w} |-> IF v = w THEN wallet[w].balance ELSE read[v]]

\* lockWallet of the next wallet: the row is locked and its balance read.
LockWallet(r) ==
  /\ req[r].pc = "lock"
  /\ req[r].order # <<>>
  /\ LET w == Head(req[r].order)
     IN /\ Lockable(r, w)
        /\ walletLock' = [walletLock EXCEPT ![w] = r]
        /\ req' = [req EXCEPT ![r].order = Tail(@),
                              ![r].read = ReadAlso(@, w)]
  /\ UNCHANGED <<moneyVars, clock, calls>>

Holds(r) == \E w \in Wallets : walletLock[w] = r

Waiting(r) ==
  /\ req[r].pc = "lock"
  /\ req[r].order # <<>>
  /\ ~Lockable(r, Head(req[r].order))

\* Mutant: nobody looks for transactions that wait for each other.
DeadlockedNever(r) == FALSE

\* Each of these transactions waits for a lock another of them holds.
Deadlocked(r) ==
  \E R \in SUBSET Requests :
    /\ r \in R
    /\ \A x \in R : Waiting(x) /\ walletLock[Head(req[x].order)] \in R

\* The database rolls back one transaction of a deadlock.
DeadlockVictim(r) ==
  /\ Deadlocked(r)
  /\ Answer(r)
  /\ UNCHANGED <<moneyVars, clock, calls>>

\* The process dies or a statement fails: the open transaction rolls back.
Fail(r) ==
  /\ req[r] # Idle
  /\ Answer(r)
  /\ UNCHANGED <<moneyVars, clock, calls>>

Tick ==
  /\ clock < MaxClock
  /\ clock' = clock + 1
  /\ UNCHANGED <<moneyVars, walletLock, req, calls>>

\* adjustWalletBalance: a transaction of its own that waits for the row; a key
\* already posted is answered like the first time.
Adjusted(w, delta, key) ==
  /\ Free(w)
  /\ \/ KeyUsed(w, key) /\ UNCHANGED moneyVars
     \/ AdjustWalletBalance(w, delta, key)
=============================================================================
