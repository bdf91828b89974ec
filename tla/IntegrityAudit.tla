--------------------------- MODULE IntegrityAudit ---------------------------
(***************************************************************************)
(* The periodic financial integrity audit (scripts/integrity-audit.ts),    *)
(* run beside the live wallets.  It reads, each with a statement of its    *)
(* own and outside any transaction: the sums of the pending bets, the sums *)
(* of the held reservations, the wallets, the ledger of each wallet, and   *)
(* last the checks that are one SQL statement each.                        *)
(***************************************************************************)
EXTENDS CasinoWallets

VARIABLE
  audit  \* [pc, expected, page, todo, issues]

auditVars == <<vars, audit>>

AuditInit ==
  /\ Init
  /\ audit = [pc |-> "start", expected |-> [w \in Wallets |-> 0], page |-> wallet,
              todo |-> Wallets, issues |-> {}]

-----------------------------------------------------------------------------
(***************************************************************************)
(* The checks.                                                             *)
(***************************************************************************)

PendingSum(w) ==
  Total([b \in BetIds |-> bet[b].amount],
        {b \in BetIds : bet[b].status = "PENDING" /\ bet[b].wallet = w})

HeldSum(w) ==
  Total([b \in Refs |-> reservation[<<w, b>>].amount],
        {b \in Refs : reservation[<<w, b>>].status = "HELD"})

\* Mutant: the running balance lags a row behind.
RunningLate(rows, i) == IF i = 1 THEN rows[1].before ELSE rows[i - 1].before

\* runningBalance before the i-th row: the first row is taken at its word.
Running(rows, i) == IF i = 1 THEN rows[1].before ELSE rows[i - 1].after

Delta(row) == IF row.direction = "CREDIT" THEN row.amount ELSE -row.amount

\* The amounts of the rows with one of these reasons, together.
PostedSum(rows, reasons) ==
  Total([i \in DOMAIN rows |-> rows[i].amount], {i \in DOMAIN rows : rows[i].reason \in reasons})

\* Mutant: releases are forgotten.
LockedFromLedgerNoRelease(rows) ==
  PostedSum(rows, {"BET_HOLD"}) - PostedSum(rows, {"BET_CAPTURE"})

LockedFromLedger(rows) ==
  PostedSum(rows, {"BET_HOLD"}) - PostedSum(rows, {"BET_RELEASE", "BET_CAPTURE"})

\* auditWallet: does the check with this code report the wallet?  The checks for
\* negative columns repeat the database's CHECK constraints.
Reports(code, row, rows, expected) ==
  CASE code = "NON_ZERO_BALANCE_WITHOUT_LEDGER" -> rows = <<>> /\ row.balance # 0
    [] code = "LEDGER_BALANCE_BEFORE_MISMATCH" ->
         \E i \in DOMAIN rows : rows[i].before # Running(rows, i)
    [] code = "LEDGER_BALANCE_AFTER_MISMATCH" ->
         \E i \in DOMAIN rows : rows[i].after # Running(rows, i) + Delta(rows[i])
    [] code = "WALLET_BALANCE_MISMATCH_WITH_LEDGER" ->
         rows # <<>> /\ rows[Len(rows)].after # row.balance
    [] code = "NEGATIVE_RECOMPUTED_LOCKED" -> LockedFromLedger(rows) < 0
    [] code = "WALLET_LOCKED_MISMATCH_WITH_LEDGER" -> LockedFromLedger(rows) # row.locked
    [] code = "WALLET_LOCKED_MISMATCH_WITH_BET_STATE" -> expected # row.locked

WalletCodes ==
  {"NON_ZERO_BALANCE_WITHOUT_LEDGER", "LEDGER_BALANCE_BEFORE_MISMATCH",
   "LEDGER_BALANCE_AFTER_MISMATCH", "WALLET_BALANCE_MISMATCH_WITH_LEDGER",
   "NEGATIVE_RECOMPUTED_LOCKED", "WALLET_LOCKED_MISMATCH_WITH_LEDGER",
   "WALLET_LOCKED_MISMATCH_WITH_BET_STATE"}

WalletIssues(row, rows, expected) ==
  {code \in WalletCodes : Reports(code, row, rows, expected)}

\* auditDuplicateSettlements: rows of one reason, of any wallet, that share a reference.
Postings(reason, ref) ==
  {p \in UNION {{w} \X DOMAIN ledger[w] : w \in Wallets} :
     LET row == ledger[p[1]][p[2]] IN row.reason = reason /\ row.ref = ref}

Duplicated(reason) ==
  \E ref \in Refs \cup BetIds : \E p, q \in Postings(reason, ref) : p # q

Settled == {b \in BetIds : bet[b].status \in {"WON", "LOST"}}

SettlementIssues ==
  {code \in {"DUPLICATE_SETTLEMENT_CAPTURE_LEDGER", "DUPLICATE_SETTLEMENT_PAYOUT_LEDGER",
             "DUPLICATE_SETTLE_IDEMPOTENCY_KEY", "DUPLICATE_DECISION_NONCE",
             "PAYOUT_LEDGER_MISMATCH"} :
     CASE code = "DUPLICATE_SETTLEMENT_CAPTURE_LEDGER" -> Duplicated("BET_CAPTURE")
       [] code = "DUPLICATE_SETTLEMENT_PAYOUT_LEDGER" -> Duplicated("BET_PAYOUT")
       [] code = "DUPLICATE_SETTLE_IDEMPOTENCY_KEY" ->
            \E b, c \in Settled : b # c /\ bet[b].nonce = bet[c].nonce
       [] code = "DUPLICATE_DECISION_NONCE" ->
            \E g, h \in gameResult : g # h /\ g.nonce = h.nonce
       [] code = "PAYOUT_LEDGER_MISMATCH" ->
            \E b \in Settled :
               LET paid == Postings("BET_PAYOUT", b)
               IN bet[b].payout # Total([p \in paid |-> ledger[p[1]][p[2]].amount], paid)}

-----------------------------------------------------------------------------
(***************************************************************************)
(* One run of the script.                                                  *)
(***************************************************************************)

AuditPending ==
  /\ audit.pc = "start"
  /\ audit' = [audit EXCEPT !.pc = "held",
                            !.expected = [w \in Wallets |-> PendingSum(w)]]

AuditHeld ==
  /\ audit.pc = "held"
  /\ audit' = [audit EXCEPT !.pc = "page",
                            !.expected = [w \in Wallets |-> @[w] + HeldSum(w)]]

AuditPage ==
  /\ audit.pc = "page"
  /\ audit' = [audit EXCEPT !.pc = "entries", !.page = wallet]

AuditWallet(w) ==
  /\ audit.pc = "entries"
  /\ w \in audit.todo
  /\ audit' = [audit EXCEPT !.todo = @ \ {w},
                            !.issues = @ \cup WalletIssues(audit.page[w], ledger[w],
                                                           audit.expected[w])]

AuditSettlements ==
  /\ audit.pc = "entries"
  /\ audit.todo = {}
  /\ audit' = [audit EXCEPT !.pc = "report", !.issues = @ \cup SettlementIssues]

AuditStep ==
  \/ AuditPending \/ AuditHeld \/ AuditPage \/ AuditSettlements
  \/ \E w \in Wallets : AuditWallet(w)

AuditNext ==
  \/ AuditStep /\ UNCHANGED vars
  \/ Next /\ UNCHANGED audit

AuditSpec == AuditInit /\ [][AuditNext]_auditVars

-----------------------------------------------------------------------------

CapturePosted(w) == \E i \in DOMAIN ledger[w] : ledger[w][i].reason = "BET_CAPTURE"

\* The SQL counts captures by reference, but a reference is unique only within a
\* wallet: the stakes of two wallets may share one, as the hold route allows.
SharedReference ==
  \E v, w \in Wallets, b \in Refs :
    v # w /\ reservation[<<v, b>>].status = "CAPTURED" /\ reservation[<<w, b>>].status = "CAPTURED"

FalseDuplicate == IF SharedReference THEN {"DUPLICATE_SETTLEMENT_CAPTURE_LEDGER"} ELSE {}

\* Run while nothing moves, the audit has nothing to report in any reachable
\* state, but for two things it always reports: the balance after a capture (a
\* DEBIT row that leaves the balance as it is), and captures of two wallets that
\* share a bet reference.
QuietAuditClean ==
  /\ \A w \in Wallets :
       WalletIssues(wallet[w], ledger[w], PendingSum(w) + HeldSum(w)) =
         IF CapturePosted(w) THEN {"LEDGER_BALANCE_AFTER_MISMATCH"} ELSE {}
  /\ SettlementIssues = FalseDuplicate

\* Run beside live requests, the checks that read one table in one statement, and
\* the one that reads the ledger after the wallet, raise no other false alarm.
LiveAuditReliable ==
  audit.issues \subseteq FalseDuplicate \cup
                         {"LEDGER_BALANCE_AFTER_MISMATCH",
                          "WALLET_BALANCE_MISMATCH_WITH_LEDGER",
                          "WALLET_LOCKED_MISMATCH_WITH_LEDGER",
                          "WALLET_LOCKED_MISMATCH_WITH_BET_STATE"}
=============================================================================
