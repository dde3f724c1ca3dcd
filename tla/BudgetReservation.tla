------------------------- MODULE BudgetReservation -------------------------
(***************************************************************************)
(* Project budgets: the reservation protocol of apps/gateway/src/db.ts on  *)
(* the Postgres backend, statement by statement, for one project, with the *)
(* part of a chat request (routes/chat.ts) that settles what it reserved.  *)
(*                                                                         *)
(* The transaction of reserveBudgetForRequest runs under READ COMMITTED,   *)
(* so each of its statements sees what is committed when that statement    *)
(* runs: the two sums it compares with the limit are taken at different    *)
(* moments, while finishing requests keep writing without the row lock.    *)
(* Each request of the model runs in a gateway process of its own; any of  *)
(* them may crash at any step.                                             *)
(***************************************************************************)
EXTENDS Integers, FiniteSets, Functions

CONSTANTS
  Requests,     \* chat completions of one project
  NumBudgets,   \* its enabled budgets, in the order of "ORDER BY period"
  Limits,       \* limits an operator may set
  Amounts,      \* possible estimates, in micro-cents
  Costs,        \* possible real costs, in micro-cents
  EstimateCovers, \* is a real cost never above its estimate?
  OutlivesTtl,  \* may a request run longer than its reservation's TTL?
  None          \* no request

Budgets == 1..NumBudgets

ASSUME BudgetsAssumption == NumBudgets \in Nat \ {0}
ASSUME AmountsAssumption == /\ Amounts \subseteq Nat
                            /\ Costs \subseteq Nat
                            /\ Limits \subseteq Nat
                            /\ 0 \in Amounts \cap Costs
ASSUME WorldAssumption == EstimateCovers \in BOOLEAN /\ OutlivesTtl \in BOOLEAN
ASSUME NoneAssumption == None \notin Requests
ASSUME RequestsAssumption == IsFiniteSet(Requests)

VARIABLES
  pc,           \* where each request is
  amount,       \* its estimate, rounded up
  cost,         \* what its ledger row says it cost
  limit,        \* budgets.limit_micro_cents
  lock,         \* who holds the row locks of SELECT ... FOR UPDATE
  next,         \* next budget of a loop: the spend reads, or the releases
  seenSpend,    \* ledger rows each spend read summed over
  seenReserved, \* reservation rows the reserved read summed over
  txExpired,    \* rows with expires_at <= NOW(), NOW() being the start of the transaction
  ledger,       \* success rows of requests inside the budget's current period
  resv,         \* budget_reservations.status of each row, "none" before its INSERT
  expired       \* rows whose expires_at has passed

vars == <<pc, amount, cost, limit, lock, next, seenSpend, seenReserved,
          txExpired, ledger, resv, expired>>
txVars == <<seenSpend, seenReserved, txExpired>>

InTx == {"spend", "reserved", "decide"}      \* holds the row locks
Over == {"done", "leaked", "rejected", "failed", "crashed"}
Phases == {"start", "begun", "upstream", "settle", "release"} \cup InTx \cup Over

-----------------------------------------------------------------------------

NoRows == [b \in Budgets |-> {}]
Total(f, S) == FoldFunctionOnSet(+, 0, f, S)

(* Mutant: the expires_at > NOW() of the query is forgotten. *)
PendingRowsForEver(b, old) == {q \in Requests : resv[q][b] = "pending"}

(* The reservation rows of budget b that WHERE status = 'pending' AND
   expires_at > NOW() selects, when the rows past their expiry are old. *)
PendingRows(b, old) == {q \in Requests : resv[q][b] = "pending" /\ q \notin old}

(* A reservation that still takes headroom. *)
Holding(b) == PendingRows(b, expired)

Goto(r, phase) == pc' = [pc EXCEPT ![r] = phase]

(* Mutant: a lock that outlives its transaction. *)
EndTxLocked(r) ==
  /\ seenSpend' = [seenSpend EXCEPT ![r] = NoRows]
  /\ seenReserved' = [seenReserved EXCEPT ![r] = NoRows]
  /\ txExpired' = [txExpired EXCEPT ![r] = {}]
  /\ UNCHANGED lock

(* The end of the transaction, by COMMIT or ROLLBACK. *)
EndTx(r) ==
  /\ lock' = IF lock = r THEN None ELSE lock
  /\ seenSpend' = [seenSpend EXCEPT ![r] = NoRows]
  /\ seenReserved' = [seenReserved EXCEPT ![r] = NoRows]
  /\ txExpired' = [txExpired EXCEPT ![r] = {}]

Init ==
  /\ pc = [r \in Requests |-> "start"]
  /\ amount = [r \in Requests |-> 0]
  /\ cost = [r \in Requests |-> 0]
  /\ limit \in [Budgets -> Limits]
  /\ lock = None
  /\ next = [r \in Requests |-> 1]
  /\ seenSpend = [r \in Requests |-> NoRows]
  /\ seenReserved = [r \in Requests |-> NoRows]
  /\ txExpired = [r \in Requests |-> {}]
  /\ ledger = NoRows
  /\ resv = [r \in Requests |-> [b \in Budgets |-> "none"]]
  /\ expired = {}

-----------------------------------------------------------------------------
(* reserveBudgetForRequest *)

(* An estimate that rounds to nothing takes no reservation. *)
PassFree(r) ==
  /\ pc[r] = "start"
  /\ Goto(r, "upstream")
  /\ UNCHANGED <<amount, cost, limit, lock, next, ledger, resv, expired>>
  /\ UNCHANGED txVars

(* sql.begin: the transaction's NOW() is fixed here, before it waits. *)
BeginTx(r) ==
  /\ pc[r] = "start"
  /\ \E a \in Amounts \ {0} : amount' = [amount EXCEPT ![r] = a]
  /\ txExpired' = [txExpired EXCEPT ![r] = expired]
  /\ Goto(r, "begun")
  /\ UNCHANGED <<cost, limit, lock, next, seenSpend, seenReserved, ledger,
                 resv, expired>>

(* Mutant: the SELECT without FOR UPDATE. *)
LockBudgetsShared(r) ==
  /\ pc[r] = "begun"
  /\ lock' = r
  /\ next' = [next EXCEPT ![r] = 1]
  /\ Goto(r, "spend")
  /\ UNCHANGED <<amount, cost, limit, ledger, resv, expired>>
  /\ UNCHANGED txVars

(* SELECT ... FROM budgets ... FOR UPDATE returns. *)
LockBudgets(r) ==
  /\ pc[r] = "begun"
  /\ lock = None
  /\ lock' = r
  /\ next' = [next EXCEPT ![r] = 1]
  /\ Goto(r, "spend")
  /\ UNCHANGED <<amount, cost, limit, ledger, resv, expired>>
  /\ UNCHANGED txVars

(* One turn of the loop over periods: SUM(cost_micro_cents) over the rows
   committed now. *)
ReadSpend(r) ==
  /\ pc[r] = "spend"
  /\ seenSpend' = [seenSpend EXCEPT ![r][next[r]] = ledger[next[r]]]
  /\ next' = [next EXCEPT ![r] = @ + 1]
  /\ Goto(r, IF next[r] = NumBudgets THEN "reserved" ELSE "spend")
  /\ UNCHANGED <<amount, cost, limit, lock, seenReserved, txExpired, ledger,
                 resv, expired>>

(* SUM(amount_micro_cents) ... GROUP BY period, one statement for all periods. *)
ReadReserved(r) ==
  /\ pc[r] = "reserved"
  /\ seenReserved' = [seenReserved EXCEPT
                        ![r] = [b \in Budgets |-> PendingRows(b, txExpired[r])]]
  /\ Goto(r, "decide")
  /\ UNCHANGED <<amount, cost, limit, lock, next, seenSpend, txExpired, ledger,
                 resv, expired>>

(* Mutant: the pre-migration check, committed spend alone. *)
WouldExceedSpend(r, b) == Total(cost, seenSpend[r][b]) + amount[r] > limit[b]

(* Mutant: the request does not count itself, spent + pending > limit. *)
WouldExceedOthers(r, b) ==
  Total(cost, seenSpend[r][b]) + Total(amount, seenReserved[r][b]) > limit[b]

WouldExceed(r, b) ==
  Total(cost, seenSpend[r][b]) + Total(amount, seenReserved[r][b]) + amount[r]
    > limit[b]

(* Every budget has room: one row per budget, visible to others at COMMIT. *)
Admit(r) ==
  /\ pc[r] = "decide"
  /\ \A b \in Budgets : ~WouldExceed(r, b)
  /\ resv' = [resv EXCEPT ![r] = [b \in Budgets |-> "pending"]]
  /\ Goto(r, "upstream")
  /\ EndTx(r)
  /\ UNCHANGED <<amount, cost, limit, next, ledger, expired>>

(* The COMMIT takes effect but its answer is lost: the caller sees an error,
   answers 500 and never learns the ids it should release. *)
AdmitUnacknowledged(r) ==
  /\ pc[r] = "decide"
  /\ \A b \in Budgets : ~WouldExceed(r, b)
  /\ resv' = [resv EXCEPT ![r] = [b \in Budgets |-> "pending"]]
  /\ Goto(r, "leaked")
  /\ EndTx(r)
  /\ UNCHANGED <<amount, cost, limit, next, ledger, expired>>

(* Some budget has no room: nothing is written, the caller answers 429. *)
Reject(r) ==
  /\ pc[r] = "decide"
  /\ \E b \in Budgets : WouldExceed(r, b)
  /\ Goto(r, "rejected")
  /\ EndTx(r)
  /\ UNCHANGED <<amount, cost, limit, next, ledger, resv, expired>>

(* A statement of the transaction fails: sql.begin rolls back and throws. *)
FailTx(r) ==
  /\ pc[r] \in {"begun"} \cup InTx
  /\ Goto(r, "failed")
  /\ EndTx(r)
  /\ UNCHANGED <<amount, cost, limit, next, ledger, resv, expired>>

-----------------------------------------------------------------------------
(* The rest of the request: upstream call, ledger row, release *)

(* The upstream call succeeds. *)
UpstreamOk(r) ==
  /\ pc[r] = "upstream"
  /\ Goto(r, "settle")
  /\ UNCHANGED <<amount, cost, limit, lock, next, ledger, resv, expired>>
  /\ UNCHANGED txVars

(* It fails: its row has status 'error' and no sum ever counts it. *)
UpstreamError(r) ==
  /\ pc[r] = "upstream"
  /\ next' = [next EXCEPT ![r] = 1]
  /\ Goto(r, "release")
  /\ UNCHANGED <<amount, cost, limit, lock, ledger, resv, expired>>
  /\ UNCHANGED txVars

(* insertRequest commits a success row with the real cost.  It does not take
   the row locks. *)
InsertRequest(r) ==
  /\ pc[r] = "settle"
  /\ \E c \in Costs : /\ EstimateCovers => c <= amount[r]
                      /\ cost' = [cost EXCEPT ![r] = c]
  /\ ledger' = [b \in Budgets |-> ledger[b] \cup {r}]
  /\ next' = [next EXCEPT ![r] = 1]
  /\ Goto(r, "release")
  /\ UNCHANGED <<amount, limit, lock, resv, expired>>
  /\ UNCHANGED txVars

(* insertRequest fails: the handler logs it and goes on to release. *)
InsertRequestFails(r) ==
  /\ pc[r] = "settle"
  /\ next' = [next EXCEPT ![r] = 1]
  /\ Goto(r, "release")
  /\ UNCHANGED <<amount, cost, limit, lock, ledger, resv, expired>>
  /\ UNCHANGED txVars

(* Mutants: the first id only; one turn too many. *)
ReleaseRowOnce(r) ==
  /\ pc[r] = "release"
  /\ resv' = [resv EXCEPT ![r][next[r]] = IF @ = "pending" THEN "released" ELSE @]
  /\ Goto(r, "done")
  /\ UNCHANGED <<amount, cost, limit, lock, next, ledger, expired>>
  /\ UNCHANGED txVars
ReleaseRowTooFar(r) ==
  /\ pc[r] = "release"
  /\ resv' = [resv EXCEPT ![r][next[r]] = IF @ = "pending" THEN "released" ELSE @]
  /\ next' = [next EXCEPT ![r] = @ + 1]
  /\ Goto(r, IF next[r] > NumBudgets THEN "done" ELSE "release")
  /\ UNCHANGED <<amount, cost, limit, lock, ledger, expired>>
  /\ UNCHANGED txVars

(* releaseBudgetReservations, one UPDATE per id: SET status = 'released'
   WHERE id = ... AND status = 'pending'.  A free pass has no ids. *)
ReleaseRow(r) ==
  /\ pc[r] = "release"
  /\ resv' = [resv EXCEPT ![r][next[r]] = IF @ = "pending" THEN "released" ELSE @]
  /\ next' = [next EXCEPT ![r] = @ + 1]
  /\ Goto(r, IF next[r] = NumBudgets THEN "done" ELSE "release")
  /\ UNCHANGED <<amount, cost, limit, lock, ledger, expired>>
  /\ UNCHANGED txVars

(* An UPDATE fails: the loop is left, the rest of the ids stay pending. *)
ReleaseFails(r) ==
  /\ pc[r] = "release"
  /\ Goto(r, "leaked")
  /\ UNCHANGED <<amount, cost, limit, lock, next, ledger, resv, expired>>
  /\ UNCHANGED txVars

-----------------------------------------------------------------------------
(* Around the requests *)

(* The gateway process of r dies; its open transaction is rolled back. *)
Crash(r) ==
  /\ pc[r] \notin Over
  /\ Goto(r, "crashed")
  /\ EndTx(r)
  /\ UNCHANGED <<amount, cost, limit, next, ledger, resv, expired>>

(* expires_at of r's rows passes.  The rows of one request share it. *)
Expire(r) ==
  /\ \E b \in Budgets : resv[r][b] = "pending"
  /\ OutlivesTtl \/ pc[r] \in Over
  /\ r \notin expired
  /\ expired' = expired \cup {r}
  /\ UNCHANGED <<pc, amount, cost, limit, lock, next, ledger, resv>>
  /\ UNCHANGED txVars

(* A UTC day or month starts: periodStartUtc moves past the rows so far. *)
RollOver(b) ==
  /\ ledger[b] # {}
  /\ ledger' = [ledger EXCEPT ![b] = {}]
  /\ UNCHANGED <<pc, amount, cost, limit, lock, next, resv, expired>>
  /\ UNCHANGED txVars

(* The dashboard's upsert of a budget waits for the row lock. *)
SetLimit(b) ==
  /\ lock = None
  /\ \E l \in Limits \ {limit[b]} : limit' = [limit EXCEPT ![b] = l]
  /\ UNCHANGED <<pc, amount, cost, lock, next, ledger, resv, expired>>
  /\ UNCHANGED txVars

-----------------------------------------------------------------------------

Reserve(r) == BeginTx(r) \/ LockBudgets(r) \/ ReadSpend(r) \/ ReadReserved(r)
                \/ Admit(r) \/ Reject(r)
Finish(r) == InsertRequest(r) \/ InsertRequestFails(r) \/ ReleaseRow(r)
               \/ ReleaseFails(r)

Next ==
  \/ \E r \in Requests :
       \/ PassFree(r) \/ Reserve(r) \/ AdmitUnacknowledged(r) \/ FailTx(r)
       \/ UpstreamOk(r) \/ UpstreamError(r) \/ Finish(r)
       \/ Crash(r) \/ Expire(r)
  \/ \E b \in Budgets : RollOver(b) \/ SetLimit(b)

Spec == Init /\ [][Next]_vars

(* The event loop runs every continuation of an open transaction and the
   clock moves on.  Nothing makes an upstream call end: the gateway sets no
   timeout on it. *)
Fairness ==
  \A r \in Requests : /\ WF_vars(LockBudgets(r) \/ ReadSpend(r) \/ ReadReserved(r)
                                   \/ Admit(r) \/ Reject(r))
                      /\ WF_vars(Expire(r))

FairSpec == Spec /\ Fairness

-----------------------------------------------------------------------------
(* Properties *)

(* Every variable stays in its type: phases, row statuses, loop indices. *)
TypeOK ==
  /\ pc \in [Requests -> Phases]
  /\ amount \in [Requests -> Amounts]
  /\ cost \in [Requests -> Costs]
  /\ limit \in [Budgets -> Limits]
  /\ lock \in Requests \cup {None}
  /\ next \in [Requests -> 1..(NumBudgets + 1)]
  /\ seenSpend \in [Requests -> [Budgets -> SUBSET Requests]]
  /\ seenReserved \in [Requests -> [Budgets -> SUBSET Requests]]
  /\ txExpired \in [Requests -> SUBSET Requests]
  /\ ledger \in [Budgets -> SUBSET Requests]
  /\ resv \in [Requests -> [Budgets -> {"none", "pending", "released"}]]
  /\ expired \in SUBSET Requests

(* When an attempt decides, every reservation that still takes headroom is in
   the sum it took, however many requests finished, expired or crashed since:
   no two in-flight requests are granted the same headroom. *)
InFlightCounted ==
  \A r \in Requests : pc[r] = "decide" =>
    \A b \in Budgets : Holding(b) \subseteq seenReserved[r][b]

(* A request that ran to its end holds nothing, whatever it met on the way;
   the ones that may still hold rows left through a failed release or a crash. *)
DoneHoldsNothing ==
  \A r \in Requests : pc[r] \in {"done", "rejected", "failed"} =>
    \A b \in Budgets : resv[r][b] # "pending"

(* A row that takes headroom stops taking it, crash or not: a leaked
   reservation never eats a budget for good. *)
HeldIsFreed ==
  \A r \in Requests, b \in Budgets : r \in Holding(b) ~> r \notin Holding(b)

(* An attempt that waits for the budget rows gets an answer. *)
AttemptsAnswered == \A r \in Requests : pc[r] = "begun" ~> pc[r] # "begun"

(* Spend that is recorded stays within the cap: what "hard caps per project
   per period" (migrations/001_init.sql) and "the next request sees committed
   spend + pending spend" (migrations/022) claim of the gate. *)
SpendWithinLimit == \A b \in Budgets : Total(cost, ledger[b]) <= limit[b]

(* What budget b has been charged, and may still be charged by requests that
   hold a promise on it. *)
Owed(b) == {q \in Holding(b) : pc[q] \in {"upstream", "settle"}}
Exposure(b) == Total(cost, ledger[b]) + Total(amount, Owed(b))
Covered(b) == Exposure(b) <= limit[b]

(* The ways past a cap.  The operator lowers it; a request costs more than it
   has promised (its estimate was too low, or its reservation expired under
   it); or an attempt is admitted whose two sums have both overlooked a charge,
   which was not on the ledger yet when one was taken and was no longer, or too
   little, reserved when the other was. *)
Promised(q, S) == IF q \in S THEN amount[q] ELSE 0
Lowered(b) == limit'[b] < limit[b]
Overcharged(b) == \E q \in ledger'[b] \ ledger[b] : cost'[q] > Promised(q, Owed(b))
Overlooked(b) ==
  \E r \in Owed(b)' \ Owed(b) :
    \E q \in ledger[b] \ seenSpend[r][b] : cost[q] > Promised(q, seenReserved[r][b])

(* A budget that covers what it is exposed to goes on covering it, through
   any admissions, charges, releases, expiries and crashes, and through the
   start of a new period, but for these three ways: what remains true of the
   "hard caps" the gate does not keep (SpendWithinLimit). *)
CapKept ==
  [][\A b \in Budgets : Covered(b) /\ ~Covered(b)'
       => Lowered(b) \/ Overcharged(b) \/ Overlooked(b)]_vars

(* The protocol implements the abstract gate: see SpendGate. *)
Gate == INSTANCE SpendGate WITH
  Caps <- Budgets,
  Weights <- Amounts,
  Charges <- Costs,
  promise <- [r \in Requests |-> [b \in Budgets |->
                IF resv[r][b] = "none" THEN 0 ELSE amount[r]]],
  charge <- [r \in Requests |-> [b \in Budgets |-> cost[r]]],
  held <- [b \in Budgets |-> Holding(b)],
  spent <- ledger,
  looked <- seenSpend

ImplementsGate == Gate!Spec

=============================================================================
