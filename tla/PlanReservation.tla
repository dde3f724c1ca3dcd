-------------------------- MODULE PlanReservation --------------------------
(***************************************************************************)
(* Plan tiers: reservePlanForRequest and releasePlanReservations of        *)
(* apps/gateway/src/db.ts for one user whose plan has caps, statement by   *)
(* statement under READ COMMITTED.  A transaction-scoped advisory lock     *)
(* serializes the attempts; the requests that finish meanwhile do not take *)
(* it.  Two caps are checked one after the other: spend over 24 hours and  *)
(* number of requests over 30 days, across the projects of the user.  The  *)
(* plan is fixed here; the gateway caches it for 60 seconds.               *)
(***************************************************************************)
EXTENDS Integers, FiniteSets, Sequences, Functions

CONSTANTS
  Requests,   \* chat completions of one user, whatever the project
  Checks,     \* the caps of the plan in checking order: <<"daily", "monthly">> or one of them
  Limit,      \* their limits
  Amounts,    \* possible estimates, in micro-cents
  Costs,      \* possible real costs, in micro-cents
  OutlivesTtl, \* may a request run longer than its reservation's TTL?
  None        \* no request

Caps == {Checks[i] : i \in DOMAIN Checks}

ASSUME ChecksAssumption ==
  Checks \in {<<"daily">>, <<"monthly">>, <<"daily", "monthly">>}
ASSUME LimitAssumption == Limit \in [Caps -> Nat]
ASSUME AmountsAssumption == /\ Amounts \subseteq Nat
                            /\ Costs \subseteq Nat
                            /\ 0 \in Amounts \cap Costs
ASSUME NoneAssumption == None \notin Requests
ASSUME RequestsAssumption == IsFiniteSet(Requests)

VARIABLES
  pc,           \* where each request is
  amount,       \* its estimate, rounded up
  cost,         \* what its ledger row says it cost
  lock,         \* who holds the advisory lock of the user
  check,        \* index in Checks of the cap an attempt is at
  seenUsed,     \* ledger rows each committed-usage read selected
  seenReserved, \* reservation rows each reserved read selected
  now,          \* what was past when the transaction began, its NOW()
  ledger,       \* success rows of the user
  past,         \* rows older than the window of a cap; reservations past expires_at
  resv          \* plan_reservations.status of each row, "none" before its INSERT

txVars == <<check, seenUsed, seenReserved, now>>
vars == <<pc, amount, cost, lock, txVars, ledger, past, resv>>

InTx == {"used", "reserved", "check"}       \* holds the advisory lock
Over == {"done", "leaked", "rejected", "failed", "crashed"}
Phases == {"start", "begun", "upstream", "settle", "release"} \cup InTx \cup Over

Clocks == Caps \cup {"ttl"}

-----------------------------------------------------------------------------

NoRows == [cap \in Caps |-> {}]
Total(f, S) == FoldFunctionOnSet(+, 0, f, S)
At(r) == Checks[check[r]]

(* Mutant: the expires_at > NOW() of the query is forgotten. *)
PendingRowsForEver(old) == {q \in Requests : resv[q] = "pending"}

(* status = 'pending' AND expires_at > NOW(), when the rows of old are past. *)
PendingRows(old) == {q \in Requests : resv[q] = "pending" /\ q \notin old}
Holding == PendingRows(past["ttl"])

(* What one request weighs on each cap: amount_micro_cents, request_count. *)
Weigh(f, cap) == IF cap = "daily" THEN f ELSE [q \in Requests |-> 1]

Goto(r, phase) == pc' = [pc EXCEPT ![r] = phase]

(* Mutant: pg_advisory_lock, held by the session, for pg_advisory_xact_lock. *)
EndTxSessionLock(r) ==
  /\ check' = [check EXCEPT ![r] = 1]
  /\ seenUsed' = [seenUsed EXCEPT ![r] = NoRows]
  /\ seenReserved' = [seenReserved EXCEPT ![r] = NoRows]
  /\ now' = [now EXCEPT ![r] = [c \in Clocks |-> {}]]
  /\ UNCHANGED lock

EndTx(r) ==
  /\ lock' = IF lock = r THEN None ELSE lock
  /\ check' = [check EXCEPT ![r] = 1]
  /\ seenUsed' = [seenUsed EXCEPT ![r] = NoRows]
  /\ seenReserved' = [seenReserved EXCEPT ![r] = NoRows]
  /\ now' = [now EXCEPT ![r] = [c \in Clocks |-> {}]]

Init ==
  /\ pc = [r \in Requests |-> "start"]
  /\ amount = [r \in Requests |-> 0]
  /\ cost = [r \in Requests |-> 0]
  /\ lock = None
  /\ check = [r \in Requests |-> 1]
  /\ seenUsed = [r \in Requests |-> NoRows]
  /\ seenReserved = [r \in Requests |-> NoRows]
  /\ now = [r \in Requests |-> [c \in Clocks |-> {}]]
  /\ ledger = {}
  /\ past = [c \in Clocks |-> {}]
  /\ resv = [r \in Requests |-> "none"]

-----------------------------------------------------------------------------
(* reservePlanForRequest *)

(* sql.begin fixes the transaction's NOW(). *)
BeginTx(r) ==
  /\ pc[r] = "start"
  /\ \E a \in Amounts : amount' = [amount EXCEPT ![r] = a]
  /\ now' = [now EXCEPT ![r] = past]
  /\ Goto(r, "begun")
  /\ UNCHANGED <<cost, lock, check, seenUsed, seenReserved, ledger, past, resv>>

(* Mutant: no lock, as before it was added. *)
TakeNoLock(r) ==
  /\ pc[r] = "begun"
  /\ Goto(r, "used")
  /\ UNCHANGED <<amount, cost, lock, txVars, ledger, past, resv>>

(* pg_advisory_xact_lock returns. *)
TakeLock(r) ==
  /\ pc[r] = "begun"
  /\ lock = None
  /\ lock' = r
  /\ Goto(r, "used")
  /\ UNCHANGED <<amount, cost, txVars, ledger, past, resv>>

(* The committed usage of the window: a sum of costs, or a count of rows. *)
ReadUsed(r) ==
  /\ pc[r] = "used"
  /\ seenUsed' = [seenUsed EXCEPT ![r][At(r)] = ledger \ now[r][At(r)]]
  /\ Goto(r, "reserved")
  /\ UNCHANGED <<amount, cost, lock, check, seenReserved, now, ledger, past, resv>>

(* What is reserved, in the same dimension, by a statement of its own. *)
ReadReserved(r) ==
  /\ pc[r] = "reserved"
  /\ seenReserved' = [seenReserved EXCEPT ![r][At(r)] = PendingRows(now[r]["ttl"])]
  /\ Goto(r, "check")
  /\ UNCHANGED <<amount, cost, lock, check, seenUsed, now, ledger, past, resv>>

(* Mutant: committed usage alone. *)
WouldExceedUsed(r, cap) ==
  Total(Weigh(cost, cap), seenUsed[r][cap]) + Weigh(amount, cap)[r] > Limit[cap]

(* Mutant: the turn does not count itself. *)
WouldExceedOthers(r, cap) ==
  Total(Weigh(cost, cap), seenUsed[r][cap])
    + Total(Weigh(amount, cap), seenReserved[r][cap]) > Limit[cap]

WouldExceed(r, cap) ==
  Total(Weigh(cost, cap), seenUsed[r][cap])
    + Total(Weigh(amount, cap), seenReserved[r][cap])
    + Weigh(amount, cap)[r] > Limit[cap]

(* Mutant: a third check after the second. *)
NextCheckTooFar(r) ==
  /\ pc[r] = "check"
  /\ ~WouldExceed(r, At(r))
  /\ check[r] <= Len(Checks)
  /\ check' = [check EXCEPT ![r] = @ + 1]
  /\ Goto(r, "used")
  /\ UNCHANGED <<amount, cost, lock, seenUsed, seenReserved, now, ledger, past, resv>>

(* The cap has room and another one is left to check. *)
NextCheck(r) ==
  /\ pc[r] = "check"
  /\ ~WouldExceed(r, At(r))
  /\ check[r] < Len(Checks)
  /\ check' = [check EXCEPT ![r] = @ + 1]
  /\ Goto(r, "used")
  /\ UNCHANGED <<amount, cost, lock, seenUsed, seenReserved, now, ledger, past, resv>>

(* The last cap has room: one row for both, visible to others at COMMIT.  The
   answer to the COMMIT may be lost, and with it the row's id. *)
Admit(r) ==
  /\ pc[r] = "check"
  /\ ~WouldExceed(r, At(r))
  /\ check[r] = Len(Checks)
  /\ resv' = [resv EXCEPT ![r] = "pending"]
  /\ \E phase \in {"upstream", "leaked"} : Goto(r, phase)
  /\ EndTx(r)
  /\ UNCHANGED <<amount, cost, ledger, past>>

(* A cap has no room: nothing is written, the caller answers 402. *)
Reject(r) ==
  /\ pc[r] = "check"
  /\ WouldExceed(r, At(r))
  /\ Goto(r, "rejected")
  /\ EndTx(r)
  /\ UNCHANGED <<amount, cost, ledger, past, resv>>

FailTx(r) ==
  /\ pc[r] \in {"begun"} \cup InTx
  /\ Goto(r, "failed")
  /\ EndTx(r)
  /\ UNCHANGED <<amount, cost, ledger, past, resv>>

-----------------------------------------------------------------------------
(* The rest of the request *)

(* Mutant: the error path returns without releasing. *)
UpstreamEndsUnreleased(r) ==
  /\ pc[r] = "upstream"
  /\ \E phase \in {"settle", "done"} : Goto(r, phase)
  /\ UNCHANGED <<amount, cost, lock, txVars, ledger, past, resv>>

(* The call succeeds, or its row has status 'error' and counts nowhere. *)
UpstreamEnds(r) ==
  /\ pc[r] = "upstream"
  /\ \E phase \in {"settle", "release"} : Goto(r, phase)
  /\ UNCHANGED <<amount, cost, lock, txVars, ledger, past, resv>>

(* insertRequest, which does not take the advisory lock. *)
InsertRequest(r) ==
  /\ pc[r] = "settle"
  /\ \E c \in Costs : cost' = [cost EXCEPT ![r] = c]
  /\ ledger' = ledger \cup {r}
  /\ Goto(r, "release")
  /\ UNCHANGED <<amount, lock, txVars, past, resv>>

InsertRequestFails(r) ==
  /\ pc[r] = "settle"
  /\ Goto(r, "release")
  /\ UNCHANGED <<amount, cost, lock, txVars, ledger, past, resv>>

(* releasePlanReservations, which may fail. *)
Release(r) ==
  /\ pc[r] = "release"
  /\ resv' = [resv EXCEPT ![r] = IF @ = "pending" THEN "released" ELSE @]
  /\ Goto(r, "done")
  /\ UNCHANGED <<amount, cost, lock, txVars, ledger, past>>

ReleaseFails(r) ==
  /\ pc[r] = "release"
  /\ Goto(r, "leaked")
  /\ UNCHANGED <<amount, cost, lock, txVars, ledger, past, resv>>

-----------------------------------------------------------------------------
(* Around the requests *)

Crash(r) ==
  /\ pc[r] \notin Over
  /\ Goto(r, "crashed")
  /\ EndTx(r)
  /\ UNCHANGED <<amount, cost, ledger, past, resv>>

Pass(r, c) ==
  /\ r \notin past[c]
  /\ past' = [past EXCEPT ![c] = @ \cup {r}]
  /\ UNCHANGED <<pc, amount, cost, lock, txVars, ledger, resv>>

(* expires_at of r's reservation passes. *)
Expire(r) ==
  /\ resv[r] = "pending"
  /\ OutlivesTtl \/ pc[r] \in Over
  /\ Pass(r, "ttl")

(* r's ledger row leaves a rolling window, the shorter one first. *)
Age(r, cap) ==
  /\ r \in ledger
  /\ cap = "monthly" /\ "daily" \in Caps => r \in past["daily"]
  /\ Pass(r, cap)

-----------------------------------------------------------------------------

Attempt(r) == TakeLock(r) \/ ReadUsed(r) \/ ReadReserved(r) \/ NextCheck(r)
                \/ Admit(r) \/ Reject(r)

Next ==
  \E r \in Requests :
    \/ BeginTx(r) \/ Attempt(r) \/ FailTx(r)
    \/ UpstreamEnds(r) \/ InsertRequest(r) \/ InsertRequestFails(r)
    \/ Release(r) \/ ReleaseFails(r) \/ Crash(r) \/ Expire(r)
    \/ \E cap \in Caps : Age(r, cap)

Spec == Init /\ [][Next]_vars

(* As in BudgetReservation: transactions make progress and the clock moves;
   nothing makes an upstream call end. *)
FairSpec == Spec /\ \A r \in Requests : WF_vars(Attempt(r)) /\ WF_vars(Expire(r))

-----------------------------------------------------------------------------
(* Properties *)

(* Every variable stays in its type. *)
PlanTypeOK ==
  /\ pc \in [Requests -> Phases]
  /\ amount \in [Requests -> Amounts]
  /\ cost \in [Requests -> Costs]
  /\ lock \in Requests \cup {None}
  /\ check \in [Requests -> DOMAIN Checks]
  /\ seenUsed \in [Requests -> [Caps -> SUBSET Requests]]
  /\ seenReserved \in [Requests -> [Caps -> SUBSET Requests]]
  /\ now \in [Requests -> [Clocks -> SUBSET Requests]]
  /\ ledger \in SUBSET Requests
  /\ past \in [Clocks -> SUBSET Requests]
  /\ resv \in [Requests -> {"none", "pending", "released"}]

(* When the last cap is decided, the sums taken for every cap, the first one
   statements ago, still hold every reservation that takes headroom: two turns
   of one user are never granted the same slot. *)
SlotsCounted ==
  \A r \in Requests : pc[r] = "check" =>
    \A i \in 1..check[r] : Holding \subseteq seenReserved[r][Checks[i]]

(* A request that ran to its end holds no slot; one that holds a slot is under
   way, or left through a crash or a failed release. *)
EndedHoldsNothing ==
  \A r \in Requests : pc[r] \in {"done", "rejected", "failed"} => resv[r] # "pending"

(* A slot is given back in the end, crash or not. *)
SlotsFreed == \A r \in Requests : r \in Holding ~> r \notin Holding

(* An attempt that waits for the user's lock gets an answer. *)
PlanAnswered == \A r \in Requests : pc[r] = "begun" ~> pc[r] # "begun"

(* The requests counted against the monthly cap stay within it: "the next
   concurrent request [sees] committed + pending spend and block[s]
   atomically" (routes/chat.ts).  Every request weighs exactly the one slot it
   reserved, so no estimate is involved. *)
MonthlyWithinLimit ==
  "monthly" \in Caps =>
    Cardinality(ledger \ past["monthly"]) <= Limit["monthly"]

(* What counts against a cap, and what may still come from requests that hold a
   slot. *)
Counted(cap) == ledger \ past[cap]
Owed == {q \in Holding : pc[q] \in {"upstream", "settle"}}
Exposure(cap) == Total(Weigh(cost, cap), Counted(cap)) + Total(Weigh(amount, cap), Owed)
Covered(cap) == Exposure(cap) <= Limit[cap]

(* The ways past a cap, as in BudgetReservation: a request weighs more than it
   promised, or an attempt is admitted whose sums have both overlooked one. *)
Promised(q, cap, S) == IF q \in S THEN Weigh(amount, cap)[q] ELSE 0
Overcharged(cap) == \E q \in ledger' \ ledger : Weigh(cost', cap)[q] > Promised(q, cap, Owed)
Overlooked(cap) ==
  \E r \in Owed' \ Owed :
    \E q \in Counted(cap) \ seenUsed[r][cap] :
      Weigh(cost, cap)[q] > Promised(q, cap, seenReserved[r][cap])

(* A cap that covers what counts and may come to count against it goes on
   covering it but for these two ways, though the first cap is decided on sums
   that are old by the time the last one is: what remains true of "committed +
   pending spend" (MonthlyWithinLimit). *)
SlotsKept ==
  [][\A cap \in Caps : Covered(cap) /\ ~Covered(cap)'
       => Overcharged(cap) \/ Overlooked(cap)]_vars

(* The protocol implements the same abstract gate as the project budgets. *)
Gate == INSTANCE SpendGate WITH
  Weights <- Amounts \cup {1},
  Charges <- Costs \cup {1},
  Limits <- {Limit[cap] : cap \in Caps},
  limit <- Limit,
  promise <- [r \in Requests |-> [cap \in Caps |->
                IF resv[r] = "none" THEN 0 ELSE Weigh(amount, cap)[r]]],
  charge <- [r \in Requests |-> [cap \in Caps |->
               IF r \in ledger THEN Weigh(cost, cap)[r] ELSE 0]],
  held <- [cap \in Caps |-> Holding],
  spent <- [cap \in Caps |-> ledger \ past[cap]],
  looked <- seenUsed

ImplementsPlanGate == Gate!Spec

=============================================================================
