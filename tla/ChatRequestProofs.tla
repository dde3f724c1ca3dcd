-------------------------- MODULE ChatRequestProofs --------------------------
(***************************************************************************)
(* Proofs about ChatRequest, for any models, failover map, number of       *)
(* attempts and asked model.  The invariants the runs check speak of the   *)
(* end of a request; the inductive ones say what each point of the handler *)
(* may rely on: what it has called and answered (Stages), what it holds    *)
(* (Holding), and what its verdict, rows and answer have to do with the    *)
(* call (Naming, Telling).                                                 *)
(***************************************************************************)
EXTENDS ChatRequest, TLAPS

Blocked == {"loop_detected", "plan_limit_exceeded", "budget_exceeded"}
Before == {"received", "routing", "plan", "budget", "blocked", "cache"}
Closing == {"release", "over"}

(* A call under way has an attempt left; one that was started has a model. *)
CallInv ==
  /\ CallTypeOK
  /\ Calling => tries < TotalAttempts
  /\ phase # "idle" => model \in Models

Stages ==
  /\ at \in Before => phase = "idle" /\ kept = NoModel /\ reply = 0
  /\ at = "call" => phase # "idle" /\ reply = 0
  /\ at \in (Before \ {"blocked"}) \cup {"call"} => verdict = NoRow
  /\ at \in {"draining", "stuck"} => stream /\ Succeeded /\ reply = 200
  /\ at \notin Closing => row = NoRow /\ late = NoRow

(* A pending row is one whose id is held or being released, unless a mishap. *)
Clean == mishaps \cap {"threw", "release", "crash"} = {}
Holding ==
  /\ at \in {"received", "routing", "plan", "release"} => ids = {}
  /\ at \notin Closing => releasing = {} /\ \A g \in Gates : rows[g] # "released"
  /\ Clean => \A g \in Gates : rows[g] = "pending" => g \in ids \cup releasing
  /\ at = "over" /\ Clean => ids = {} /\ releasing = {}

(* What v, a verdict or a row, says of the call. *)
Names(v) ==
  /\ v.cost = "paid" => PaidCall /\ v.model = model
  /\ v.status = "error" /\ kept # NoModel /\ ~PaidCall => v.model = kept
  /\ v.status \in Blocked => phase = "idle"

Naming ==
  /\ Names(verdict) /\ Names(row) /\ Names(late)
  /\ late # NoRow => ~PaidCall
  /\ at = "blocked" => verdict.cost = "free" /\ verdict.status \in Blocked
  /\ at = "record" /\ PaidCall => usage # "pending" /\ verdict # NoRow /\ verdict.cost = usage
  /\ at = "release" \/ (at = "over" /\ \E g \in Gates : rows[g] = "released") =>
       (PaidCall => /\ usage # "pending"
                    /\ (row # NoRow /\ row.cost = usage) \/ "insert" \in mishaps)

(* What the answer r tells of v, and what an answer yet to be derived from v will. *)
Says(r, v) ==
  /\ r = 200 <=> v.status = "success" \/ (stream /\ PaidCall)
  /\ v.cost = "paid" => r = 200
WillSay(v) == ~(stream /\ PaidCall) /\ (v.cost = "paid" => v.status = "success")

Telling ==
  /\ at \in {"record", "release"} =>
       IF reply = 0 THEN WillSay(verdict) ELSE Says(reply, verdict)
  /\ at \in Closing /\ mishaps = {} /\ verdict # NoRow =>
       /\ IF late = NoRow THEN row = verdict ELSE late = verdict
       /\ at = "over" => Says(reply, verdict)

ReqIInv == CallInv /\ ReqTypeOK /\ Stages /\ Holding /\ Naming /\ Telling

-----------------------------------------------------------------------------

LEMMA Rows ==
  /\ \A s \in Statuses, m \in Models, p \in Costs :
       /\ Row(s, m, p) \in Logged /\ Row(s, m, p) # NoRow
       /\ Row(s, m, p).status = s /\ Row(s, m, p).model = m /\ Row(s, m, p).cost = p
  /\ NoRow.status = "none" /\ NoRow.cost = "free"
  /\ Costs = {"free", "paid"}
<1>1. ASSUME NEW s \in Statuses, NEW m \in Models, NEW p \in Costs PROVE Row(s, m, p) \in Logged
  BY <1>1 DEF Logged, Row
<1>2. NoRow.status \notin Statuses
  BY DEF NoRow, Statuses
<1> QED BY <1>1, <1>2 DEF Row, NoRow, Costs

LEMMA Widen == \A S, T, U, x : S \subseteq U /\ x \in U /\ (T = S \/ T = S \cup {x}) => T \subseteq U
OBVIOUS

LEMMA Mishaps == ReqTypeOK => mishaps \subseteq {"threw", "insert", "release", "crash"}
BY DEF ReqTypeOK

LEMMA CallSteps ==
  ASSUME CallInv
  PROVE  /\ \A m \in Models : StartCall(m) => CallInv'
         /\ (\E result \in Outcomes : Attempt(result)) \/ FailOver \/ GiveUp => CallInv' /\ phase' # "idle"
         /\ UNCHANGED callVars => CallInv'
<1> USE AttemptsAssumption DEF CallInv, CallTypeOK, Phases, Calling, Outcomes, Answers
<1>1. ASSUME NEW m \in Models, StartCall(m) PROVE CallInv'
  BY <1>1 DEF StartCall
<1>2. ASSUME NEW result \in Outcomes, Attempt(result) PROVE CallInv' /\ phase' # "idle"
  BY <1>2 DEF Attempt
<1>3. ASSUME FailOver PROVE CallInv' /\ phase' # "idle"
  BY <1>3, FailoverAssumption DEF FailOver
<1>4. ASSUME GiveUp PROVE CallInv' /\ phase' # "idle"
  BY <1>4 DEF GiveUp
<1>5. ASSUME UNCHANGED callVars PROVE CallInv'
  BY <1>5 DEF callVars
<1> QED BY <1>1, <1>2, <1>3, <1>4, <1>5

LEMMA ReqInit == Init => ReqIInv
<1> SUFFICES ASSUME Init PROVE ReqIInv
    OBVIOUS
<1> USE Rows, AttemptsAssumption, AdaptersAssumption DEF Init, CallInit
<1>1. CallInv /\ Stages
  BY DEF CallInv, CallTypeOK, Phases, Calling, Stages, Before
<1>2. ReqTypeOK
  BY <1>1 DEF CallInv, ReqTypeOK, Points
<1>3. Holding
  BY DEF Holding, Gates, Closing
<1>4. Naming /\ Telling
  BY DEF Naming, Names, Blocked, Telling, Closing
<1> QED BY <1>1, <1>2, <1>3, <1>4 DEF ReqIInv

LEMMA RefuseEarlyInv == ASSUME ReqIInv, RefuseEarly PROVE ReqIInv'
<1> USE DEF RefuseEarly, clientVars, routeVars, gateVars, logVars
<1>1. CallInv'
  BY CallSteps, AdaptersAssumption DEF ReqIInv, ReqTypeOK, RewriteRefused
<1>2. ReqTypeOK'
  BY <1>1, AdaptersAssumption DEF ReqIInv, ReqTypeOK, CallInv, Costs, Points, Gates, RewriteRefused
<1>3. Stages'
  BY Rows, CallSteps DEF ReqIInv, Stages, Before, Closing, callVars, PaidCall, Effective, FallbackWon, Answered, Succeeded, CallOver, StartCall
<1>4. Holding'
  BY Rows DEF ReqIInv, ReqTypeOK, Holding, Clean, Gates, Closing
<1>5. Naming'
  BY Rows DEF ReqIInv, Stages, Before, Closing, Holding, Naming, Names, Blocked, callVars, PaidCall
<1>6. Telling'
  BY Rows DEF ReqIInv, Stages, Before, Closing, Naming, Names, Blocked, Telling, Says, WillSay, PaidCall, callVars
<1> QED BY <1>1, <1>2, <1>3, <1>4, <1>5, <1>6 DEF ReqIInv

LEMMA LoopDetectedInv == ASSUME ReqIInv, LoopDetected PROVE ReqIInv'
<1> USE DEF LoopDetected, clientVars, routeVars, gateVars, logVars
<1>a. verdict' \in Logged /\ verdict' # NoRow /\ verdict'.status = "loop_detected" /\ verdict'.cost = "free"
  BY Rows DEF ReqIInv, CallInv, ReqTypeOK, Statuses
<1>1. CallInv'
  BY CallSteps, AdaptersAssumption DEF ReqIInv, ReqTypeOK, RewriteRefused
<1>2. ReqTypeOK'
  BY <1>a, <1>1, AdaptersAssumption DEF ReqIInv, ReqTypeOK, CallInv, Costs, Points, Gates, RewriteRefused
<1>3. Stages'
  BY <1>a, Rows, CallSteps DEF ReqIInv, Stages, Before, Closing, callVars, PaidCall, Effective, FallbackWon, Answered, Succeeded, CallOver, StartCall
<1>4. Holding'
  BY <1>a, Rows DEF ReqIInv, ReqTypeOK, Holding, Clean, Gates, Closing
<1>5. Naming'
  BY <1>a, Rows DEF ReqIInv, Stages, Before, Closing, Holding, Naming, Names, Blocked, callVars, PaidCall
<1>6. Telling'
  BY <1>a, Rows DEF ReqIInv, Stages, Before, Closing, Naming, Names, Blocked, Telling, Says, WillSay, PaidCall, callVars
<1> QED BY <1>1, <1>2, <1>3, <1>4, <1>5, <1>6 DEF ReqIInv

LEMMA RouteInv == ASSUME ReqIInv, Route PROVE ReqIInv'
<1> USE DEF Route, clientVars, routeVars, gateVars, logVars
<1>1. CallInv'
  BY CallSteps, AdaptersAssumption DEF ReqIInv, ReqTypeOK, RewriteRefused
<1>2. ReqTypeOK'
  BY <1>1, AdaptersAssumption DEF ReqIInv, ReqTypeOK, CallInv, Costs, Points, Gates, RewriteRefused
<1>3. Stages'
  BY Rows, CallSteps DEF ReqIInv, Stages, Before, Closing, callVars, PaidCall, Effective, FallbackWon, Answered, Succeeded, CallOver, StartCall
<1>4. Holding'
  BY Rows DEF ReqIInv, ReqTypeOK, Holding, Clean, Gates, Closing
<1>5. Naming'
  BY Rows DEF ReqIInv, Stages, Before, Closing, Holding, Naming, Names, Blocked, callVars, PaidCall
<1>6. Telling'
  BY Rows DEF ReqIInv, Stages, Before, Closing, Naming, Names, Blocked, Telling, Says, WillSay, PaidCall, callVars
<1> QED BY <1>1, <1>2, <1>3, <1>4, <1>5, <1>6 DEF ReqIInv

LEMMA UnroutableInv == ASSUME ReqIInv, Unroutable PROVE ReqIInv'
<1> USE DEF Unroutable, clientVars, routeVars, gateVars, logVars
<1>a. verdict' \in Logged /\ verdict' # NoRow /\ verdict'.status = "error" /\ verdict'.cost = "free"
  BY Rows DEF ReqIInv, CallInv, ReqTypeOK, Statuses
<1>1. CallInv'
  BY CallSteps, AdaptersAssumption DEF ReqIInv, ReqTypeOK, RewriteRefused
<1>2. ReqTypeOK'
  BY <1>a, <1>1, AdaptersAssumption DEF ReqIInv, ReqTypeOK, CallInv, Costs, Points, Gates, RewriteRefused
<1>3. Stages'
  BY <1>a, Rows, CallSteps DEF ReqIInv, Stages, Before, Closing, callVars, PaidCall, Effective, FallbackWon, Answered, Succeeded, CallOver, StartCall
<1>4. Holding'
  BY <1>a, Rows DEF ReqIInv, ReqTypeOK, Holding, Clean, Gates, Closing
<1>5. Naming'
  BY <1>a, Rows DEF ReqIInv, Stages, Before, Closing, Holding, Naming, Names, Blocked, callVars, PaidCall
<1>6. Telling'
  BY <1>a, Rows DEF ReqIInv, Stages, Before, Closing, Naming, Names, Blocked, Telling, Says, WillSay, PaidCall, callVars
<1> QED BY <1>1, <1>2, <1>3, <1>4, <1>5, <1>6 DEF ReqIInv

LEMMA RoutableInv == ASSUME ReqIInv, Routable PROVE ReqIInv'
<1> USE DEF Routable, clientVars, routeVars, gateVars, logVars
<1>1. CallInv'
  BY CallSteps, AdaptersAssumption DEF ReqIInv, ReqTypeOK, RewriteRefused
<1>2. ReqTypeOK'
  BY <1>1, AdaptersAssumption DEF ReqIInv, ReqTypeOK, CallInv, Costs, Points, Gates, RewriteRefused
<1>3. Stages'
  BY Rows, CallSteps DEF ReqIInv, Stages, Before, Closing, callVars, PaidCall, Effective, FallbackWon, Answered, Succeeded, CallOver, StartCall
<1>4. Holding'
  BY Rows DEF ReqIInv, ReqTypeOK, Holding, Clean, Gates, Closing
<1>5. Naming'
  BY Rows DEF ReqIInv, Stages, Before, Closing, Holding, Naming, Names, Blocked, callVars, PaidCall
<1>6. Telling'
  BY Rows DEF ReqIInv, Stages, Before, Closing, Naming, Names, Blocked, Telling, Says, WillSay, PaidCall, callVars
<1> QED BY <1>1, <1>2, <1>3, <1>4, <1>5, <1>6 DEF ReqIInv

LEMMA PlanUnlimitedInv == ASSUME ReqIInv, PlanUnlimited PROVE ReqIInv'
<1> USE DEF PlanUnlimited, clientVars, routeVars, gateVars, logVars
<1>1. CallInv'
  BY CallSteps, AdaptersAssumption DEF ReqIInv, ReqTypeOK, RewriteRefused
<1>2. ReqTypeOK'
  BY <1>1, AdaptersAssumption DEF ReqIInv, ReqTypeOK, CallInv, Costs, Points, Gates, RewriteRefused
<1>3. Stages'
  BY Rows, CallSteps DEF ReqIInv, Stages, Before, Closing, callVars, PaidCall, Effective, FallbackWon, Answered, Succeeded, CallOver, StartCall
<1>4. Holding'
  BY Rows DEF ReqIInv, ReqTypeOK, Holding, Clean, Gates, Closing
<1>5. Naming'
  BY Rows DEF ReqIInv, Stages, Before, Closing, Holding, Naming, Names, Blocked, callVars, PaidCall
<1>6. Telling'
  BY Rows DEF ReqIInv, Stages, Before, Closing, Naming, Names, Blocked, Telling, Says, WillSay, PaidCall, callVars
<1> QED BY <1>1, <1>2, <1>3, <1>4, <1>5, <1>6 DEF ReqIInv

LEMMA PlanReservedInv == ASSUME ReqIInv, PlanReserved PROVE ReqIInv'
<1> USE DEF PlanReserved, clientVars, routeVars, gateVars, logVars
<1>1. CallInv'
  BY CallSteps, AdaptersAssumption DEF ReqIInv, ReqTypeOK, RewriteRefused
<1>2. ReqTypeOK'
  BY <1>1, AdaptersAssumption DEF ReqIInv, ReqTypeOK, CallInv, Costs, Points, Gates, RewriteRefused
<1>3. Stages'
  BY Rows, CallSteps DEF ReqIInv, Stages, Before, Closing, callVars, PaidCall, Effective, FallbackWon, Answered, Succeeded, CallOver, StartCall
<1>4. Holding'
  BY Rows DEF ReqIInv, ReqTypeOK, Holding, Clean, Gates, Closing
<1>5. Naming'
  BY Rows DEF ReqIInv, Stages, Before, Closing, Holding, Naming, Names, Blocked, callVars, PaidCall
<1>6. Telling'
  BY Rows DEF ReqIInv, Stages, Before, Closing, Naming, Names, Blocked, Telling, Says, WillSay, PaidCall, callVars
<1> QED BY <1>1, <1>2, <1>3, <1>4, <1>5, <1>6 DEF ReqIInv

LEMMA PlanLimitExceededInv == ASSUME ReqIInv, PlanLimitExceeded PROVE ReqIInv'
<1> USE DEF PlanLimitExceeded, clientVars, routeVars, gateVars, logVars
<1>a. verdict' \in Logged /\ verdict' # NoRow /\ verdict'.status = "plan_limit_exceeded" /\ verdict'.cost = "free"
  BY Rows DEF ReqIInv, CallInv, ReqTypeOK, Statuses
<1>1. CallInv'
  BY CallSteps, AdaptersAssumption DEF ReqIInv, ReqTypeOK, RewriteRefused
<1>2. ReqTypeOK'
  BY <1>a, <1>1, AdaptersAssumption DEF ReqIInv, ReqTypeOK, CallInv, Costs, Points, Gates, RewriteRefused
<1>3. Stages'
  BY <1>a, Rows, CallSteps DEF ReqIInv, Stages, Before, Closing, callVars, PaidCall, Effective, FallbackWon, Answered, Succeeded, CallOver, StartCall
<1>4. Holding'
  BY <1>a, Rows DEF ReqIInv, ReqTypeOK, Holding, Clean, Gates, Closing
<1>5. Naming'
  BY <1>a, Rows DEF ReqIInv, Stages, Before, Closing, Holding, Naming, Names, Blocked, callVars, PaidCall
<1>6. Telling'
  BY <1>a, Rows DEF ReqIInv, Stages, Before, Closing, Naming, Names, Blocked, Telling, Says, WillSay, PaidCall, callVars
<1> QED BY <1>1, <1>2, <1>3, <1>4, <1>5, <1>6 DEF ReqIInv

LEMMA BudgetUnlimitedInv == ASSUME ReqIInv, BudgetUnlimited PROVE ReqIInv'
<1> USE DEF BudgetUnlimited, clientVars, routeVars, gateVars, logVars
<1>1. CallInv'
  BY CallSteps, AdaptersAssumption DEF ReqIInv, ReqTypeOK, RewriteRefused
<1>2. ReqTypeOK'
  BY <1>1, AdaptersAssumption DEF ReqIInv, ReqTypeOK, CallInv, Costs, Points, Gates, RewriteRefused
<1>3. Stages'
  BY Rows, CallSteps DEF ReqIInv, Stages, Before, Closing, callVars, PaidCall, Effective, FallbackWon, Answered, Succeeded, CallOver, StartCall
<1>4. Holding'
  BY Rows DEF ReqIInv, ReqTypeOK, Holding, Clean, Gates, Closing
<1>5. Naming'
  BY Rows DEF ReqIInv, Stages, Before, Closing, Holding, Naming, Names, Blocked, callVars, PaidCall
<1>6. Telling'
  BY Rows DEF ReqIInv, Stages, Before, Closing, Naming, Names, Blocked, Telling, Says, WillSay, PaidCall, callVars
<1> QED BY <1>1, <1>2, <1>3, <1>4, <1>5, <1>6 DEF ReqIInv

LEMMA BudgetReservedInv == ASSUME ReqIInv, BudgetReserved PROVE ReqIInv'
<1> USE DEF BudgetReserved, clientVars, routeVars, gateVars, logVars
<1>1. CallInv'
  BY CallSteps, AdaptersAssumption DEF ReqIInv, ReqTypeOK, RewriteRefused
<1>2. ReqTypeOK'
  BY <1>1, AdaptersAssumption DEF ReqIInv, ReqTypeOK, CallInv, Costs, Points, Gates, RewriteRefused
<1>3. Stages'
  BY Rows, CallSteps DEF ReqIInv, Stages, Before, Closing, callVars, PaidCall, Effective, FallbackWon, Answered, Succeeded, CallOver, StartCall
<1>4. Holding'
  BY Rows DEF ReqIInv, ReqTypeOK, Holding, Clean, Gates, Closing
<1>5. Naming'
  BY Rows DEF ReqIInv, Stages, Before, Closing, Holding, Naming, Names, Blocked, callVars, PaidCall
<1>6. Telling'
  BY Rows DEF ReqIInv, Stages, Before, Closing, Naming, Names, Blocked, Telling, Says, WillSay, PaidCall, callVars
<1> QED BY <1>1, <1>2, <1>3, <1>4, <1>5, <1>6 DEF ReqIInv

LEMMA BudgetExceededInv == ASSUME ReqIInv, BudgetExceeded PROVE ReqIInv'
<1> USE DEF BudgetExceeded, clientVars, routeVars, gateVars, logVars
<1>a. verdict' \in Logged /\ verdict' # NoRow /\ verdict'.status = "budget_exceeded" /\ verdict'.cost = "free"
  BY Rows DEF ReqIInv, CallInv, ReqTypeOK, Statuses
<1>1. CallInv'
  BY CallSteps, AdaptersAssumption DEF ReqIInv, ReqTypeOK, RewriteRefused
<1>2. ReqTypeOK'
  BY <1>a, <1>1, AdaptersAssumption DEF ReqIInv, ReqTypeOK, CallInv, Costs, Points, Gates, RewriteRefused
<1>3. Stages'
  BY <1>a, Rows, CallSteps DEF ReqIInv, Stages, Before, Closing, callVars, PaidCall, Effective, FallbackWon, Answered, Succeeded, CallOver, StartCall
<1>4. Holding'
  BY <1>a, Rows DEF ReqIInv, ReqTypeOK, Holding, Clean, Gates, Closing
<1>5. Naming'
  BY <1>a, Rows DEF ReqIInv, Stages, Before, Closing, Holding, Naming, Names, Blocked, callVars, PaidCall
<1>6. Telling'
  BY <1>a, Rows DEF ReqIInv, Stages, Before, Closing, Naming, Names, Blocked, Telling, Says, WillSay, PaidCall, callVars
<1> QED BY <1>1, <1>2, <1>3, <1>4, <1>5, <1>6 DEF ReqIInv

LEMMA GateThrowsInv == ASSUME ReqIInv, GateThrows PROVE ReqIInv'
<1> USE DEF GateThrows, clientVars, routeVars, gateVars, logVars
<1>1. CallInv'
  BY CallSteps, AdaptersAssumption DEF ReqIInv, ReqTypeOK, RewriteRefused
<1>2. ReqTypeOK'
  BY <1>1, AdaptersAssumption DEF ReqIInv, ReqTypeOK, CallInv, Costs, Points, Gates, RewriteRefused
<1>3. Stages'
  BY Rows, CallSteps DEF ReqIInv, Stages, Before, Closing, callVars, PaidCall, Effective, FallbackWon, Answered, Succeeded, CallOver, StartCall
<1>4. Holding'
  BY Rows DEF ReqIInv, ReqTypeOK, Holding, Clean, Gates, Closing
<1>5. Naming'
  BY Rows DEF ReqIInv, Stages, Before, Closing, Holding, Naming, Names, Blocked, callVars, PaidCall
<1>6. Telling'
  BY Rows DEF ReqIInv, Stages, Before, Closing, Naming, Names, Blocked, Telling, Says, WillSay, PaidCall, callVars
<1> QED BY <1>1, <1>2, <1>3, <1>4, <1>5, <1>6 DEF ReqIInv

LEMMA RecordBlockedInv == ASSUME ReqIInv, RecordBlocked PROVE ReqIInv'
<1> USE DEF RecordBlocked, clientVars, routeVars, gateVars, logVars
<1>b. row' \in Logged \cup {NoRow}
  BY DEF ReqIInv, ReqTypeOK
<1>c. mishaps' = mishaps \/ mishaps' = mishaps \cup {"insert"}
  BY Zenon
<1>d. mishaps' \subseteq {"threw", "insert", "release", "crash"}
  BY <1>c, Widen, Mishaps DEF ReqIInv
<1>1. CallInv'
  BY CallSteps, AdaptersAssumption DEF ReqIInv, ReqTypeOK, RewriteRefused
<1>2. ReqTypeOK'
  BY <1>b, <1>c, <1>d, <1>1, AdaptersAssumption DEF ReqIInv, ReqTypeOK, CallInv, Costs, Points, Gates, RewriteRefused
<1>3. Stages'
  BY <1>b, <1>c, <1>d, Rows, CallSteps DEF ReqIInv, Stages, Before, Closing, callVars, PaidCall, Effective, FallbackWon, Answered, Succeeded, CallOver, StartCall
<1>4. Holding'
  BY <1>b, <1>c, <1>d, Rows DEF ReqIInv, ReqTypeOK, Holding, Clean, Gates, Closing
<1>5. Naming'
  BY <1>b, <1>c, <1>d, Rows DEF ReqIInv, Stages, Before, Closing, Holding, Naming, Names, Blocked, callVars, PaidCall
<1>6. Telling'
  BY <1>b, <1>c, <1>d, Rows DEF ReqIInv, Stages, Before, Closing, Naming, Names, Blocked, Telling, Says, WillSay, PaidCall, callVars
<1> QED BY <1>1, <1>2, <1>3, <1>4, <1>5, <1>6 DEF ReqIInv

LEMMA CacheHitInv == ASSUME ReqIInv, CacheHit PROVE ReqIInv'
<1> USE DEF CacheHit, clientVars, routeVars, gateVars, logVars
<1>a. verdict' \in Logged /\ verdict' # NoRow /\ verdict'.status = "success" /\ verdict'.cost = "free"
  BY Rows DEF ReqIInv, CallInv, ReqTypeOK, Statuses
<1>1. CallInv'
  BY CallSteps, AdaptersAssumption DEF ReqIInv, ReqTypeOK, RewriteRefused
<1>2. ReqTypeOK'
  BY <1>a, <1>1, AdaptersAssumption DEF ReqIInv, ReqTypeOK, CallInv, Costs, Points, Gates, RewriteRefused
<1>3. Stages'
  BY <1>a, Rows, CallSteps DEF ReqIInv, Stages, Before, Closing, callVars, PaidCall, Effective, FallbackWon, Answered, Succeeded, CallOver, StartCall
<1>4. Holding'
  BY <1>a, Rows DEF ReqIInv, ReqTypeOK, Holding, Clean, Gates, Closing
<1>5. Naming'
  BY <1>a, Rows DEF ReqIInv, Stages, Before, Closing, Holding, Naming, Names, Blocked, callVars, PaidCall
<1>6. Telling'
  BY <1>a, Rows DEF ReqIInv, Stages, Before, Closing, Naming, Names, Blocked, Telling, Says, WillSay, PaidCall, callVars
<1> QED BY <1>1, <1>2, <1>3, <1>4, <1>5, <1>6 DEF ReqIInv

LEMMA CallUpstreamInv == ASSUME ReqIInv, CallUpstream PROVE ReqIInv'
<1> USE DEF CallUpstream, clientVars, routeVars, gateVars, logVars
<1>1. CallInv'
  BY CallSteps, AdaptersAssumption DEF ReqIInv, ReqTypeOK, RewriteRefused
<1>2. ReqTypeOK'
  BY <1>1, AdaptersAssumption DEF ReqIInv, ReqTypeOK, CallInv, Costs, Points, Gates, Effective, FallbackWon, Answered, Succeeded, CallOver, RewriteRefused
<1>3. Stages'
  BY Rows, CallSteps DEF ReqIInv, Stages, Before, Closing, callVars, PaidCall, Effective, FallbackWon, Answered, Succeeded, CallOver, StartCall
<1>4. Holding'
  BY Rows DEF ReqIInv, ReqTypeOK, Holding, Clean, Gates, Closing
<1>5. Naming'
  BY Rows DEF ReqIInv, Stages, Before, Closing, Holding, Naming, Names, Blocked, callVars, PaidCall, Calling, StartCall
<1>6. Telling'
  BY Rows DEF ReqIInv, Stages, Before, Closing, Naming, Names, Blocked, Telling, Says, WillSay, PaidCall, callVars
<1> QED BY <1>1, <1>2, <1>3, <1>4, <1>5, <1>6 DEF ReqIInv

LEMMA FallBackInv == ASSUME ReqIInv, FallBack PROVE ReqIInv'
<1> USE DEF FallBack, clientVars, routeVars, gateVars, logVars
<1>1. CallInv'
  BY CallSteps, AdaptersAssumption DEF ReqIInv, ReqTypeOK, RewriteRefused
<1>2. ReqTypeOK'
  BY <1>1, AdaptersAssumption DEF ReqIInv, ReqTypeOK, CallInv, Costs, Points, Gates, Effective, FallbackWon, Answered, Succeeded, CallOver, RewriteRefused
<1>3. Stages'
  BY Rows, CallSteps DEF ReqIInv, Stages, Before, Closing, callVars, PaidCall, Effective, FallbackWon, Answered, Succeeded, CallOver, StartCall
<1>4. Holding'
  BY Rows DEF ReqIInv, ReqTypeOK, Holding, Clean, Gates, Closing
<1>5. Naming'
  BY Rows DEF ReqIInv, Stages, Before, Closing, Holding, Naming, Names, Blocked, callVars, PaidCall, Calling, StartCall
<1>6. Telling'
  BY Rows DEF ReqIInv, Stages, Before, Closing, Naming, Names, Blocked, Telling, Says, WillSay, PaidCall, callVars
<1> QED BY <1>1, <1>2, <1>3, <1>4, <1>5, <1>6 DEF ReqIInv

LEMMA JudgeFailedInv == ASSUME ReqIInv, JudgeFailed PROVE ReqIInv'
<1>1. /\ verdict' \in Logged /\ verdict' # NoRow
      /\ verdict'.status = "error" /\ verdict'.cost = "free" /\ ~PaidCall /\ kept = NoModel
  BY Rows DEF JudgeFailed, ReqIInv, CallInv, ReqTypeOK, Statuses, Stages, Effective, FallbackWon, Answered, PaidCall
<1>2. \/ at' = "release" /\ ids' = {} /\ releasing' = ids /\ late' = verdict'
      \/ at' = "record" /\ late' = late /\ releasing' = releasing /\ ids' = ids
  BY DEF JudgeFailed
<1>3. /\ at = "call" /\ rows' = rows /\ row' = row /\ mishaps' = mishaps
      /\ phase' = phase /\ model' = model /\ tries' = tries /\ outcome' = outcome
      /\ stream' = stream /\ gone' = gone /\ reply' = reply
      /\ body' = body /\ original' = original /\ kept' = kept /\ usage' = usage
  BY DEF JudgeFailed, callVars, clientVars, routeVars
<1>4. CallInv'
  BY <1>3, CallSteps DEF ReqIInv, callVars
<1>5. ReqTypeOK'
  <2>1. late' \in Logged \cup {NoRow} /\ ids' \subseteq Gates /\ releasing' \subseteq Gates /\ at' \in Points
    BY <1>1, <1>2 DEF ReqIInv, ReqTypeOK, Points
  <2> QED BY <1>1, <1>3, <1>4, <2>1 DEF ReqIInv, ReqTypeOK, CallInv
<1>6. Stages'
  BY <1>1, <1>2, <1>3 DEF ReqIInv, Stages, Before, Closing, Succeeded, FallbackWon
<1>7. Holding'
  <2>1. releasing = {} /\ \A g \in Gates : rows[g] # "released"
    BY <1>3 DEF ReqIInv, Holding, Closing
  <2>2. CASE at' = "release"
    BY <1>2, <1>3, <2>1, <2>2 DEF ReqIInv, Holding, Clean, Closing
  <2>3. CASE at' = "record"
    BY <1>2, <1>3, <2>1, <2>3 DEF ReqIInv, Holding, Clean, Closing
  <2> QED BY <1>2, <2>2, <2>3
<1>8. Naming'
  BY <1>1, <1>2, <1>3 DEF ReqIInv, Stages, Before, Closing, Holding, Naming, Names, Blocked, PaidCall
<1>9. Telling'
  BY <1>1, <1>2, <1>3 DEF ReqIInv, Stages, Before, Closing, Naming, Names, Blocked, Telling, Says, WillSay, PaidCall, callVars
<1> QED BY <1>4, <1>5, <1>6, <1>7, <1>8, <1>9 DEF ReqIInv

LEMMA JudgeWholeInv == ASSUME ReqIInv, JudgeWhole PROVE ReqIInv'
<1> USE DEF JudgeWhole, clientVars, routeVars, gateVars, logVars
<1>a. /\ verdict' \in Logged /\ verdict' # NoRow /\ verdict'.status \in {"success", "error"}
      /\ usage' \in Costs /\ verdict'.cost = usage' /\ (usage' = "paid" => PaidCall)
      /\ verdict'.status = "success" <=> PaidCall
      /\ verdict'.model = Effective /\ Effective \in Models /\ (PaidCall => Effective = model)
      /\ kept # NoModel /\ ~PaidCall => Effective = kept
  BY Rows DEF ReqIInv, CallInv, ReqTypeOK, Statuses, Stages, Effective, FallbackWon, Succeeded, PaidCall, UsageOfAnswer
<1>1. CallInv'
  BY CallSteps, AdaptersAssumption DEF ReqIInv, ReqTypeOK, RewriteRefused
<1>2. ReqTypeOK'
  BY <1>a, <1>1, AdaptersAssumption DEF ReqIInv, ReqTypeOK, CallInv, Costs, Points, Gates, RewriteRefused
<1>3. Stages'
  BY <1>a, Rows, CallSteps DEF ReqIInv, Stages, Before, Closing, callVars, PaidCall, Effective, FallbackWon, Answered, Succeeded, CallOver, StartCall
<1>4. Holding'
  BY <1>a, Rows DEF ReqIInv, ReqTypeOK, Holding, Clean, Gates, Closing
<1>5. Naming'
  BY <1>a, Rows DEF ReqIInv, Stages, Before, Closing, Holding, Naming, Names, Blocked, callVars, PaidCall, Calling
<1>6. Telling'
  BY <1>a, Rows DEF ReqIInv, Stages, Before, Closing, Naming, Names, Blocked, Telling, Says, WillSay, PaidCall, callVars
<1> QED BY <1>1, <1>2, <1>3, <1>4, <1>5, <1>6 DEF ReqIInv

LEMMA JudgeStreamInv == ASSUME ReqIInv, JudgeStream PROVE ReqIInv'
<1> USE DEF JudgeStream, clientVars, routeVars, gateVars, logVars
<1>a. /\ verdict' \in Logged /\ verdict' # NoRow /\ verdict'.status = "error" /\ verdict'.cost = "free"
      /\ Succeeded <=> PaidCall
      /\ verdict'.model = Effective /\ Effective \in Models
      /\ kept # NoModel /\ ~PaidCall => Effective = kept
  BY Rows DEF ReqIInv, CallInv, ReqTypeOK, Statuses, Stages, Effective, FallbackWon, Succeeded, PaidCall, UsageOfAnswer
<1>1. CallInv'
  BY CallSteps, AdaptersAssumption DEF ReqIInv, ReqTypeOK, RewriteRefused
<1>2. ReqTypeOK'
  BY <1>a, <1>1, AdaptersAssumption DEF ReqIInv, ReqTypeOK, CallInv, Costs, Points, Gates, RewriteRefused
<1>3. Stages'
  BY <1>a, Rows, CallSteps DEF ReqIInv, Stages, Before, Closing, callVars, PaidCall, Effective, FallbackWon, Answered, Succeeded, CallOver, StartCall
<1>4. Holding'
  BY <1>a, Rows DEF ReqIInv, ReqTypeOK, Holding, Clean, Gates, Closing
<1>5. Naming'
  BY <1>a, Rows DEF ReqIInv, Stages, Before, Closing, Holding, Naming, Names, Blocked, callVars, PaidCall, Calling
<1>6. Telling'
  BY <1>a, Rows DEF ReqIInv, Stages, Before, Closing, Naming, Names, Blocked, Telling, Says, WillSay, PaidCall, callVars
<1> QED BY <1>1, <1>2, <1>3, <1>4, <1>5, <1>6 DEF ReqIInv

LEMMA RecordRowInv == ASSUME ReqIInv, RecordRow PROVE ReqIInv'
<1> USE DEF RecordRow, clientVars, routeVars, gateVars, logVars
<1>b. row' \in Logged \cup {NoRow}
  BY DEF ReqIInv, ReqTypeOK
<1>c. mishaps' = mishaps \/ mishaps' = mishaps \cup {"insert"}
  BY Zenon
<1>d. mishaps' \subseteq {"threw", "insert", "release", "crash"}
  BY <1>c, Widen, Mishaps DEF ReqIInv
<1>1. CallInv'
  BY CallSteps, AdaptersAssumption DEF ReqIInv, ReqTypeOK, RewriteRefused
<1>2. ReqTypeOK'
  BY <1>b, <1>c, <1>d, <1>1, AdaptersAssumption DEF ReqIInv, ReqTypeOK, CallInv, Costs, Points, Gates, RewriteRefused
<1>3. Stages'
  BY <1>b, <1>c, <1>d, Rows, CallSteps DEF ReqIInv, Stages, Before, Closing, callVars, PaidCall, Effective, FallbackWon, Answered, Succeeded, CallOver, StartCall
<1>4. Holding'
  BY <1>b, <1>c, <1>d, Rows DEF ReqIInv, ReqTypeOK, Holding, Clean, Gates, Closing
<1>5. Naming'
  BY <1>b, <1>c, <1>d, Rows DEF ReqIInv, Stages, Before, Closing, Holding, Naming, Names, Blocked, callVars, PaidCall
<1>6. Telling'
  BY <1>b, <1>c, <1>d, Rows DEF ReqIInv, Stages, Before, Closing, Naming, Names, Blocked, Telling, Says, WillSay, PaidCall, callVars
<1> QED BY <1>1, <1>2, <1>3, <1>4, <1>5, <1>6 DEF ReqIInv

LEMMA ReleaseGateInv == ASSUME ReqIInv, NEW g \in Gates, ReleaseGate(g) PROVE ReqIInv'
<1> USE DEF ReleaseGate, clientVars, routeVars, gateVars, logVars
<1>b. rows' \in [Gates -> {"none", "pending", "released"}]
  BY DEF ReqIInv, ReqTypeOK
<1>c. mishaps' = mishaps \/ mishaps' = mishaps \cup {"release"}
  BY Zenon
<1>d. mishaps' \subseteq {"threw", "insert", "release", "crash"}
  BY <1>c, Widen, Mishaps DEF ReqIInv
<1>1. CallInv'
  BY CallSteps, AdaptersAssumption DEF ReqIInv, ReqTypeOK, RewriteRefused
<1>2. ReqTypeOK'
  BY <1>b, <1>c, <1>d, <1>1, AdaptersAssumption DEF ReqIInv, ReqTypeOK, CallInv, Costs, Points, RewriteRefused
<1>3. Stages'
  BY <1>b, <1>c, <1>d, Rows, CallSteps DEF ReqIInv, Stages, Before, Closing, callVars, PaidCall, Effective, FallbackWon, Answered, Succeeded, CallOver, StartCall
<1>4. Holding'
  BY <1>b, <1>c, <1>d, Rows DEF ReqIInv, ReqTypeOK, Holding, Clean, Gates, Closing
<1>5. Naming'
  BY <1>b, <1>c, <1>d, Rows DEF ReqIInv, Stages, Before, Closing, Holding, Naming, Names, Blocked, callVars, PaidCall
<1>e. stream' = stream /\ PaidCall' = PaidCall
  BY DEF PaidCall, callVars
<1>6. Telling'
  BY <1>c, <1>e, Rows DEF ReqIInv, Stages, Before, Closing, Naming, Names, Blocked, Telling, Says, WillSay
<1> QED BY <1>1, <1>2, <1>3, <1>4, <1>5, <1>6 DEF ReqIInv

LEMMA RespondInv == ASSUME ReqIInv, Respond PROVE ReqIInv'
<1> USE DEF Respond, clientVars, routeVars, gateVars, logVars
<1>1. CallInv'
  BY CallSteps, AdaptersAssumption DEF ReqIInv, ReqTypeOK, RewriteRefused
<1>2. ReqTypeOK'
  BY <1>1, AdaptersAssumption DEF ReqIInv, ReqTypeOK, CallInv, Costs, Points, Gates, RewriteRefused, ReplyOf
<1>3. Stages'
  BY Rows, CallSteps DEF ReqIInv, Stages, Before, Closing, callVars, PaidCall, Effective, FallbackWon, Answered, Succeeded, CallOver, StartCall
<1>4. Holding'
  BY Rows DEF ReqIInv, ReqTypeOK, Holding, Clean, Gates, Closing
<1>5. Naming'
  BY Rows DEF ReqIInv, Stages, Before, Closing, Holding, Naming, Names, Blocked, callVars, PaidCall
<1>6. Telling'
  BY Rows DEF ReqIInv, Stages, Before, Closing, Naming, Names, Blocked, Telling, Says, WillSay, PaidCall, callVars, Answered, ReplyOf
<1> QED BY <1>1, <1>2, <1>3, <1>4, <1>5, <1>6 DEF ReqIInv

LEMMA UpstreamInv == ASSUME ReqIInv, Upstream PROVE ReqIInv'
<1> USE DEF Upstream, clientVars, routeVars, gateVars, logVars
<1>1. CallInv'
  BY CallSteps, AdaptersAssumption DEF ReqIInv, ReqTypeOK, RewriteRefused
<1>2. ReqTypeOK'
  BY <1>1, AdaptersAssumption DEF ReqIInv, ReqTypeOK, CallInv, Costs, Points, Gates, Effective, FallbackWon, Answered, Succeeded, CallOver, RewriteRefused
<1>3. Stages'
  BY Rows, CallSteps DEF ReqIInv, Stages, Before, Closing, callVars, PaidCall, Effective, FallbackWon, Answered, Succeeded, CallOver, StartCall
<1>4. Holding'
  BY Rows DEF ReqIInv, ReqTypeOK, Holding, Clean, Gates, Closing
<1>5. Naming'
  BY Rows DEF ReqIInv, Stages, Before, Closing, Holding, Naming, Names, Blocked, callVars, PaidCall, Calling
<1>6. Telling'
  BY Rows DEF ReqIInv, Stages, Before, Closing, Naming, Names, Blocked, Telling, Says, WillSay, PaidCall, callVars
<1> QED BY <1>1, <1>2, <1>3, <1>4, <1>5, <1>6 DEF ReqIInv

LEMMA StreamEndsInv == ASSUME ReqIInv, StreamEnds PROVE ReqIInv'
<1> USE DEF StreamEnds, clientVars, routeVars, gateVars, logVars
<1>a. /\ PaidCall
      /\ \/ at' = "stuck" /\ verdict' = verdict /\ usage' = usage
         \/ /\ at' = "record"
            /\ verdict' \in Logged /\ verdict' # NoRow
            /\ verdict'.status \in {"success", "error"}
            /\ usage' \in Costs /\ verdict'.cost = usage' /\ verdict'.model = model
  BY Rows DEF ReqIInv, CallInv, ReqTypeOK, Statuses, Stages, Effective, FallbackWon, Succeeded, PaidCall, UsageOfAnswer
<1>1. CallInv'
  BY CallSteps, AdaptersAssumption DEF ReqIInv, ReqTypeOK, RewriteRefused
<1>2. ReqTypeOK'
  BY <1>a, <1>1, AdaptersAssumption DEF ReqIInv, ReqTypeOK, CallInv, Costs, Points, Gates, RewriteRefused
<1>3. Stages'
  BY <1>a, Rows, CallSteps DEF ReqIInv, Stages, Before, Closing, callVars, PaidCall, Effective, FallbackWon, Answered, Succeeded, CallOver, StartCall
<1>4. Holding'
  BY <1>a, Rows DEF ReqIInv, ReqTypeOK, Holding, Clean, Gates, Closing
<1>5. Naming'
  BY <1>a, Rows DEF ReqIInv, Stages, Before, Closing, Holding, Naming, Names, Blocked, callVars, PaidCall, Calling
<1>6. Telling'
  BY <1>a, Rows DEF ReqIInv, Stages, Before, Closing, Naming, Names, Blocked, Telling, Says, WillSay, PaidCall, callVars
<1> QED BY <1>1, <1>2, <1>3, <1>4, <1>5, <1>6 DEF ReqIInv

LEMMA InsertLateInv == ASSUME ReqIInv, InsertLate PROVE ReqIInv'
<1> USE DEF InsertLate, clientVars, routeVars, gateVars, logVars
<1>b. row' \in Logged \cup {NoRow}
  BY DEF ReqIInv, ReqTypeOK
<1>c. mishaps' = mishaps \/ mishaps' = mishaps \cup {"insert"}
  BY Zenon
<1>d. mishaps' \subseteq {"threw", "insert", "release", "crash"}
  BY <1>c, Widen, Mishaps DEF ReqIInv
<1>1. CallInv'
  BY CallSteps, AdaptersAssumption DEF ReqIInv, ReqTypeOK, RewriteRefused
<1>2. ReqTypeOK'
  BY <1>b, <1>c, <1>d, <1>1, AdaptersAssumption DEF ReqIInv, ReqTypeOK, CallInv, Costs, Points, Gates, RewriteRefused
<1>3. Stages'
  BY <1>b, <1>c, <1>d, Rows, CallSteps DEF ReqIInv, Stages, Before, Closing, callVars, PaidCall, Effective, FallbackWon, Answered, Succeeded, CallOver, StartCall
<1>4. Holding'
  BY <1>b, <1>c, <1>d, Rows DEF ReqIInv, ReqTypeOK, Holding, Clean, Gates, Closing
<1>5. Naming'
  BY <1>b, <1>c, <1>d, Rows DEF ReqIInv, Stages, Before, Closing, Holding, Naming, Names, Blocked, callVars, PaidCall
<1>e. stream' = stream /\ PaidCall' = PaidCall
  BY DEF PaidCall, callVars
<1>6. Telling'
  BY <1>c, <1>e, Rows DEF ReqIInv, Stages, Before, Closing, Naming, Names, Blocked, Telling, Says, WillSay
<1> QED BY <1>1, <1>2, <1>3, <1>4, <1>5, <1>6 DEF ReqIInv

LEMMA ClientLeavesInv == ASSUME ReqIInv, ClientLeaves PROVE ReqIInv'
<1> USE DEF ClientLeaves, clientVars, routeVars, gateVars, logVars
<1>1. CallInv'
  BY CallSteps, AdaptersAssumption DEF ReqIInv, ReqTypeOK, RewriteRefused
<1>2. ReqTypeOK'
  BY <1>1, AdaptersAssumption DEF ReqIInv, ReqTypeOK, CallInv, Costs, Points, Gates, RewriteRefused
<1>3. Stages'
  BY Rows, CallSteps DEF ReqIInv, Stages, Before, Closing, callVars, PaidCall, Effective, FallbackWon, Answered, Succeeded, CallOver, StartCall
<1>4. Holding'
  BY Rows DEF ReqIInv, ReqTypeOK, Holding, Clean, Gates, Closing
<1>5. Naming'
  BY Rows DEF ReqIInv, Stages, Before, Closing, Holding, Naming, Names, Blocked, callVars, PaidCall
<1>6. Telling'
  BY Rows DEF ReqIInv, Stages, Before, Closing, Naming, Names, Blocked, Telling, Says, WillSay, PaidCall, callVars
<1> QED BY <1>1, <1>2, <1>3, <1>4, <1>5, <1>6 DEF ReqIInv

LEMMA CrashInv == ASSUME ReqIInv, Crash PROVE ReqIInv'
<1> USE DEF Crash, clientVars, routeVars, gateVars, logVars
<1>1. CallInv'
  BY CallSteps, AdaptersAssumption DEF ReqIInv, ReqTypeOK, RewriteRefused
<1>2. ReqTypeOK'
  BY <1>1, AdaptersAssumption DEF ReqIInv, ReqTypeOK, CallInv, Costs, Points, Gates, RewriteRefused
<1>3. Stages'
  BY Rows, CallSteps DEF ReqIInv, Stages, Before, Closing, callVars, PaidCall, Effective, FallbackWon, Answered, Succeeded, CallOver, StartCall
<1>4. Holding'
  BY Rows DEF ReqIInv, ReqTypeOK, Holding, Clean, Gates, Closing
<1>5. Naming'
  BY Rows DEF ReqIInv, Stages, Before, Closing, Holding, Naming, Names, Blocked, callVars, PaidCall
<1>6. Telling'
  BY Rows DEF ReqIInv, Stages, Before, Closing, Naming, Names, Blocked, Telling, Says, WillSay, PaidCall, callVars
<1> QED BY <1>1, <1>2, <1>3, <1>4, <1>5, <1>6 DEF ReqIInv

LEMMA ReqStepInv == ReqIInv /\ [Next]_vars => ReqIInv'
<1> SUFFICES ASSUME ReqIInv, [Next]_vars PROVE ReqIInv'
    OBVIOUS
<1>1. CASE Handle
  BY <1>1, RefuseEarlyInv, LoopDetectedInv, RouteInv, UnroutableInv, RoutableInv, PlanUnlimitedInv, PlanReservedInv,
     PlanLimitExceededInv, BudgetUnlimitedInv, BudgetReservedInv, BudgetExceededInv, GateThrowsInv, RecordBlockedInv,
     CacheHitInv, CallUpstreamInv, FallBackInv, JudgeFailedInv, JudgeWholeInv, JudgeStreamInv, RecordRowInv,
     ReleaseGateInv, RespondInv DEF Handle
<1>2. CASE Upstream \/ StreamEnds \/ InsertLate \/ ClientLeaves \/ Crash
  BY <1>2, UpstreamInv, StreamEndsInv, InsertLateInv, ClientLeavesInv, CrashInv
<1>3. CASE UNCHANGED vars
  <2>1. CallInv'
    BY <1>3, CallSteps DEF ReqIInv, vars
  <2>2. /\ UNCHANGED <<at, mishaps, stream, gone, reply, body, original, kept>>
        /\ UNCHANGED <<usage, ids, releasing, rows, verdict, row, late, phase, model, tries, outcome>>
    BY <1>3 DEF vars, callVars, clientVars, routeVars, gateVars, logVars
  <2>3. ReqTypeOK' /\ Stages' /\ Holding'
    BY <2>1, <2>2 DEF ReqIInv, CallInv, ReqTypeOK, Stages, Holding, Clean, Succeeded, FallbackWon
  <2>4. Naming' /\ Telling'
    BY <2>2 DEF ReqIInv, Naming, Names, Telling, Says, WillSay, PaidCall, callVars, PaidCall
  <2> QED BY <2>1, <2>3, <2>4 DEF ReqIInv
<1> QED BY <1>1, <1>2, <1>3 DEF Next

LEMMA ReqSpecInv == Spec => []ReqIInv
BY ReqInit, ReqStepInv, PTL DEF Spec

-----------------------------------------------------------------------------

(* The handler's variables stay in their types; a call makes no more attempts
   than it is configured to. *)
THEOREM ReqTyped == Spec => []ReqTypeOK
BY ReqSpecInv, PTL DEF ReqIInv

(* No reservation of a paid call is given up before its ledger row was tried. *)
THEOREM HeadroomHandedOver == Spec => []NoUncountedGap
<1>1. ReqIInv => NoUncountedGap
  BY DEF ReqIInv, Holding, Closing, Naming, NoUncountedGap
<1> QED BY <1>1, ReqSpecInv, PTL

(* A request that ends without a mishap holds no reservation. *)
THEOREM NothingHeldAtEnd == Spec => []EndHoldsNothing
<1>1. ReqIInv => EndHoldsNothing
  BY DEF ReqIInv, Holding, Clean, EndHoldsNothing
<1> QED BY <1>1, ReqSpecInv, PTL

(* The ledger row names the model that ran. *)
THEOREM LedgerNamesWhatRan == Spec => []RowNamesWhatRan
<1>1. ReqIInv => RowNamesWhatRan
  BY DEF ReqIInv, Naming, Names, RowNamesWhatRan
<1> QED BY <1>1, ReqSpecInv, PTL

(* What the client is told is what the ledger says. *)
THEOREM AnswersMatchLedger == Spec => []AnswerMatchesRow
<1>1. ReqIInv => AnswerMatchesRow
  BY DEF ReqIInv, Naming, Names, Telling, Says, WillSay, PaidCall, callVars, Blocked, Closing, AnswerMatchesRow
<1> QED BY <1>1, ReqSpecInv, PTL

-----------------------------------------------------------------------------
(* What is final *)

(* A call that goes on has had no final outcome yet. *)
GoesOn ==
  /\ Calling => outcome \in {"none", "transient"}
  /\ phase = "idle" => outcome = "none"

(* Whichever statement of the handler runs, the call is as it was, begins, or
   begins again with the caller's own model. *)
LEMMA HandleCalls ==
  ASSUME Handle
  PROVE  UNCHANGED callVars \/ CallUpstream \/ FallBack
BY DEF Handle, RefuseEarly, LoopDetected, Route, Unroutable, Routable, PlanUnlimited, PlanReserved,
       PlanLimitExceeded, BudgetUnlimited, BudgetReserved, BudgetExceeded, GateThrows, RecordBlocked,
       CacheHit, JudgeFailed, JudgeWhole, JudgeStream, RecordRow, ReleaseGate, Respond

LEMMA CallMoves ==
  ASSUME Next
  PROVE  \/ UNCHANGED callVars \/ CallUpstream \/ FallBack
         \/ (\E result \in Outcomes : Attempt(result)) \/ FailOver \/ GiveUp
<1>1. StreamEnds \/ InsertLate \/ ClientLeaves \/ Crash => UNCHANGED callVars
  BY DEF StreamEnds, InsertLate, ClientLeaves, Crash
<1> QED BY <1>1, HandleCalls DEF Next, Upstream

LEMMA GoesOnStep ==
  ASSUME ReqIInv, GoesOn, [Next]_vars
  PROVE  /\ GoesOn'
         /\ outcome \in Answers \cup {"fatal"} /\ outcome' # outcome => model' # model \/ Failover[model] = model
         /\ phase = "failover" => phase' \in {"failover", "returned", "failed"}
<1> USE DEF GoesOn, Calling, Answers
<1>1. CASE UNCHANGED callVars
  BY <1>1 DEF callVars
<1>2. CASE CallUpstream
  <2>1. phase = "idle" /\ StartCall(body)
    BY <1>2 DEF CallUpstream, ReqIInv, Stages, Before
  <2> QED BY <2>1 DEF StartCall
<1>3. CASE FallBack
  BY <1>3 DEF FallBack, RewriteRefused, StartCall
<1>4. CASE \E result \in Outcomes : Attempt(result)
  BY <1>4 DEF Attempt, Outcomes
<1>5. CASE FailOver
  BY <1>5 DEF FailOver
<1>6. CASE GiveUp
  BY <1>6 DEF GiveUp
<1>7. CASE UNCHANGED vars
  BY <1>7 DEF vars, callVars
<1> QED BY <1>1, <1>2, <1>3, <1>4, <1>5, <1>6, <1>7, CallMoves

(* What a provider has answered is final for its model, for any failover map
   and any number of attempts: only transient failures are tried again. *)
THEOREM FinalStands == Spec => FinalIsFinal
<1>1. Init => GoesOn
  BY DEF Init, CallInit, GoesOn, Calling
<1>2. ReqIInv /\ GoesOn /\ [Next]_vars => GoesOn'
  BY GoesOnStep
<1>3. ReqIInv /\ GoesOn /\ [Next]_vars =>
        [/\ outcome \in Answers \cup {"fatal"} /\ outcome' # outcome => model' # model \/ Failover[model] = model
         /\ phase = "failover" => phase' \in {"failover", "returned", "failed"}]_callVars
  BY GoesOnStep
<1> QED BY <1>1, <1>2, <1>3, ReqSpecInv, PTL DEF Spec, FinalIsFinal

=============================================================================
