---------------------------- MODULE ChatRequest ----------------------------
(***************************************************************************)
(* The life of one POST /v1/chat/completions (apps/gateway/src/routes/     *)
(* chat.ts): gates, routing, reservations, cache, upstream call with       *)
(* retry, failover and rewrite fallback, ledger row, release, answer.      *)
(* A reservation or ledger statement is one step here; its interleaving    *)
(* with other requests is the subject of BudgetReservation and             *)
(* PlanReservation.  Around the handler, statements fail, the client       *)
(* leaves and the process dies.                                            *)
(***************************************************************************)
EXTENDS UpstreamCall

CONSTANTS
  Anthropic,   \* the models served by the Anthropic adapter
  Asked        \* the model the client asks for

ASSUME AdaptersAssumption == Anthropic \subseteq Models /\ Asked \in Models

Gates == {"plan", "budget"}

VARIABLES
  at,         \* where the handler, or a stream's finalizer, is
  stream,     \* body.stream
  gone,       \* has the client closed the connection?
  body,       \* body.model
  original,   \* recordedOriginalModel: Asked once the model was rewritten, or NoModel
  kept,       \* the first call's model while the rewrite fallback runs, or NoModel
  usage,      \* what the tokens the provider reported come to, "pending" before its answer is read
  ids,        \* the gates whose reservation ids the handler still holds
  releasing,  \* the gates whose rows are being released
  rows,       \* status of the reservation row of each gate
  verdict,    \* what the handler is about to record: status and model
  row,        \* the request's ledger row: status, model, and whether it cost anything
  late,       \* a row whose INSERT the handler did not wait for
  reply,      \* HTTP status of the answer, 0 before it
  mishaps     \* what went wrong on the way, for the properties

clientVars == <<stream, gone, reply>>
routeVars == <<body, original, kept, usage>>
gateVars == <<ids, releasing, rows>>
logVars == <<verdict, row, late>>
vars == <<at, mishaps, callVars, clientVars, routeVars, gateVars, logVars>>

Points == {"received", "routing", "plan", "budget", "blocked", "cache", "call",
           "judge", "draining", "stuck", "record", "release", "over"}

Statuses == {"loop_detected", "plan_limit_exceeded", "budget_exceeded",
             "success", "error"}
NoRow == [status |-> "none", model |-> NoModel, cost |-> "free"]
Row(s, m, c) == [status |-> s, model |-> m, cost |-> c]
Costs == {"free", "paid"}
Logged == [status : Statuses, model : Models, cost : Costs]

Init ==
  /\ at = "received"
  /\ stream \in BOOLEAN
  /\ gone = FALSE
  /\ body = Asked
  /\ original = NoModel
  /\ kept = NoModel
  /\ usage = "pending"
  /\ ids = {}
  /\ releasing = {}
  /\ rows = [g \in Gates |-> "none"]
  /\ verdict = NoRow
  /\ row = NoRow
  /\ late = NoRow
  /\ reply = 0
  /\ mishaps = {}
  /\ CallInit

-----------------------------------------------------------------------------
(* Before the reservations *)

(* Too large, no or unknown key, not JSON, no model, bad template, or a lookup
   that throws: an answer and no row. *)
RefuseEarly ==
  /\ at = "received"
  /\ \E code \in {413, 401, 400, 500} : reply' = code
  /\ at' = "over"
  /\ UNCHANGED <<stream, gone, mishaps, callVars, routeVars, gateVars,
                 logVars>>

(* The loop detector trips: a row, then 403. *)
LoopDetected ==
  /\ at = "received"
  /\ verdict' = Row("loop_detected", body, "free")
  /\ at' = "blocked"
  /\ UNCHANGED <<row, late, mishaps, callVars, clientVars, routeVars,
                 gateVars>>

(* Routing rules, baseline routing and the session guard settle body.model. *)
Route ==
  /\ at = "received"
  /\ \E m \in Models : /\ body' = m
                       /\ original' = IF m = Asked THEN NoModel ELSE Asked
  /\ at' = "routing"
  /\ UNCHANGED <<kept, usage, mishaps, callVars, clientVars, gateVars, logVars>>

(* Mutant: the rejection that leaves no row. *)
UnroutableUnrecorded ==
  /\ at = "routing"
  /\ verdict' = Row("error", body, "free")
  /\ reply' = 400
  /\ at' = "over"
  /\ UNCHANGED <<stream, gone, row, late, mishaps, callVars, routeVars, gateVars>>

(* resolveProvider finds no template or no credentials: the error row is
   inserted in the background and the client gets 400. *)
Unroutable ==
  /\ at = "routing"
  /\ verdict' = Row("error", body, "free")
  /\ late' = verdict'
  /\ reply' = 400
  /\ at' = "over"
  /\ UNCHANGED <<stream, gone, row, mishaps, callVars, routeVars, gateVars>>

Routable ==
  /\ at = "routing"
  /\ at' = "plan"
  /\ UNCHANGED <<mishaps, callVars, clientVars, routeVars, gateVars, logVars>>

-----------------------------------------------------------------------------
(* Plan gate and budget gate *)

(* No plan, or a plan without caps: nothing is reserved. *)
PlanUnlimited ==
  /\ at = "plan"
  /\ at' = "budget"
  /\ UNCHANGED <<mishaps, callVars, clientVars, routeVars, gateVars, logVars>>

PlanReserved ==
  /\ at = "plan"
  /\ rows' = [rows EXCEPT !["plan"] = "pending"]
  /\ ids' = ids \cup {"plan"}
  /\ at' = "budget"
  /\ UNCHANGED <<releasing, mishaps, callVars, clientVars, routeVars,
                 logVars>>

PlanLimitExceeded ==
  /\ at = "plan"
  /\ verdict' = Row("plan_limit_exceeded", body, "free")
  /\ at' = "blocked"
  /\ UNCHANGED <<row, late, mishaps, callVars, clientVars, routeVars,
                 gateVars>>

(* No budget, or an estimate of zero: ok with no ids. *)
BudgetUnlimited ==
  /\ at = "budget"
  /\ at' = "cache"
  /\ UNCHANGED <<mishaps, callVars, clientVars, routeVars, gateVars, logVars>>

BudgetReserved ==
  /\ at = "budget"
  /\ rows' = [rows EXCEPT !["budget"] = "pending"]
  /\ ids' = ids \cup {"budget"}
  /\ at' = "cache"
  /\ UNCHANGED <<releasing, mishaps, callVars, clientVars, routeVars,
                 logVars>>

BudgetExceeded ==
  /\ at = "budget"
  /\ verdict' = Row("budget_exceeded", body, "free")
  /\ at' = "blocked"
  /\ UNCHANGED <<row, late, mishaps, callVars, clientVars, routeVars,
                 gateVars>>

(* A reservation transaction throws: app.onError answers 500.  Nothing
   releases what the plan gate reserved before. *)
GateThrows ==
  /\ at \in Gates
  /\ reply' = 500
  /\ at' = "over"
  /\ mishaps' = mishaps \cup {"threw"}
  /\ UNCHANGED <<stream, gone, callVars, routeVars, gateVars, logVars>>

(* The row of a blocked request: the handler waits for the INSERT, survives
   its failure, and releases. *)
RecordBlocked ==
  /\ at = "blocked"
  /\ \/ row' = verdict /\ UNCHANGED mishaps
     \/ mishaps' = mishaps \cup {"insert"} /\ UNCHANGED row
  /\ releasing' = ids
  /\ ids' = {}
  /\ at' = "release"
  /\ UNCHANGED <<rows, verdict, late, callVars, clientVars,
                 routeVars>>

-----------------------------------------------------------------------------
(* Cache and upstream *)

(* A cached response: a success row that costs nothing. *)
CacheHit ==
  /\ at = "cache"
  /\ ~stream
  /\ verdict' = Row("success", body, "free")
  /\ at' = "record"
  /\ UNCHANGED <<row, late, mishaps, callVars, clientVars, routeVars,
                 gateVars>>

CallUpstream ==
  /\ at = "cache"
  /\ StartCall(body)
  /\ at' = "call"
  /\ UNCHANGED <<mishaps, clientVars, routeVars, gateVars, logVars>>

Upstream ==
  /\ at = "call"
  /\ \/ \E result \in Outcomes : Attempt(result)
     \/ FailOver
     \/ GiveUp
  /\ UNCHANGED <<at, mishaps, clientVars, routeVars, gateVars, logVars>>

(* Mutant: the fallback's own failover may be refused and fall back again. *)
RewriteRefusedAgain == /\ phase = "returned"
                       /\ outcome = "badModel"
                       /\ original \notin {NoModel, model}

(* A rewritten model was refused by name and the caller's own can be called. *)
RewriteRefused == /\ phase = "returned"
                  /\ outcome = "badModel"
                  /\ kept = NoModel
                  /\ original \notin {NoModel, model}

FallBack ==
  /\ at = "call"
  /\ RewriteRefused
  /\ kept' = model
  /\ body' = original
  /\ StartCall(original)
  /\ UNCHANGED <<at, original, usage, mishaps, clientVars, gateVars, logVars>>

(* Which attempt answers the client: a fallback only with a 2xx, else the
   first one with its 4xx.  A call without an answer is recorded as an error. *)
FallbackWon == kept = NoModel \/ (phase = "returned" /\ outcome = "ok")
(* Mutant: lastModel of the lost fallback instead of the first call's. *)
EffectiveLast == model

Effective == IF FallbackWon THEN model ELSE kept
Answered == ~FallbackWon \/ phase = "returned"
Succeeded == FallbackWon /\ phase = "returned" /\ outcome = "ok"

(* Mutant: the failed stream returns its 502 without releasing. *)
JudgeFailedUnreleased ==
  /\ at = "call"
  /\ CallOver
  /\ ~Answered
  /\ verdict' = Row("error", Effective, "free")
  /\ IF stream THEN late' = verdict' /\ at' = "release"
               ELSE at' = "record" /\ UNCHANGED late
  /\ UNCHANGED <<row, mishaps, callVars, clientVars, routeVars, gateVars>>

JudgeFailed ==
  /\ at = "call"
  /\ CallOver
  /\ ~Answered
  /\ verdict' = Row("error", Effective, "free")
  /\ IF stream THEN /\ late' = Row("error", Effective, "free")
                    /\ releasing' = ids
                    /\ ids' = {}
                    /\ at' = "release"
               ELSE /\ at' = "record"
                    /\ UNCHANGED <<late, releasing, ids>>
  /\ UNCHANGED <<rows, row, mishaps, callVars, clientVars,
                 routeVars>>

(* An answer that is not a 2xx comes with no usage, a 2xx with what the body
   says: none when it has no "usage", and none that costs when the model has no
   price. *)
UsageOfAnswer == IF Succeeded THEN Costs ELSE {"free"}

JudgeWhole ==
  /\ at = "call"
  /\ CallOver
  /\ Answered
  /\ ~stream
  /\ usage' \in UsageOfAnswer
  /\ verdict' = Row(IF Succeeded THEN "success" ELSE "error", Effective, usage')
  /\ body' = Effective
  /\ at' = "record"
  /\ UNCHANGED <<original, kept, row, late, mishaps, callVars, clientVars,
                 gateVars>>

(* The client gets the response at once; upstream.done drives the rest. *)
JudgeStream ==
  /\ at = "call"
  /\ CallOver
  /\ Answered
  /\ stream
  /\ body' = Effective
  /\ reply' = IF Succeeded THEN 200 ELSE 400
  /\ usage' = IF Succeeded THEN usage ELSE "free"
  /\ verdict' = Row("error", Effective, "free")
  /\ at' = IF Succeeded THEN "draining" ELSE "record"
  /\ UNCHANGED <<stream, gone, original, kept, row, late, mishaps, callVars,
                 gateVars>>

(* The upstream stream ends, whole or broken.  Its usage came on the way, or
   never: some providers send none, and a stream may break before the chunk
   that carries it.  The Anthropic adapter writes into the client's stream:
   once that is cancelled its enqueue throws, then controller.close() throws in
   the finally block, before resolveDone.  The OpenAI adapter reads its own
   branch of the tee. *)
StreamEnds ==
  /\ at = "draining"
  /\ IF gone /\ Effective \in Anthropic
     THEN at' = "stuck" /\ UNCHANGED <<usage, verdict>>
     ELSE /\ usage' \in Costs
          /\ \E s \in {"success", "error"} : verdict' = Row(s, Effective, usage')
          /\ at' = "record"
  /\ UNCHANGED <<body, original, kept, row, late, mishaps, callVars, clientVars,
                 gateVars>>

-----------------------------------------------------------------------------
(* Ledger row, release, answer *)

(* Mutant: the handler does not wait for its INSERT. *)
RecordRowLater ==
  /\ at = "record"
  /\ late' = verdict
  /\ releasing' = ids
  /\ ids' = {}
  /\ at' = "release"
  /\ UNCHANGED <<rows, verdict, row, mishaps, callVars, clientVars, routeVars>>

RecordRow ==
  /\ at = "record"
  /\ \/ row' = verdict /\ UNCHANGED mishaps
     \/ mishaps' = mishaps \cup {"insert"} /\ UNCHANGED row
  /\ releasing' = ids
  /\ ids' = {}
  /\ at' = "release"
  /\ UNCHANGED <<rows, verdict, late, callVars, clientVars,
                 routeVars>>

(* The two release calls run side by side; each swallows its failure. *)
ReleaseGate(g) ==
  /\ at = "release"
  /\ g \in releasing
  /\ releasing' = releasing \ {g}
  /\ \/ rows' = [rows EXCEPT ![g] = "released"] /\ UNCHANGED mishaps
     \/ mishaps' = mishaps \cup {"release"} /\ UNCHANGED rows
  /\ UNCHANGED <<at, ids, callVars, clientVars, routeVars, logVars>>

ReplyOf(v) == CASE v.status = "loop_detected" -> 403
                [] v.status = "plan_limit_exceeded" -> 402
                [] v.status = "budget_exceeded" -> 429
                [] v.status = "success" -> 200
                [] v.status = "error" /\ Answered -> 400
                [] OTHER -> 502

Respond ==
  /\ at = "release"
  /\ releasing = {}
  /\ reply' = IF reply = 0 THEN ReplyOf(verdict) ELSE reply
  /\ at' = "over"
  /\ UNCHANGED <<stream, gone, mishaps, callVars, routeVars, gateVars,
                 logVars>>

(* The INSERT nobody waited for. *)
InsertLate ==
  /\ late # NoRow
  /\ late' = NoRow
  /\ \/ row' = late /\ UNCHANGED mishaps
     \/ mishaps' = mishaps \cup {"insert"} /\ UNCHANGED row
  /\ UNCHANGED <<at, verdict, callVars, clientVars, routeVars, gateVars>>

-----------------------------------------------------------------------------
(* The world around the handler *)

ClientLeaves ==
  /\ at = "draining"
  /\ ~gone
  /\ gone' = TRUE
  /\ UNCHANGED <<at, stream, reply, mishaps, callVars, routeVars, gateVars,
                 logVars>>

Crash ==
  /\ at # "over" \/ late # NoRow
  /\ at' = "over"
  /\ late' = NoRow
  /\ mishaps' = mishaps \cup {"crash"}
  /\ UNCHANGED <<verdict, row, callVars, clientVars, routeVars, gateVars>>

-----------------------------------------------------------------------------

(* What the gateway itself does next, without waiting for anyone. *)
Handle ==
  \/ RefuseEarly \/ LoopDetected \/ Route \/ Unroutable \/ Routable
  \/ PlanUnlimited \/ PlanReserved \/ PlanLimitExceeded
  \/ BudgetUnlimited \/ BudgetReserved \/ BudgetExceeded \/ GateThrows
  \/ RecordBlocked \/ CacheHit \/ CallUpstream \/ FallBack
  \/ JudgeFailed \/ JudgeWhole \/ JudgeStream
  \/ RecordRow \/ (\E g \in Gates : ReleaseGate(g)) \/ Respond

Next == Handle \/ Upstream \/ StreamEnds \/ InsertLate \/ ClientLeaves \/ Crash

Spec == Init /\ [][Next]_vars

(* The event loop runs every continuation that is ready. *)
FairSpec == Spec /\ WF_vars(Handle) /\ WF_vars(InsertLate)

-----------------------------------------------------------------------------
(* Properties *)

(* Every variable of the handler and of its upstream call stays in its type. *)
ReqTypeOK ==
  /\ CallTypeOK
  /\ at \in Points
  /\ stream \in BOOLEAN /\ gone \in BOOLEAN
  /\ body \in Models
  /\ original \in Models \cup {NoModel} /\ kept \in Models \cup {NoModel}
  /\ usage \in Costs \cup {"pending"}
  /\ ids \subseteq Gates /\ releasing \subseteq Gates
  /\ rows \in [Gates -> {"none", "pending", "released"}]
  /\ verdict \in Logged \cup {NoRow} /\ row \in Logged \cup {NoRow} /\ late \in Logged \cup {NoRow}
  /\ reply \in {0, 200, 400, 401, 402, 403, 413, 429, 500, 502}
  /\ mishaps \subseteq {"threw", "insert", "release", "crash"}

(* The last upstream call was answered with a 2xx: the provider may charge it. *)
PaidCall == phase = "returned" /\ outcome = "ok"

(* Headroom passes from the reservation to the ledger without a gap: no row of
   a call that a provider served is released before that provider's usage was
   read to its end and a ledger row with exactly its cost was written, unless
   the INSERT failed.  (Usage that was never reported costs nothing.) *)
NoUncountedGap ==
  PaidCall /\ (\E g \in Gates : rows[g] = "released")
    => /\ usage # "pending"
       /\ (row # NoRow /\ row.cost = usage) \/ "insert" \in mishaps

(* Whichever way the handler left, by an answer of any kind, every reservation
   is released, unless a gate threw, a release failed or the process died. *)
EndHoldsNothing ==
  at = "over" /\ mishaps \cap {"threw", "release", "crash"} = {}
    => \A g \in Gates : rows[g] # "pending"

(* The ledger row names the model that ran, through routing, failover and
   rewrite fallback: a paid row the model that answered with a 2xx, the error
   row of a lost fallback the model whose refusal the client is shown. *)
RowNamesWhatRan ==
  /\ row.cost = "paid" => PaidCall /\ row.model = model
  /\ row.status = "error" /\ kept # NoModel /\ ~PaidCall => row.model = kept

(* Answer and ledger agree: no blocked request ever reaches a provider; what
   was decided is what the ledger says; a 200 was a success, or a stream that
   broke after its answer had begun; and whoever is not told 200 pays nothing. *)
AnswerMatchesRow ==
  /\ row.status \in {"loop_detected", "plan_limit_exceeded", "budget_exceeded"}
       => phase = "idle"
  /\ at = "over" /\ mishaps = {} /\ late = NoRow /\ verdict # NoRow
       => /\ row = verdict
          /\ reply = 200 <=> row.status = "success" \/ (stream /\ PaidCall)
          /\ row.cost = "paid" => reply = 200

(* An answer, or an exception that is not transient, is final for its model:
   the next call, if any, goes to another model (unless the operator's map
   names a model as its own substitute, which getFailoverMap accepts), and a
   call that has failed over does not fail over again. *)
FinalIsFinal ==
  [][/\ outcome \in Answers \cup {"fatal"} /\ outcome' # outcome
          => model' # model \/ Failover[model] = model
     /\ phase = "failover" => phase' \in {"failover", "returned", "failed"}]_callVars

(* If providers answer or fail and streams end, every request ends, or is
   stuck in a stream whose done promise nobody resolves. *)
ProvidersAnswer == WF_vars(Upstream) /\ WF_vars(StreamEnds)
RequestsEnd == ProvidersAnswer => (at = "received" ~> at \in {"over", "stuck"})

(* "done: Resolves once the upstream stream has fully drained"
   (providers/openai.ts), and with it the ledger row is written. *)
DrainedIsRecorded == ProvidersAnswer => (at = "draining" ~> at = "over")

(* "errors and budget_exceeded rows do not represent money actually spent at
   the upstream provider" (db.ts, getSpendForPeriodMicroCents). *)
ErrorRowsCostNothing == row.status # "success" => row.cost = "free"

=============================================================================
