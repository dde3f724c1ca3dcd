# Formal model of TokSuan

TokSuan is a spend-control gateway in front of LLM providers. Agents send
OpenAI-style chat completions to `apps/gateway`; the gateway authenticates the
key, may rewrite the model, reserves headroom under the project's budgets and
the owner's plan, calls a provider with retries and failover, writes one row to
the `requests` ledger and releases what it reserved. `apps/dashboard` is a
Next.js application over the same Postgres database, where operators set
budgets, read the ledger and roll routing policies back. What the product
promises is about money: hard caps, one honest ledger row per call.

This directory holds TLA+ modules translated from that code, TLC configurations
and TLAPS proofs. `PROJECT.json` maps every definition to its source lines and
lists runs, mutants, hazards, findings and theorems.

    tlc -workers 4 -config budget_gate.cfg MCBudgetReservation
    tlapm BudgetReservationProofs.tla

## Inventory

| Component | State | Operations | Hard behaviour | What makes it correct | Module |
|---|---|---|---|---|---|
| Project budget gate (`db.ts`, `budget.ts`) | `budgets`, `budget_reservations`, `requests` | reserve (one transaction), insert row, release row by row, expiry, rollover, limit change | READ COMMITTED statements interleave with writers that take no lock; crashes; TTL | live reservations are never overlooked; nothing held for good; spend within the cap | `BudgetReservation` |
| Plan-tier gate (`db.ts`, `plans.ts`) | `plan_reservations`, ledger over all projects of a user | reserve under an advisory lock, two caps in sequence, release, expiry | first cap decided on sums that are old when the second is; rolling windows | no slot granted twice; request count within the cap | `PlanReservation` |
| Chat handler (`routes/chat.ts`) | locals of one request, reservation ids, its ledger row | every gate and early return, cache, upstream, record, release, answer, stream finalizer | nine exits; statements that fail; the client leaves; process death | each exit releases and records; row, model and answer agree | `ChatRequest` |
| Retry and failover (`routes/chat.ts`, `failover.ts`) | attempts, model | retries, failover, rewrite fallback | transient, fatal, final outcomes | bounded attempts; an answer is final for its model | `UpstreamCall` |
| Streaming adapters (`providers/`) | the client's stream, `done` | read, forward, finish | cancellation by the client | a drained stream is recorded | `ChatRequest` |
| Policy store and loader (`policy/loader.ts`, `retrain-project.ts`, dashboard `policy/actions.ts`) | `project_policies`, per-process cache | lookup, TTL, promote, rollback, LISTEN/NOTIFY | stale fill after invalidation, overlapping lookups, lost notices | staleness bounded by the TTL; convergence | `PolicyLoader` |
| SQLite shim (`sql-driver.ts`) | one connection | tagged queries, `begin` | statements of several requests inside one bracket | a transaction is all or nothing | `SqliteShim` |
| Key rotator (`key-rotator.ts`) | cursor, benches | pick, bench | calls in flight bench keys in any order | every available key gets its turn | `KeyRotator` |
| Session route guard (`session-route-guard.ts`, `lru-ttl-cache.ts`) | last model of each session | evaluate, record | turns end out of order, eviction, expiry | the newest turn is remembered | `SessionRoutes` |
| Semantic cache (`semantic-cache.ts`) | answers, sidecar index | lookup, store | an embedding is awaited between reading the index and using it | own project; bounded index | `SemanticCache` |
| Loop detector (`loop-detector.ts`) | own window, `loop_events` | record and check | overlapping transactions, sweeps by other clocks | committed repetitions are seen | `LoopDetector` |
| Baseline policy (`policy/index.ts`, `router.ts`) | policy artifact | recommend, rewrite, put aside | borrowed buckets, unresolvable providers | rewritten only on evidence | `BaselineRoute` |
| Anomaly monitor (`monitor.ts`) | cooldown map | scan, flag | overlapping scans | alerts apart | `AnomalyMonitor` |
| Migrations and boot (`migrate.ts`) | `schema_migrations` | boot, apply, fail, restart | replicas of two releases race | schema of a single boot; all come up | `Migrations` |
| Provider keys (`provider-resolve.ts`, `rotate-master-key.ts`) | `user_provider_keys`, master key of each program | save, delete, stamp, rotate, restart | rows read earlier are written by id | a stamp names the key a row is under | `KeyRotation` |
| Organizations, account deletion (dashboard `organization/actions.ts`, `lib/db.ts`, `sweep-deleted-users.ts`) | members, invitations, marks | transfer, roles, remove, invite, accept, SSO, sweep | rights read in one statement, used in another | one owner; admitted by invitation | `Organization` |
| Subscriptions, billing transfer (`lib/stripe.ts`, webhook) | `users.plan`, transfer intents, Stripe | events, sync, transfer | late, repeated, failed deliveries | the plan follows Stripe | `Subscriptions` |
| Referral credits (`lib/stripe.ts`, `settle-referrals.ts`) | `referral_credits`, Stripe balance | record, settle | count then insert, grant then stamp | near the cap; granted once | `Referrals` |
| Classifiers, pricing, compression, telemetry, login, pages | none shared, or numeric | - | - | - | not modelled |

Components meet in three places. The chat handler calls both gates and the
policy loader inside one request. Requests meet each other, across processes,
only in Postgres: reservation rows, ledger rows, row locks and the advisory
lock. The dashboard and the retrain CLI reach running gateways through rows and
through `NOTIFY`.

## Modules

**`SpendGate`** is the abstract specification both gates implement. A request
observes the charges of each cap, and later is admitted against what it
observed plus every promise held *at the moment of admission*. That is the
precise promise of the code: its view of the ledger may be old, its view of the
pending reservations never is. Promises are freed, charges land and age out.

**`BudgetReservation`** is `reserveBudgetForRequest` one statement per action:
`BeginTx` (fixes `NOW()`), `LockBudgets` (`FOR UPDATE`), `ReadSpend` (one per
period), `ReadReserved`, then `Admit`, `AdmitUnacknowledged` (the COMMIT
succeeds, its answer is lost) or `Reject`. `PassFree` is the early return of an
estimate that rounds to nothing. `UpstreamOk`, `UpstreamError`,
`InsertRequest`, `InsertRequestFails`, `ReleaseRow`, `ReleaseFails` are the rest
of the request as the gate sees it. `FailTx`, `Crash`, `Expire`, `RollOver` (a UTC
day or month starts) and `SetLimit` (the dashboard's upsert, which waits for the
row lock) surround it. Sums are kept as the *sets of rows* a statement selected,
which is what the properties speak about; `Total` turns them into amounts.
Only `NOW()` is fixed by the transaction: each statement sees the rows committed
when it runs.

**`PlanReservation`** is the same for `reservePlanForRequest`: `TakeLock`
(`pg_advisory_xact_lock`), then per cap `ReadUsed`, `ReadReserved` and
`NextCheck`, and `Admit` after the last. `Weigh` says what one request weighs on
each cap: its amount on the daily one, 1 on the monthly one. `Age` lets ledger
rows leave the rolling windows, the 24 hour one first.

**`UpstreamCall`** is `callWithRetryAndFailover` and its streaming twin, which
have the same control: `Attempt` is one turn of the retry loop, `FailOver` and
`GiveUp` what follows when it is exhausted. **`ChatRequest`** EXTENDS it with
the handler, one request from arrival to answer. `at` is the place in the
handler, `ids` the reservation ids it still holds (emptied before the release
calls run, as in `releaseReservedBudget`), `late` an INSERT it does not wait
for, `row` what reached the ledger. `usage` is what the tokens the provider
reported come to: nothing, not only for refusals, but also for a 2xx whose usage
never came (a provider that sends none, a stream that broke before its last
chunk) or whose model has no price. The adapters document that they charge
nothing then; so a call that was served may have a row that cost nothing, and a
client that was told 200 an error row. `NoUncountedGap` and `AnswerMatchesRow`
speak of what was reported: it is read to its end and on the row before a
reservation is released. `mishaps` remembers which statements failed,
for the properties only. A gate is one step here: what happens inside belongs
to the two modules above.

**`PolicyLoader`** is one gateway process and the rows of one project: a lane
for each tag and a default lane. A `Load` reads the rows, a `Store` writes the
cache later; between them anything may happen. `Retrain` commits and notifies
afterwards, or not at all; `Rollback` notifies in its transaction. Time is in
ticks: an entry carries the ticks it has left, a lane the ticks since it
changed, both bounded by `Ttl`, so nothing grows. `Unread` is a policy the
process could not read (the query failed, or the payload is malformed): the
code serves the shipped baseline for a TTL, which no invalidation bound covers.

The remaining modules are one component each, with few actions:

- **`SqliteShim`**: a plain write goes where the connection is, into the open
  bracket of whoever began it, or to disk. `BeginFails` is the `BEGIN` that
  stands before the `try`: it is refused and rolls nothing back.
- **`KeyRotator`**: `PickNext` is the scan of `pickKey`, `PickEarliest` its
  fallback, `MarkRateLimited` replaces a bench by a shorter one too. `overtaken`
  is a history of who was passed over.
- **`SessionRoutes`**: the cache is a sequence in LRU order. `RouteTurn` is a
  lookup (a hit moves to the end), `EndTurn` the recording of the model that
  answered. `landed` remembers what an entry was offered.
- **`SemanticCache`**: the answers in LRU order and the index in insertion
  order. `ExactHit`, `SamePrompt` and `Compare` are the three stages of a lookup
  before its await, `SimilarHit` and `NotSimilar` what follows it. `Visit` keeps
  what a lookup does on its way: each entry it asks for moves to the end, a dead
  one leaves the index. The layer compares the first 2000 normalized characters
  and ignores model and parameters, although a comment says "never to a wrong
  cached answer": an entry of another variant is served, and the model does so.
- **`LoopDetector`**: rows are counted by age. A transaction's cutoffs come from
  a clock read before it begins, and its count does not see what is not
  committed. A row's `created_at` is the start of its transaction, which may be a
  little later than the clock reading the model dates it by: rows of the model
  are never younger than the code's, so none is in a window of the model only.
- **`AnomalyMonitor`**: a scan that flags sets the cooldown to when it *began*,
  which may set it back. Times are ages, so nothing grows.
- **`Migrations`**: a replica reads the applied set once; `ApplyFile` is a file's
  transaction; `LoseRace` is the primary key of `schema_migrations` refusing the
  second one, after which the process exits and is restarted.
- **`KeyRotation`**: a row is under a master key and stamped with a fingerprint;
  `Backfill` and `CommitRotation` write rows that were read earlier, by id.
- **`BaselineRoute`**: `Rungs` are the places of the buckets a class may use,
  `Bucket` the first that is filled, `Recommended` is `recommendModel`; `PutAside` is the loop of `applyBaselineRouting` around a
  model no provider resolves.
- **`Organization`**: a request's `deed` is what it was found entitled to do in
  one statement and does in a later one (`CheckOwner`, `CheckSuccessor`,
  `CommitTransfer`; `CheckManage`, `RemoveMember`, ...). `FindInvitation` and
  `AcceptInvitation` are the lookup of the link and its transaction. `SweepUser`
  is the nightly job on one listed account.
- **`Subscriptions`**: `Becomes` is Stripe, `Deliver` a delivery that fetches the
  live subscription (or makes do with its payload), then `WritePlan` and the
  steps of the billing transfer. An event is done with when a delivery is
  acknowledged.
- **`Referrals`**: `Count` and `InsertCredit` are the two statements of
  recording; a pass is `StartPass`, then `Grant` and `Stamp` for each row.

**`MCParts`** puts these twelve next to one another. They share no variable, so
the module lets one of them move, chosen in the initial state by `part`, while
the others stand still. The state space is the sum of theirs; each property
speaks about one part, so it says what a run of that part alone would say (a
theorem of `PartsProofs`).

`MC*` modules give model values. Operators named after a mutant (the comment
above each says `Mutant:`) are plausible wrong versions of the definition below
them; each property is known to fail with one of them.

## Runs

| Run | Instance | Shows | States |
|---|---|---|---|
| `budget_gate` | 3 requests, 1 budget, limit moving between 3 and 4, estimates 2, costs up to 3 | `TypeOK`, `InFlightCounted`, `ImplementsGate`, `CapKept` | 350,000, half a minute |
| `budget_frees` | 2 requests, 2 budgets, fairness | `DoneHoldsNothing`, `HeldIsFreed`, `AttemptsAnswered` | 34,000 |
| `plan_gate` | 2 requests, both caps at 2, fairness | `PlanTypeOK`, `SlotsCounted`, `EndedHoldsNothing`, `SlotsFreed`, `PlanAnswered`, `ImplementsPlanGate`, `SlotsKept` | 63,000 |
| `chat_request` | 3 models, a failover chain, 2 attempts a phase, fairness | seven properties of the handler | 28,000 |
| `policy_cache` | 2 lanes, TTL 2, 2 promotions, 2 overlapping lookups, fairness | `StaleAtMostTtl`, `Converges` | 328,000 |
| `parts` | the twelve parts of `MCParts`, one at a time | the sixteen properties below | 1,422,000, two to three minutes |
| `budget_overshoot`, `plan_overshoot`, `chat_stream`, `chat_errors`, `policy_fanout`, `org_owner` | the same or smaller | six statements of the repository that the code does not keep | see Findings |

What `parts` shows, part by part:

| Part | Instance | Property |
|---|---|---|
| keys | 3 keys, 2 calls, benches up to 2 ticks | `KeyTurns`: nobody is passed over twice while available |
| routes | 2 sessions in a cache of 1, turns 1, 2 or unnumbered, 2 at once, TTL 1 | `NewestTurnKept` |
| cache | 4 keys (2 variants, 2 prompts, 2 projects), room for 2, 2 requests | `HitOwnProject`; the index is no longer than the cache (in `PartsTypeOK`) |
| loop | threshold 3, window 1, sweep after 2, 2 requests, up to 4 rows | `LoopSeen`: what was committed before a check began is counted |
| monitor | cooldown 4, scans of up to 2 ticks, 2 at once | `AlertsApart` |
| boot | 2 replicas, releases of 2 and 3 files, 2 failures or redeployments | `SchemaInOrder`, `BootsEnd` (liveness) |
| rotation | 2 owners, 3 row ids, stamped and unstamped rows | `KeysKeepTheirMaster` |
| baseline | 162 policies, 16 classes, 3 models asked for | `RewriteJustified`; what is put aside was measured (in `PartsTypeOK`) |
| sqlite | 3 requests, a transaction or a plain write each | `SharedConnectionIsAtomic` |
| org | 2 users, 1 invitation, 2 requests, 1 account to delete | `OneOwnerUnlessRaced`, `AdmittedByInvitation` |
| stripe | 2 payers, 2 deliveries, 3 changes | `PlanFollowsStripe` |
| referral | 3 invoices, cap 1, 2 deliveries, 2 passes | `CreditsNearCap`, `GrantedOnce` |

*Why the bounds suffice.* The races of the gates are between an attempt and one
or two others, one that reserves and one that settles; three requests (two for
the liveness runs) contain every such pair and a third party that holds the
lock. Two budgets are the most a project can have (daily, monthly). With limit 3
and estimates of 2, one request fits and two do not; with 4, two do: admission
and rejection both happen on each side. Costs above the estimate are included.
In `parts`, each hazard is about two actors (two turns, two replicas, two
requests, two deliveries, two passes) and each pool is one smaller than what
asks for it, so that eviction, a full bench, the cap and the sweep happen. The
two-user organization leaves `org_owner`'s third user out; the proof covers any
number.
Three models allow a chain asked, rewritten, substitute in which the substitute
is dearer, or is the model that was asked for. TTL 2 is the least value that
tells "expires" from "expires one tick late", two promotions let an overlapping
lookup carry either version. Bounds are named: `MaxVersion` (promotions of all
lanes), `MaxLoads` (lookups in flight), `TotalAttempts`, and in the parts those marked "bound:" at
their declaration; everything else is
finite by construction.

`CHECK_DEADLOCK FALSE` is set for the request modules, because a system in
which every request has ended stops, and for `parts` and `org_owner`, where a
part may come to its end (a model is chosen, the events are used up); the policy
runs check deadlock.

*Fairness.* The event loop runs every continuation that is ready, so the
statements of an open transaction (`BudgetReservation`, `PlanReservation`), the
handler's own steps (`ChatRequest.Handle`, `InsertLate`) and the resumption of a
lookup are weakly fair, and so is the clock (`Expire`, `Tick`). A replica that is
down is started again (`restart: unless-stopped` in the compose file) and one that
boots goes on (`FairBootSpec`), while failures are bounded. A lock waiter is
served because every holder commits, fails or dies. Nothing is fair that depends
on others: the gateway sets no timeout on upstream calls, so `RequestsEnd` and
`DrainedIsRecorded` *assume* `ProvidersAnswer`. Failures, crashes, promotions,
notifications and the client's departure are never forced.

## Findings

- **The cap can be passed** (`budget_overshoot`). The spend sum and the reserved
  sum are two statements. A request that inserts its row and releases in between
  is in neither, so the next one is admitted. The trace needs no wrong estimate
  and no expiry. Reading the reservations *before* the ledger closes the gap: a
  request that moves from one to the other is then counted twice rather than not
  at all. What remains true is `CapKept`: a budget that covers its charges and the
  promises of requests that may still charge goes on covering them, unless its
  limit is lowered, a request costs more than it promised (an expired promise is
  none), or an attempt is admitted whose two sums have *both* overlooked a charge.
  Each of the three is needed: without any one of them TLC finds a step that
  passes the cap.
- **One request too many** (`plan_overshoot`). The same order in the plan gate;
  with a cap of one request a month, two succeed. With the two reads swapped,
  `MonthlyWithinLimit` holds on this instance. `SlotsKept` is what remains true:
  `CapKept` without the moving limit, for both caps, the first one decided on sums
  that are older still.
- **A left Anthropic stream is never recorded** (`chat_stream`). The adapter
  writes into the client's stream; once that is cancelled, `controller.close()`
  throws in the `finally` block before `resolveDone`. No ledger row, no release;
  the reservations wait for their TTL. The OpenAI adapter reads its own branch of
  a `tee` and is not affected.
- **Error rows may have cost money** (`chat_errors`), contrary to the comment of
  `getSpendForPeriodMicroCents` that justifies skipping them.
- **Two owners, or none** (`org_owner`). A transfer of ownership reads both roles
  and then updates both rows, unlocked and unconditionally. Two that overlap
  leave two owners, and a successor removed in between leaves none, contrary to
  "never a moment with zero or two owners". `OneOwnerUnlessRaced` shows that
  these, and the sweep of an account that became owner after it was marked, are
  the only ways.
- **A null tag does not fan out** (`policy_fanout`), contrary to the comment in
  the listener: it drops the default entry only.

Seen while reading, without a run of their own: the comment of
`reservePlanForRequest` says an unlimited plan still records a row, the code
returns a null id without one; "Every rejection path still writes a row"
(`routes/chat.ts`) is not so for 400, 401 and 413 (see `RefuseEarly`); a rollback
selects its target by version although versions are numbered per tag;
`sweep-deleted-users.ts` sets `created_by_user_id` to NULL, which migration 011
forbids, so the creator of an organization that has other members is never
deleted (`SweepFails`); "Only operates on unexpired-and-unaccepted invites"
(`refreshInvitationExpiry`) does not test the expiry, so a resend revives an
expired invitation past the seat count; "a double-fired cron is safe"
(`settle-referrals.ts`) does not hold of two passes that overlap, which both list
the same rows and grant them twice (`unstamped` in `Referrals` marks those);
`rotate-master-key.ts` updates by id what it read earlier, so a key saved in
between is replaced by the older one, and it leaves `user_custom_providers`
alone; a late event of a subscription that ended frees the user's newer one
(`Subscriptions` gives each payer one subscription); "Don't re-alert the same
project for 6h" does not hold of scans that overlap, and `AlertsApart` is what
remains true.

## Proofs

TLAPS proves the following for every value of the constants (any number of
requests, budgets, tags, sessions, replicas; any limits, amounts, TTL), from the
assumptions named in the modules. Those say that bounds and times are naturals,
that there are finitely many of whatever is summed or counted (requests of a
gate, tags, checks of the loop detector, invoices, deliveries), that 0 is a
possible amount and cost, that `None`, `NoModel`, `Nobody`, `NotIn`, `NoInvoice`
and `Default` are none of what they stand beside, that rows of `loop_events` are
kept longer than the window and a check together, and that a policy's bucket
measures no model twice (the aggregator builds it from a `Set`). TLC evaluates
all of them in the runs.

**The two gates** (`BudgetReservationProofs`, `PlanReservationProofs`)

- Invariants: `TypeOK`, `InFlightCounted`,
  `DoneHoldsNothing`; `PlanTypeOK`, `SlotsCounted`, `EndedHoldsNothing`.
  `InFlightCounted` speaks of the moment of decision only, so it is not inductive
  as it stands. The reserved read selects by the transaction's `NOW()`, so
  `NowInPast` is needed to know that a row live now was live then;
  `SerializedAttempts` (the row locks serialize the attempts of a project; stated
  and proved here only) to know that nobody else inserts between read and decision.
  `RowsFollowPhase` and `LoopInRange` carry the release loop. For the plan,
  `SlotsCountedSoFar` says it of each cap already behind the attempt, at *every*
  statement of the transaction; it rests on `LockHeld`, `NowInPast` and
  `FirstCapFirst`.
- Refinement: `ReservationImplementsGate` and `PlanReservationImplementsGate`
  prove `ImplementsGate` and `ImplementsPlanGate`, that every step of the protocol
  is a step of `SpendGate` or a stutter: a spend read observes a cap, the COMMIT
  admits, a ROLLBACK or a crash abandons, the ledger row settles, a release or an
  expiry frees. The admission weighs sums the protocol took in earlier statements
  against what the gate holds *now*; that the two agree takes the invariant
  (whoever is held now was in the reserved sum then) and a fact about sums: of a
  larger set of rows no smaller a sum. For the plan it also takes `PassedCaps`
  (the caps behind the attempt still have room) and `SeenIsFinal` (what a read
  selected has its final amount).

- The caps: `CapIsKept` and `SlotsAreKept` prove the action properties `CapKept`
  and `SlotsKept`. The exposure of a cap is the sum of its charges and of what is
  owed, the live promises of requests that may still charge. Two steps add to it.
  A charge moves a request from the owed to the charged (`ChargeCovers`). An
  admission must show, from sums taken at two earlier moments, that the exposure
  *now* fits (`AdmissionCovers`): whoever is owed now was in the reserved sum, by
  the invariant, and a charge now that the spend sum lacks was a promise in the
  reserved sum, or was overlooked (`SumCovers`). Note that the admission re-establishes the
  bound whatever held before it. Every other step takes rows away or leaves them
  (`NothingAdded`). From these, `SpendStaysWithinLimit` and
  `MonthStaysWithinLimit`: in a run in which those steps never happen, the two
  promises `budget_overshoot` and `plan_overshoot` refute hold throughout. They
  are conditional, and the condition is exactly the list of `KeptClear`.

**`Sums`** holds what these need of the models' folds. The community modules
define a fold by a recursive function that takes the elements in an order
`CHOOSE` picks; proved here are its value on the empty set, that adding or
removing an element adds or subtracts its value (so the order does not matter),
that sums are monotone in the rows and in the amounts, that the sum over a set is
that over a part and over the rest (`SumDisjoint`), the comparison of a ledger and
its promises with two older readings of them (`SumCovers`), and that a histogram whose
ages all grow by one keeps its counts. Induction takes no predicate as parameter:
a set of counterexamples has a smallest member (`LeastSet`, `NatInductionSet`,
`Least`, from the well-foundedness of inclusion and of `<`), and the operators
with a recursive function (`Only`, `Touched` of the prompt cache) are known
through a set of the prefixes on which they are right.

**The handler** (`ChatRequestProofs`): `ReqTypeOK`, `NoUncountedGap`,
`EndHoldsNothing`, `RowNamesWhatRan`, `AnswerMatchesRow`. They speak of the end of
a request. The inductive invariant says what each point of the handler may rely
on: whether a call was made and answered (`Stages`), which reservations are held
by `ids` or being released (`Holding`), and what the verdict, the row and the
pending INSERT say of the call and of its reported usage (`Naming`) and of the
answer, given or still to be derived (`Telling`). One lemma per action. `FinalIsFinal` is an action property: a call that goes on has had no
final outcome (`GoesOn`). Proving it showed that a map which names a model as its
own substitute defeats it, which `getFailoverMap` accepts; the property says so.

**Policies** (`PolicyProofs`): `StaleAtMostTtl`, `LoaderTypeOK`.
A policy, in the cache or in a lookup under way, with `left` ticks left and
different from what the rows say, became so at most `Ttl - left` ticks ago.
Lookups take the time before they ask, so `left` runs from then; that is why
`Store` may be arbitrarily late. `LoaderTypeOK` bounds each lane's version by the
sum over all lanes.

**A gateway's own state** (`GatewayProofs`)

- `KeyTurns`: that a key was overtaken once must say that the cursor meets it
  before the key that overtook it; the rest is arithmetic of the circle
  (`CursorMoves`).
- `NewestTurnKept`: each entry of the cache is at least as new as everything
  offered to its session since it was written (`Newest`), which an eviction or
  an expiry forgets together with the entry; no session has two entries.
- `HitOwnProject` and `CacheTypeOK`: what a request may be served is of the
  project it asked for from the moment the index is searched (`SoundCall`),
  whatever happens to the entries during the await; each key has one answer,
  which makes the number of answers the number of keys.
- `LoopSeen`: what was committed in the window before a check began stays counted
  until its own count, no older than the window and the check together
  (`EarlierThere`), and no sweep of a slower clock reaches it.
- `AlertsApart`: the cooldown is never older than the start of a scan that ended
  with the last alert, though a later scan may set it back (`AlertsInv`).

- `RewriteJustified` and `BaselineTypeOK`: inductive once it is known that the
  walk over the fallbacks ends at one of them (a set of places has a first one).

**The database's own order** (`PartsProofs`)

- `SchemaInOrder`: a replica's applied set is out of date as soon as it is read;
  what holds is that everything before its file is recorded (`LoopSound`).
- `KeysKeepTheirMaster`: a row's stamp names its own key or none, a late stamp was
  read under the old key (`StampsSound`), and a run that began after both restarts
  has every old row in its plan (`LateSound`); ids are given out once, so a late
  write by id finds the row it read or nothing.
- `SharedConnectionIsAtomic`: the open bracket is its holder's, and while it is
  open each write of the holder is in it (`Placed`).

**Members and payers** (`AccountsProofs`)

- `OrgTypeOK`, `OneOwnerUnlessRaced`, `AdmittedByInvitation`, from what a pending
  request may be about to do (`SoundDeed`, `SoundInvite`).
- `PlanFollowsStripe`: for a payer whose deliveries neither overlapped nor made do
  with their payload, the plan is right or an event is waited for, and what the
  one delivery under way fetched or wrote is right or *another* event is waited
  for (`PlansRight`, `DeliveriesRight`).
- `CreditsNearCap` by the sum of credits and of deliveries that have counted but
  not inserted; `GrantedOnce` by who holds a credit.

**All parts side by side** (`PartsProofs`): a behaviour of `MCParts` is one of
each part (`PartsImplementTheirSpecs`: what moves is one part, by a step of its
own, and the others stutter), so the theorems about the parts carry over.
`PartsTyped` proves `PartsTypeOK` and `PartsKeepTheirPromises` the other fourteen
safety properties of the run `parts`, with any constants in the place of its
model values. The policy that routes is treated apart: it has a request only in
the behaviours that move it, and rests in the others (`BaselineMovesOrRests`).

*Only model-checked.* Liveness (`HeldIsFreed`, `AttemptsAnswered`, `SlotsFreed`,
`PlanAnswered`, `RequestsEnd`, `Converges`, `BootsEnd`): fairness and `ENABLED` are
outside the prover's reach. Every invariant and every action property of the
passing runs is proved. The six violations are counterexamples, and
need no proof.

## Not modelled

Serialization and formatting, HTTP headers, tags, cost arithmetic and price
tables; the numerics of the classifiers and of policy training; compression;
encryption; shadow traffic and internal replay, which take no reservation;
telemetry; budgets added, disabled or deleted while requests run; the caches of
`db.ts` for API keys and plans, whose 60 seconds the code documents; the
dashboard's login, sessions and rate limits (single-row statements) and SAML (XML
and signatures). Lines that fail inside Postgres are modelled by the exception
they raise.

More than half of the repository's lines are the dashboard's pages and its
texts in several languages, training scripts, price and provider tables: they
keep no state that a model could follow. The map names the lines that do.

## What could come next

1. `PolicyLanes`: retrain and rollback over rows keyed (tag, version), so that the
   lane a rollback picks is decided by the rows; the policy loader on top.
2. The composition of `ChatRequest` with both gates for two requests, so that the
   order record, release of one meets the reads of the other in one model.
3. Budgets added and deleted under running requests; a plan that changes.
4. The reservation transaction on top of `SqliteShim`, where the row locks and
   the advisory lock are no locks.
5. How far a cap can be passed, in the worst case: how many requests may settle
   between the two reads of one attempt, and by how much.
