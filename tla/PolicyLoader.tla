---------------------------- MODULE PolicyLoader ----------------------------
(***************************************************************************)
(* The active routing policies of one project and their cache in one       *)
(* gateway process (apps/gateway/src/policy/loader.ts): a lane per tag and *)
(* a default lane, a lookup that awaits Postgres, a TTL, and NOTIFY-driven *)
(* invalidation.  Processes share the database only, so one stands for     *)
(* all.  Policies are promoted by the retrain CLI, which notifies after    *)
(* its commit, and by the dashboard's rollback, which notifies in it.      *)
(* Time is counted in ticks, relative to now: every value stays bounded.   *)
(***************************************************************************)
EXTENDS Integers, FiniteSets, Sequences, Functions

CONSTANTS
  Tags,        \* values of the request tag
  Default,     \* the lane of tag IS NULL, and the key of untagged requests
  Ttl,         \* LOADER_TTL_MS, in ticks
  MaxVersion,  \* bound: promotions, of all lanes together
  MaxLoads     \* bound: lookups in flight

Lanes == Tags \cup {Default}

ASSUME LanesAssumption == IsFiniteSet(Tags) /\ Default \notin Tags /\ MaxVersion \in Nat
ASSUME TtlAssumption == Ttl \in Nat \ {0}

VARIABLES
  active,    \* version of the active row of each lane, 0 for none
  since,     \* ticks since that row changed, at most Ttl
  cache,     \* the process's cache: a policy, and ticks until it expires
  loads,     \* lookups whose query was answered and that have not resumed yet
  unsent,    \* lanes promoted by a retrain that has not notified yet
  notices,   \* notifications under way to the process
  listening  \* is its LISTEN connection up?

vars == <<active, since, cache, loads, unsent, notices, listening>>

Baseline == [lane |-> "baseline", version |-> 0]  \* the shipped policy
Unread == [lane |-> "unread", version |-> 0]      \* the same, for want of an answer
Policies == [lane : Lanes, version : 1..MaxVersion] \cup {Baseline, Unread}
NoEntry == [policy |-> Baseline, left |-> 0]

Init ==
  /\ active = [l \in Lanes |-> 0]
  /\ since = [l \in Lanes |-> Ttl]
  /\ cache = [k \in Lanes |-> NoEntry]
  /\ loads = {}
  /\ unsent = {}
  /\ notices = <<>>
  /\ listening = TRUE

-----------------------------------------------------------------------------
(* loadActivePolicy *)

(* The row of the tag, else the default row, else the shipped baseline. *)
Resolve(key) ==
  IF active[key] # 0 THEN [lane |-> key, version |-> active[key]]
  ELSE IF active[Default] # 0 THEN [lane |-> Default, version |-> active[Default]]
  ELSE Baseline

Live(entry) == entry.left > 0

(* Mutant: one tick too many. *)
LoadLonger(key) ==
  /\ ~Live(cache[key]) /\ Cardinality(loads) < MaxLoads
  /\ \E policy \in {Resolve(key), Unread} :
       loads' = loads \cup {[key |-> key, policy |-> policy, left |-> Ttl + 1]}
  /\ UNCHANGED <<active, since, cache, unsent, notices, listening>>

(* A miss: the time is taken, then the query is awaited.  A query that fails
   resolves to the baseline. *)
Load(key) ==
  /\ ~Live(cache[key]) /\ Cardinality(loads) < MaxLoads
  /\ \E policy \in {Resolve(key), Unread} :
       loads' = loads \cup {[key |-> key, policy |-> policy, left |-> Ttl]}
  /\ UNCHANGED <<active, since, cache, unsent, notices, listening>>

(* Mutant: the expiry counts from the end of the lookup. *)
StoreLate(load) ==
  /\ cache' = [cache EXCEPT ![load.key] = [policy |-> load.policy, left |-> Ttl]]
  /\ loads' = loads \ {load}
  /\ UNCHANGED <<active, since, unsent, notices, listening>>

(* The lookup resumes and writes the cache, whatever happened meanwhile. *)
Store(load) ==
  /\ cache' = [cache EXCEPT ![load.key] = [policy |-> load.policy, left |-> load.left]]
  /\ loads' = loads \ {load}
  /\ UNCHANGED <<active, since, unsent, notices, listening>>

-----------------------------------------------------------------------------
(* Promotion and invalidation *)

(* How many there were, of all lanes. *)
Promotions == FoldFunction(+, 0, active)

Activate(lane) ==
  /\ Promotions < MaxVersion
  /\ active' = [active EXCEPT ![lane] = @ + 1]
  /\ since' = [since EXCEPT ![lane] = 0]

Publish(lane) == notices' = IF listening THEN Append(notices, lane) ELSE notices

(* The retrain CLI: one transaction, the notification later. *)
Retrain(lane) ==
  /\ Activate(lane)
  /\ unsent' = unsent \cup {lane}
  /\ UNCHANGED <<cache, loads, notices, listening>>

NotifyPolicyChanged(lane) ==
  /\ lane \in unsent
  /\ unsent' = unsent \ {lane}
  /\ Publish(lane)
  /\ UNCHANGED <<active, since, cache, loads, listening>>

(* The CLI dies first, or its NOTIFY fails: "non-fatal". *)
NotifyFails(lane) ==
  /\ lane \in unsent
  /\ unsent' = unsent \ {lane}
  /\ UNCHANGED <<active, since, cache, loads, notices, listening>>

(* rollbackPolicyAction: pg_notify inside the transaction. *)
Rollback(lane) ==
  /\ active[lane] # 0
  /\ Activate(lane)
  /\ Publish(lane)
  /\ UNCHANGED <<cache, loads, unsent, listening>>

(* The listener drops the one entry whose key is the lane's.  For a null tag
   it passes null on, which is not the undefined that drops them all. *)
Deliver ==
  /\ notices # <<>>
  /\ cache' = [cache EXCEPT ![Head(notices)] = NoEntry]
  /\ notices' = Tail(notices)
  /\ UNCHANGED <<active, since, loads, unsent, listening>>

(* A NOTIFY without payload, by hand: invalidateAllProjectPolicies. *)
FlushAll ==
  /\ listening
  /\ \E k \in Lanes : cache[k] # NoEntry
  /\ cache' = [k \in Lanes |-> NoEntry]
  /\ UNCHANGED <<active, since, loads, unsent, notices, listening>>

(* The LISTEN connection drops, with what was under way, and comes back. *)
Disconnect ==
  /\ listening
  /\ listening' = FALSE
  /\ notices' = <<>>
  /\ UNCHANGED <<active, since, cache, loads, unsent>>

Reconnect ==
  /\ ~listening
  /\ listening' = TRUE
  /\ UNCHANGED <<active, since, cache, loads, unsent, notices>>

(* Mutant: entries are used without looking at expires_at_ms. *)
AgedNever(entry) == entry

(* Time passes.  An entry past its expiry is as good as none. *)
Sooner(n) == IF n > 0 THEN n - 1 ELSE 0
Aged(entry) == IF entry.left > 1 THEN [entry EXCEPT !.left = @ - 1] ELSE NoEntry
Tick ==
  /\ since' = [l \in Lanes |-> IF since[l] < Ttl THEN since[l] + 1 ELSE Ttl]
  /\ cache' = [k \in Lanes |-> Aged(cache[k])]
  /\ loads' = {[load EXCEPT !.left = Sooner(@)] : load \in loads}
  /\ UNCHANGED <<active, unsent, notices, listening>>

-----------------------------------------------------------------------------

Next ==
  \/ \E k \in Lanes : Load(k)
  \/ \E load \in loads : Store(load)
  \/ \E l \in Lanes : Retrain(l) \/ NotifyPolicyChanged(l) \/ NotifyFails(l) \/ Rollback(l)
  \/ Deliver \/ FlushAll \/ Disconnect \/ Reconnect \/ Tick

Spec == Init /\ [][Next]_vars

(* Time passes, and a lookup that was answered resumes. *)
FairSpec == Spec /\ WF_vars(Tick) /\ WF_vars(\E load \in loads : Store(load))

-----------------------------------------------------------------------------
(* Properties *)

(* Every variable stays in its type; no notification waits for a process that
   does not listen. *)
LoaderTypeOK ==
  /\ active \in [Lanes -> 0..MaxVersion]
  /\ since \in [Lanes -> 0..Ttl]
  /\ cache \in [Lanes -> [policy : Policies, left : 0..Ttl]]
  /\ loads \subseteq [key : Lanes, policy : Policies, left : 0..Ttl]
  /\ unsent \subseteq Lanes
  /\ notices \in Seq(Lanes) /\ (~listening => notices = <<>>)

(* Served from the cache, a policy is never out of date by more than the TTL,
   however slow the lookup that brought it, whatever became of the
   notification, in whatever order overlapping lookups end: "visible to every
   gateway process within LOADER_TTL_MS of the promotion".  A failed lookup
   hides the database for as long. *)
StaleAtMostTtl ==
  \A k \in Lanes :
    Live(cache[k]) /\ cache[k].policy \notin {Resolve(k), Unread}
      => since[k] < Ttl \/ since[Default] < Ttl

(* Once promotions stop, the process serves what the database says. *)
Converges ==
  <>[](\A k \in Lanes : Live(cache[k]) => cache[k].policy \in {Resolve(k), Unread})

(* "null will fan out across all tags for this project" (the listener of
   subscribeToPolicyInvalidations). *)
NullFansOut ==
  [][notices # <<>> /\ Head(notices) = Default /\ notices' = Tail(notices)
       => \A k \in Lanes : ~Live(cache'[k])]_vars

=============================================================================
