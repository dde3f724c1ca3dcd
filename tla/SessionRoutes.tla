--------------------------- MODULE SessionRoutes ---------------------------
(***************************************************************************)
(* The cache-aware route guard of one gateway process                      *)
(* (apps/gateway/src/session-route-guard.ts over lru-ttl-cache.ts): which  *)
(* model each session landed on last, read when the next turn is routed    *)
(* and written when a turn ends.  Turns of a session run in parallel and   *)
(* end in any order; a turn may carry a number.  A session stands for its  *)
(* key, project and session id.  Whether staying is worth its cost is a    *)
(* free choice where the code compares two prices.                         *)
(***************************************************************************)
EXTENDS Integers, Sequences, SequencesExt, FiniteSets

CONSTANTS
  Sessions,      \* keys of the cache
  RouteModels,   \* models a turn may be routed to
  MaxTurn,       \* bound: the largest x-ts-turn
  MaxSessions,   \* TOKENSMART_CACHE_AWARE_MAX_SESSIONS
  SessionTtl,    \* TOKENSMART_CACHE_AWARE_SESSION_TTL_MS, in ticks
  MaxTurns       \* bound: turns under way

ASSUME RouteAssumption == MaxTurn \in Nat /\ MaxSessions \in Nat /\ SessionTtl \in Nat

NoTurn == 0      \* the request has no turn number
TurnNumbers == NoTurn..MaxTurn

VARIABLES
  routes,    \* the cache in LRU order, its head the next to be evicted
  turns,     \* turns under way, with the model they were routed to
  landed     \* numbered turns a session's entry was offered, since its last reset

routeVars == <<routes, turns, landed>>

RouteEntry == [session : Sessions, model : RouteModels, turn : TurnNumbers, warm : BOOLEAN, left : -1..SessionTtl]
Turn == [session : Sessions, turn : TurnNumbers, model : RouteModels]

RouteInit ==
  /\ routes = <<>>
  /\ turns = {}
  /\ landed = [s \in Sessions |-> {}]

-----------------------------------------------------------------------------
(* LruTtlCache *)

Residents(cache) == {cache[i].session : i \in DOMAIN cache}
PlaceOf(s) == CHOOSE i \in DOMAIN routes : routes[i].session = s
EntryOf(s) == routes[PlaceOf(s)]
Without(s) == IF s \in Residents(routes) THEN RemoveAt(routes, PlaceOf(s)) ELSE routes
Known(s) == s \in Residents(routes) /\ EntryOf(s).left >= 0

(* get: a hit moves to the end, an entry past its expiry is deleted. *)
AfterGet(s) == IF Known(s) THEN Append(Without(s), EntryOf(s)) ELSE Without(s)

(* set: a fresh expiry, the end of the order, the head out if there is one too
   many. *)
AfterSet(entry) ==
  LET all == Append(Without(entry.session), entry)
  IN  IF Len(all) > MaxSessions THEN Tail(all) ELSE all

-----------------------------------------------------------------------------

(* evaluateCacheAwareRouting: "stay" needs a previous turn on another model
   that was served from the provider's cache, a price comparison, and a
   provider that still resolves. *)
MayStay(s, candidate) ==
  Known(s) /\ EntryOf(s).model # candidate /\ EntryOf(s).warm

RouteTurn(s, turn) ==
  /\ Cardinality(turns) < MaxTurns
  /\ \E candidate \in RouteModels :
       \E model \in {candidate} \cup (IF MayStay(s, candidate) THEN {EntryOf(s).model} ELSE {}) :
         turns' = turns \cup {[session |-> s, turn |-> turn, model |-> model]}
  /\ routes' = AfterGet(s)
  /\ UNCHANGED landed

(* Without automatic routing the guard is not asked. *)
PinTurn(s, turn) ==
  /\ Cardinality(turns) < MaxTurns
  /\ \E model \in RouteModels :
       turns' = turns \cup {[session |-> s, turn |-> turn, model |-> model]}
  /\ UNCHANGED <<routes, landed>>

(* Mutant: the last turn to end wins. *)
NeverOutdated(s, turn) == FALSE

Outdated(s, turn) ==
  Known(s) /\ EntryOf(s).turn # NoTurn /\ turn # NoTurn /\ turn < EntryOf(s).turn

(* The turns a session's entry was offered: they start again with a new entry,
   with a turn that has no number, and after one. *)
Offered(s, t, model) ==
  LET kept == IF Known(s) /\ EntryOf(s).turn # NoTurn THEN landed[s] ELSE {}
  IN  IF t = NoTurn THEN {} ELSE kept \cup {[turn |-> t, model |-> model]}

(* recordSessionRouteState, after a success: the model that answered, which
   failover may have changed. *)
EndTurn(t) ==
  /\ \E model \in RouteModels, warm \in BOOLEAN :
       /\ routes' = IF Outdated(t.session, t.turn) THEN AfterGet(t.session)
                    ELSE AfterSet([session |-> t.session, model |-> model, turn |-> t.turn,
                                   warm |-> warm, left |-> SessionTtl])
       /\ landed' = [s \in Sessions |->
            IF s = t.session THEN Offered(s, t.turn, model)
            ELSE IF s \in Residents(routes') THEN landed[s] ELSE {}]
  /\ turns' = turns \ {t}

(* An error, or an answer without usage: nothing is recorded. *)
DropTurn(t) ==
  /\ turns' = turns \ {t}
  /\ UNCHANGED <<routes, landed>>

Aging(e) == IF e.left >= 0 THEN [e EXCEPT !.left = @ - 1] ELSE e
RouteTick ==
  /\ routes' = [i \in DOMAIN routes |-> Aging(routes[i])]
  /\ UNCHANGED <<turns, landed>>

RouteNext ==
  \/ \E s \in Sessions, turn \in TurnNumbers : RouteTurn(s, turn) \/ PinTurn(s, turn)
  \/ \E t \in turns : EndTurn(t) \/ DropTurn(t)
  \/ RouteTick

RouteSpec == RouteInit /\ [][RouteNext]_routeVars

-----------------------------------------------------------------------------
(* Properties *)

(* One entry a session, no more entries than the cap. *)
RoutesTypeOK ==
  /\ routes \in Seq(RouteEntry)
  /\ Cardinality(Residents(routes)) = Len(routes) /\ Len(routes) <= MaxSessions
  /\ turns \subseteq Turn
  /\ landed \in [Sessions -> SUBSET [turn : 1..MaxTurn, model : RouteModels]]

(* "An older parallel request that finishes late cannot overwrite a newer
   turn's observation": of all the numbered turns that ended since its entry
   was made, a session remembers one with the largest number, whatever order
   they ended in and whatever other sessions did to the order of the cache. *)
NewestTurnKept ==
  \A i \in DOMAIN routes :
    LET e == routes[i] IN
      e.left >= 0 /\ e.turn # NoTurn =>
        /\ [turn |-> e.turn, model |-> e.model] \in landed[e.session]
        /\ \A l \in landed[e.session] : l.turn <= e.turn

=============================================================================
