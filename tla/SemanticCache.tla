--------------------------- MODULE SemanticCache ---------------------------
(***************************************************************************)
(* The prompt cache of one gateway process                                 *)
(* (apps/gateway/src/semantic-cache.ts over lru-ttl-cache.ts), with its    *)
(* similarity layer on: the answers in LRU order, and a sidecar index of   *)
(* prompts, in order of first insertion, which is searched for a similar   *)
(* one.  A lookup and a store both await an embedding; between, other      *)
(* requests evict, expire and replace entries.  A prompt is its normalized *)
(* text; a variant is the rest the exact key covers (model, sampling).     *)
(***************************************************************************)
EXTENDS Integers, Sequences, SequencesExt, FiniteSets

CONSTANTS
  CacheKeys,   \* what requests ask: records of a project, a variant and a prompt
  MaxEntries,  \* TOKENSMART_CACHE_MAX_ENTRIES
  CacheTtl,    \* TOKENSMART_CACHE_TTL_SECONDS, in ticks
  CacheCalls   \* requests in flight

ASSUME CacheAssumption == MaxEntries \in Nat /\ CacheTtl \in Nat

Nothing == [project |-> "none", variant |-> "none", prompt |-> "none"]

VARIABLES
  store,   \* answers: their key, ticks left, and whether an embedding came with them
  index,   \* the similarity index, as keys
  call     \* each request: where it is, what it asks, what it may be served, what it was

cacheVars == <<store, index, call>>

NoCall == [at |-> "idle", key |-> Nothing, candidates |-> {}, served |-> Nothing]

CacheInit ==
  /\ store = <<>>
  /\ index = <<>>
  /\ call = [c \in CacheCalls |-> NoCall]

-----------------------------------------------------------------------------
(* LruTtlCache, on the sequence of entries in LRU order *)

Has(s, k) == \E i \in DOMAIN s : s[i].key = k /\ s[i].left >= 0
Keyed(s) == {s[i].key : i \in DOMAIN s}
Slot(s, k) == CHOOSE i \in DOMAIN s : s[i].key = k
Others(s, k) == IF k \in Keyed(s) THEN RemoveAt(s, Slot(s, k)) ELSE s
Get(s, k) == IF Has(s, k) THEN Append(Others(s, k), s[Slot(s, k)]) ELSE Others(s, k)
Set(s, entry) ==
  LET all == Append(Others(s, entry.key), entry)
  IN  IF Len(all) > MaxEntries THEN Tail(all) ELSE all
Embedded(s) == {s[i].key : i \in {j \in DOMAIN s : s[j].embedded}}

(* A get of each key, one after the other. *)
Touched(s, ks) ==
  LET got[n \in 0..Len(ks)] == IF n = 0 THEN s ELSE Get(got[n - 1], ks[n])
  IN  got[Len(ks)]

(* The keys of a sequence that are in a set, in its order. *)
Only(ks, K) ==
  LET kept[n \in 0..Len(ks)] ==
        IF n = 0 THEN <<>> ELSE IF ks[n] \in K THEN Append(kept[n - 1], ks[n]) ELSE kept[n - 1]
  IN  kept[Len(ks)]

-----------------------------------------------------------------------------
(* lookupSemanticCache *)

Serve(c, key, origin) ==
  call' = [call EXCEPT ![c] = [at |-> "served", key |-> key, candidates |-> {}, served |-> origin]]

Miss(c, key) ==
  call' = [call EXCEPT ![c] = [at |-> "upstream", key |-> key, candidates |-> {}, served |-> Nothing]]

ExactHit(c, key) ==
  /\ call[c].at = "idle" /\ Has(store, key)
  /\ store' = Get(store, key)
  /\ Serve(c, key, key)
  /\ UNCHANGED index

(* Mutant: the index is searched whatever the project. *)
MineOfAnyone(key) == index

Mine(key) == Only(index, {k \in CacheKeys : k.project = key.project})

(* The exact key was looked up; then the given ones: each is touched in the
   cache, a dead one leaves the index. *)
Visit(key, visited) ==
  /\ store' = Touched(Get(store, key), visited)
  /\ index' = Only(index, {k \in CacheKeys : k \notin Range(visited) \/ Has(store, k)})

(* The same normalized prompt: the first of the index that is alive.  What
   comes after it is not looked at. *)
SamePrompt(c, key) ==
  /\ call[c].at = "idle" /\ ~Has(store, key)
  /\ \E i \in DOMAIN Mine(key) :
       LET Matches(k) == k.prompt = key.prompt /\ Has(store, k) IN
       /\ Matches(Mine(key)[i]) /\ \A j \in 1..i-1 : ~Matches(Mine(key)[j])
       /\ Visit(key, SubSeq(Mine(key), 1, i))
       /\ Serve(c, key, Mine(key)[i])

(* No such prompt: the entries that carry an embedding are compared, once the
   embedding of this prompt has come. *)
Compare(c, key) ==
  LET alive == {k \in Range(Mine(key)) : Has(store, k)}
      candidates == alive \cap Embedded(store)
  IN
  /\ call[c].at = "idle" /\ ~Has(store, key)
  /\ \A k \in alive : k.prompt # key.prompt
  /\ Visit(key, Mine(key))
  /\ IF candidates = {} THEN Miss(c, key)
     ELSE call' = [call EXCEPT ![c] =
            [at |-> "comparing", key |-> key, candidates |-> candidates, served |-> Nothing]]

(* The embedding came: the closest above the threshold, if any is and it is
   still there; or it did not. *)
SimilarHit(c) ==
  /\ call[c].at = "comparing"
  /\ \E k \in call[c].candidates :
       /\ Has(store, k)
       /\ store' = Get(store, k)
       /\ Serve(c, call[c].key, k)
  /\ UNCHANGED index

NotSimilar(c) ==
  /\ call[c].at = "comparing"
  /\ \E best \in call[c].candidates \cup {Nothing} :
       /\ ~Has(store, best)
       /\ store' = Get(store, best)
  /\ Miss(c, call[c].key)
  /\ UNCHANGED index

-----------------------------------------------------------------------------

(* Mutant: the index is not pruned. *)
IndexedForever(key, size) ==
  IF key \in Range(index) THEN index ELSE Append(index, key)

(* similarityIndex.set keeps the place of a key it has; then the oldest go
   until there are no more of them than answers. *)
Indexed(key, size) ==
  LET all == IF key \in Range(index) THEN index ELSE Append(index, key)
  IN  IF Len(all) > size THEN SubSeq(all, Len(all) - size + 1, Len(all)) ELSE all

(* The provider has answered; storeInSemanticCache, once the embedding of the
   prompt has come, or has failed. *)
StoreAnswer(c) ==
  /\ call[c].at = "upstream"
  /\ \E embedded \in BOOLEAN :
       store' = Set(store, [key |-> call[c].key, left |-> CacheTtl, embedded |-> embedded])
  /\ index' = Indexed(call[c].key, Len(store'))
  /\ call' = [call EXCEPT ![c] = NoCall]

(* The request ends without anything to store. *)
CacheCallEnds(c) ==
  /\ call[c].at \in {"served", "upstream"}
  /\ call' = [call EXCEPT ![c] = NoCall]
  /\ UNCHANGED <<store, index>>

Fading(e) == IF e.left >= 0 THEN [e EXCEPT !.left = @ - 1] ELSE e
CacheTick ==
  /\ store' = [i \in DOMAIN store |-> Fading(store[i])]
  /\ UNCHANGED <<index, call>>

CacheNext ==
  \/ \E c \in CacheCalls :
       \/ \E key \in CacheKeys : ExactHit(c, key) \/ SamePrompt(c, key) \/ Compare(c, key)
       \/ SimilarHit(c) \/ NotSimilar(c) \/ StoreAnswer(c) \/ CacheCallEnds(c)
  \/ CacheTick

CacheSpec == CacheInit /\ [][CacheNext]_cacheVars

-----------------------------------------------------------------------------
(* Properties *)

(* One answer a key; no more answers than the cap, and though the index lists
   keys the cache has lost, no more keys in the index either. *)
CacheTypeOK ==
  /\ store \in Seq([key : CacheKeys, left : -1..CacheTtl, embedded : BOOLEAN])
  /\ Cardinality(Keyed(store)) = Len(store) /\ Len(store) <= MaxEntries
  /\ index \in Seq(CacheKeys) /\ Len(index) <= MaxEntries
  /\ call \in [CacheCalls ->
       [at : {"idle", "served", "comparing", "upstream"}, key : CacheKeys \cup {Nothing},
        candidates : SUBSET CacheKeys, served : CacheKeys \cup {Nothing}]]

(* "Tenants never see each other's cached responses", and with the same prompt
   on another model or by a similar one, an answer is served: it is one that
   was made for the project which asks, whatever was evicted and replaced
   while the embedding was awaited. *)
HitOwnProject == \A c \in CacheCalls : call[c].at = "served" => call[c].served.project = call[c].key.project

=============================================================================
