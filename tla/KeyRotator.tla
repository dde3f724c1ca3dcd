----------------------------- MODULE KeyRotator -----------------------------
(***************************************************************************)
(* The API keys of one provider in one gateway process                     *)
(* (apps/gateway/src/key-rotator.ts, called by the provider adapters): a   *)
(* call takes the next key round robin, and a key that answers 429 sits on *)
(* a bench for a while.  Keys are distinct, and are their positions in the *)
(* pool; a bench is the number of ticks left of it.  A pool of one key is  *)
(* the case PoolSize = 1 of the same search.                               *)
(***************************************************************************)
EXTENDS Integers

CONSTANTS
  PoolSize,   \* keys in the pool
  Cooldown,   \* getCooldownMs(), in ticks
  MaxBench,   \* bound: the longest Retry-After, in ticks
  KeyCalls    \* calls to the provider that may be under way together

Keys == 0..PoolSize-1
NoKey == -1

ASSUME PoolAssumption == PoolSize \in Nat \ {0}
ASSUME BenchAssumption == Cooldown \in Nat /\ MaxBench \in Nat /\ Cooldown <= MaxBench

VARIABLES
  next,       \* the round-robin cursor
  bench,      \* ticks until the key is available, 0 when it is
  inUse,      \* the key a call was sent with
  overtaken   \* overtaken[k][j]: times j was handed out while k stood available

keyVars == <<next, bench, inUse, overtaken>>

NotOvertaken == [j \in Keys |-> 0]

KeyInit ==
  /\ next = 0
  /\ bench = [k \in Keys |-> 0]
  /\ inUse = [c \in KeyCalls |-> NoKey]
  /\ overtaken = [k \in Keys |-> NotOvertaken]

Available == {k \in Keys : bench[k] = 0}

(* How far the scan goes from the cursor before it meets k. *)
Ahead(k) == IF k >= next THEN k - next ELSE k - next + PoolSize

(* What a key was overtaken by starts again when it is handed out or benched. *)
Overtake(picked) ==
  overtaken' = [k \in Keys |->
    IF k = picked \/ bench[k] > 0 THEN NotOvertaken
    ELSE [overtaken[k] EXCEPT ![picked] = @ + 1]]

(* Mutant: the cursor stops at the key it handed out. *)
PickSame(c) ==
  /\ inUse[c] = NoKey
  /\ \E k \in Available :
       /\ \A j \in Available : Ahead(k) <= Ahead(j)
       /\ next' = k
       /\ inUse' = [inUse EXCEPT ![c] = k]
       /\ Overtake(k)
  /\ UNCHANGED bench

(* pickKey: the first available key from the cursor on. *)
PickNext(c) ==
  /\ inUse[c] = NoKey
  /\ \E k \in Available :
       /\ \A j \in Available : Ahead(k) <= Ahead(j)
       /\ next' = (IF k = PoolSize - 1 THEN 0 ELSE k + 1)
       /\ inUse' = [inUse EXCEPT ![c] = k]
       /\ Overtake(k)
  /\ UNCHANGED bench

(* Every key is benched: the one whose bench ends first, the cursor stays. *)
PickEarliest(c) ==
  /\ inUse[c] = NoKey /\ Available = {}
  /\ \E k \in Keys :
       /\ \A j \in Keys : bench[k] < bench[j] \/ (bench[k] = bench[j] /\ k <= j)
       /\ inUse' = [inUse EXCEPT ![c] = k]
       /\ Overtake(k)
  /\ UNCHANGED <<next, bench>>

(* The call ends with anything but a 429. *)
KeyCallEnds(c) ==
  /\ inUse[c] # NoKey
  /\ inUse' = [inUse EXCEPT ![c] = NoKey]
  /\ UNCHANGED <<next, bench, overtaken>>

(* markRateLimited: a bench replaces the one before, a longer one too.  A
   Retry-After of zero, or out of range, gives way to the configured one. *)
MarkRateLimited(c) ==
  /\ inUse[c] # NoKey
  /\ \E ticks \in (1..MaxBench) \cup {Cooldown} :
       /\ bench' = [bench EXCEPT ![inUse[c]] = ticks]
       /\ overtaken' = [overtaken EXCEPT ![inUse[c]] = IF ticks > 0 THEN NotOvertaken ELSE @]
  /\ inUse' = [inUse EXCEPT ![c] = NoKey]
  /\ UNCHANGED next

KeyTick ==
  /\ bench' = [k \in Keys |-> IF bench[k] > 0 THEN bench[k] - 1 ELSE 0]
  /\ UNCHANGED <<next, inUse, overtaken>>

KeyNext ==
  \/ \E c \in KeyCalls : PickNext(c) \/ PickEarliest(c) \/ KeyCallEnds(c) \/ MarkRateLimited(c)
  \/ KeyTick

KeySpec == KeyInit /\ [][KeyNext]_keyVars

-----------------------------------------------------------------------------
(* Properties *)

(* The cursor and every key handed out are positions of the pool; benches end. *)
KeysTypeOK ==
  /\ next \in Keys
  /\ bench \in [Keys -> 0..MaxBench]
  /\ inUse \in [KeyCalls -> Keys \cup {NoKey}]
  /\ overtaken \in [Keys -> [Keys -> Nat]]

(* Nobody is passed over twice: while a key stands available, whatever
   benches come and go around it and however many calls take keys at once, no
   other key is handed out a second time (round-robin of pickKey). *)
KeyTurns == \A k, j \in Keys : overtaken[k][j] <= 1

=============================================================================
