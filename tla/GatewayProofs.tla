---------------------------- MODULE GatewayProofs ----------------------------
(***************************************************************************)
(* Proofs about the state one gateway process keeps between requests: the  *)
(* key rotator (KeyRotator), the session routes (SessionRoutes), the       *)
(* prompt cache (SemanticCache), the loop detector's counts (LoopDetector) *)
(* and the anomaly monitor (AnomalyMonitor); and about what the active     *)
(* policy may rewrite a request to (BaselineRoute).                        *)
(***************************************************************************)
EXTENDS KeyRotator, SessionRoutes, SemanticCache, LoopDetector, AnomalyMonitor,
        BaselineRoute, Sums, SequenceTheorems, TLAPS

(* Sequences from which an element is taken out, and whose elements differ *)

(* RemoveAt leaves the elements before the place and, one place down, those
   behind it. *)
LEMMA RemoveAtIs ==
  ASSUME NEW S, NEW s \in Seq(S), NEW i \in 1..Len(s)
  PROVE  /\ RemoveAt(s, i) \in Seq(S) /\ Len(RemoveAt(s, i)) = Len(s) - 1
         /\ \A j \in 1..(Len(s) - 1) : RemoveAt(s, i)[j] = s[IF j < i THEN j ELSE j + 1]
<1> DEFINE A == SubSeq(s, 1, i - 1)  B == SubSeq(s, i + 1, Len(s))
<1>1. Len(s) \in Nat /\ \A j \in 1..Len(s) : s[j] \in S
  OBVIOUS
<1>2. A \in Seq(S) /\ Len(A) = i - 1 /\ \A j \in 1..(i - 1) : A[j] = s[j]
  BY <1>1
<1>3. B \in Seq(S) /\ Len(B) = Len(s) - i /\ \A j \in 1..(Len(s) - i) : B[j] = s[j + i]
  BY <1>1
<1>4. RemoveAt(s, i) = A \o B
  BY DEF RemoveAt
<1> HIDE DEF A, B
<1>5. /\ A \o B \in Seq(S) /\ Len(A \o B) = Len(A) + Len(B)
      /\ \A j \in 1..(Len(A) + Len(B)) : (A \o B)[j] = IF j <= Len(A) THEN A[j] ELSE B[j - Len(A)]
  BY <1>2, <1>3, ConcatProperties
<1>6. Len(A \o B) = Len(s) - 1
  BY <1>1, <1>2, <1>3, <1>5
<1>7. ASSUME NEW j \in 1..(Len(s) - 1) PROVE (A \o B)[j] = s[IF j < i THEN j ELSE j + 1]
  <2>1. j \in 1..(Len(A) + Len(B))
    BY <1>1, <1>2, <1>3
  <2>2. CASE j < i
    BY <1>2, <1>5, <2>1, <2>2
  <2>3. CASE ~(j < i)
    <3>1. (A \o B)[j] = B[j - (i - 1)] /\ j - (i - 1) \in 1..(Len(s) - i)
      BY <1>1, <1>2, <1>5, <2>1, <2>3
    <3>2. (j - (i - 1)) + i = j + 1
      BY <1>1
    <3> QED BY <1>3, <2>3, <3>1, <3>2
  <2> QED BY <2>2, <2>3
<1> QED BY <1>4, <1>5, <1>6, <1>7

(* As many values as places, when no two places have the same. *)
LEMMA DistinctCount ==
  ASSUME NEW n \in Nat, NEW f, \A i, j \in 1..n : f[i] = f[j] => i = j
  PROVE  Cardinality({f[i] : i \in 1..n}) = n
<1> DEFINE T == {f[i] : i \in 1..n}
           b == [i \in 1..n |-> f[i]]
<1>1. b \in Bijection(1..n, T)
  BY DEF Bijection, Injection, Surjection, IsInjective
<1>2. ExistsBijection(1..n, T)
  BY <1>1 DEF ExistsBijection
<1>3. IsFiniteSet(1..n) /\ Cardinality(1..n) = n
  BY FS_Interval
<1> HIDE DEF T
<1>4. Cardinality(T) = n
  BY <1>2, <1>3, FS_Bijection
<1> QED BY <1>4 DEF T

(* One entry a key, of a sequence of entries. *)

-----------------------------------------------------------------------------
(***************************************************************************)
(* The key rotator, for every pool, every number of calls and every length *)
(* of benches.  KeyTurns is not inductive: that a key was overtaken once   *)
(* must say that the cursor meets it before it meets the key that overtook *)
(* it (TurnsInv).                                                          *)
(***************************************************************************)
(* A key overtaken by j is met before j. *)
TurnsInv ==
  \A k, j \in Keys :
    /\ overtaken[k][j] \in {0, 1}
    /\ overtaken[k][j] = 1 => Ahead(k) < Ahead(j)

KeyIInv == KeysTypeOK /\ TurnsInv

(* The cursor right behind key p. *)
Behind(p) == IF p = PoolSize - 1 THEN 0 ELSE p + 1

(* The distance to k from a cursor at n. *)
AheadFrom(n, k) == IF k >= n THEN k - n ELSE k - n + PoolSize

(* Moving the cursor behind p, the nearest key of a set, brings the other
   members nearer by the same distance and puts p last. *)
LEMMA CursorMoves ==
  ASSUME NEW n \in Keys, NEW p \in Keys, NEW k \in Keys, k # p,
         AheadFrom(n, p) <= AheadFrom(n, k)
  PROVE  /\ AheadFrom(Behind(p), k) = AheadFrom(n, k) - AheadFrom(n, p) - 1
         /\ AheadFrom(Behind(p), p) = PoolSize - 1
         /\ AheadFrom(Behind(p), k) < AheadFrom(Behind(p), p)
         /\ AheadFrom(n, p) < AheadFrom(n, k)
BY PoolAssumption DEF Keys, AheadFrom, Behind

LEMMA KeyInitInv == KeyInit => KeyIInv
<1> SUFFICES ASSUME KeyInit PROVE KeyIInv
    OBVIOUS
<1>1. KeysTypeOK
  BY PoolAssumption, BenchAssumption DEF KeyInit, KeysTypeOK, Keys, NotOvertaken
<1>2. TurnsInv
  BY DEF KeyInit, TurnsInv, NotOvertaken
<1> QED BY <1>1, <1>2 DEF KeyIInv

LEMMA KeyStepInv == KeyIInv /\ [KeyNext]_keyVars => KeyIInv'
<1> SUFFICES ASSUME KeyIInv, [KeyNext]_keyVars PROVE KeyIInv'
    OBVIOUS
<1> USE DEF KeyIInv
<1>a. \A k \in Keys : Ahead(k) = AheadFrom(next, k)
  BY DEF Ahead, AheadFrom
<1>b. \A k \in Keys : Ahead(k)' = AheadFrom(next', k)
  BY DEF Ahead, AheadFrom
<1>1. ASSUME NEW c \in KeyCalls, PickNext(c) PROVE KeyIInv'
  <2>1. PICK p \in Available :
          /\ \A j \in Available : Ahead(p) <= Ahead(j)
          /\ next' = Behind(p)
          /\ inUse' = [inUse EXCEPT ![c] = p]
          /\ Overtake(p)
    BY <1>1 DEF PickNext, Behind
  <2>2. p \in Keys /\ bench[p] = 0
    BY DEF Available
  <2>3. KeysTypeOK'
    <3>1. next' \in Keys
      BY <2>1, <2>2, PoolAssumption DEF Behind, Keys
    <3>2. inUse' \in [KeyCalls -> Keys \cup {NoKey}]
      BY <2>1, <2>2 DEF KeysTypeOK
    <3>3. overtaken' \in [Keys -> [Keys -> Nat]]
      BY <2>1, <2>2 DEF KeysTypeOK, Overtake, NotOvertaken
    <3> QED BY <1>1, <3>1, <3>2, <3>3 DEF KeysTypeOK, PickNext
  <2>4. TurnsInv'
    <3> SUFFICES ASSUME NEW k \in Keys, NEW j \in Keys
                 PROVE  /\ overtaken'[k][j] \in {0, 1}
                        /\ overtaken'[k][j] = 1 => AheadFrom(next', k) < AheadFrom(next', j)
      BY <1>b DEF TurnsInv
    <3>1. CASE k = p \/ bench[k] > 0
      BY <2>1, <3>1 DEF Overtake, NotOvertaken
    <3>2. CASE k # p /\ ~(bench[k] > 0)
      <4>1. k \in Available
        BY <3>2 DEF Available, KeysTypeOK
      <4>2. AheadFrom(next, p) <= AheadFrom(next, k)
        BY <1>a, <2>1, <2>2, <4>1
      <4>3. /\ AheadFrom(next', k) = AheadFrom(next, k) - AheadFrom(next, p) - 1
            /\ AheadFrom(next', k) < AheadFrom(next', p)
            /\ AheadFrom(next, p) < AheadFrom(next, k)
        BY <2>1, <2>2, <3>2, <4>2, CursorMoves DEF KeysTypeOK
      <4>4. CASE j = p
        <5>1. overtaken[k][p] = 0
          <6>1. /\ overtaken[k][p] \in {0, 1}
                /\ overtaken[k][p] = 1 => AheadFrom(next, k) < AheadFrom(next, p)
            BY <1>a, <2>2 DEF TurnsInv
          <6>2. AheadFrom(next, k) \in Int /\ AheadFrom(next, p) \in Int
            BY <2>2, PoolAssumption DEF KeysTypeOK, Keys, AheadFrom
          <6> HIDE DEF AheadFrom, KeyIInv
          <6> QED BY <4>3, <6>1, <6>2
        <5>2. overtaken'[k][p] = 1
          BY <2>1, <2>2, <3>2, <5>1 DEF Overtake, KeysTypeOK
        <5> QED BY <4>3, <4>4, <5>2
      <4>5. CASE j # p
        <5>1. overtaken'[k][j] = overtaken[k][j]
          BY <2>1, <2>2, <3>2, <4>5 DEF Overtake, KeysTypeOK
        <5>2. ASSUME overtaken[k][j] = 1 PROVE AheadFrom(next', k) < AheadFrom(next', j)
          <6>1. AheadFrom(next, k) < AheadFrom(next, j)
            BY <1>a, <5>2 DEF TurnsInv
          <6>2. AheadFrom(next, p) <= AheadFrom(next, j)
            BY <2>2, <4>3, <6>1, PoolAssumption DEF AheadFrom, Keys, KeysTypeOK
          <6>3. AheadFrom(next', j) = AheadFrom(next, j) - AheadFrom(next, p) - 1
            BY <2>1, <2>2, <4>5, <6>2, CursorMoves DEF KeysTypeOK
          <6> QED BY <2>2, <4>3, <6>1, <6>3, PoolAssumption DEF AheadFrom, Keys, KeysTypeOK
        <5> QED BY <5>1, <5>2 DEF TurnsInv
      <4> QED BY <4>4, <4>5
    <3> QED BY <3>1, <3>2
  <2> QED BY <2>3, <2>4
<1>2. ASSUME NEW c \in KeyCalls, PickEarliest(c) PROVE KeyIInv'
  <2>1. PICK p \in Keys : inUse' = [inUse EXCEPT ![c] = p] /\ Overtake(p)
    BY <1>2 DEF PickEarliest
  <2>2. \A k \in Keys : bench[k] > 0
    BY <1>2 DEF PickEarliest, Available, KeysTypeOK
  <2>3. overtaken' = [k \in Keys |-> NotOvertaken]
    BY <2>1, <2>2 DEF Overtake
  <2> QED BY <1>2, <2>1, <2>3 DEF PickEarliest, KeysTypeOK, TurnsInv, NotOvertaken
<1>3. ASSUME NEW c \in KeyCalls, KeyCallEnds(c) PROVE KeyIInv'
  <2>1. KeysTypeOK'
    BY <1>3 DEF KeyCallEnds, KeysTypeOK
  <2>2. TurnsInv'
    BY <1>3 DEF KeyCallEnds, TurnsInv, Ahead
  <2> QED BY <2>1, <2>2
<1>4. ASSUME NEW c \in KeyCalls, MarkRateLimited(c) PROVE KeyIInv'
  <2>1. inUse[c] \in Keys
    BY <1>4 DEF MarkRateLimited, KeysTypeOK
  <2>2. PICK ticks \in (1..MaxBench) \cup {Cooldown} :
          /\ bench' = [bench EXCEPT ![inUse[c]] = ticks]
          /\ overtaken' = [overtaken EXCEPT ![inUse[c]] = IF ticks > 0 THEN NotOvertaken ELSE @]
    BY <1>4 DEF MarkRateLimited
  <2>3. ticks \in 0..MaxBench
    BY BenchAssumption
  <2>4. overtaken' \in [Keys -> [Keys -> Nat]]
    BY <2>1, <2>2 DEF KeysTypeOK, NotOvertaken
  <2>5. KeysTypeOK'
    BY <1>4, <2>1, <2>2, <2>3, <2>4 DEF MarkRateLimited, KeysTypeOK
  <2>6. \A k, j \in Keys : overtaken'[k][j] = overtaken[k][j] \/ overtaken'[k][j] = 0
    BY <2>1, <2>2 DEF KeysTypeOK, NotOvertaken
  <2>7. TurnsInv'
    BY <1>4, <2>6 DEF MarkRateLimited, TurnsInv, Ahead
  <2> QED BY <2>5, <2>7
<1>5. ASSUME KeyTick PROVE KeyIInv'
  <2>1. bench' \in [Keys -> 0..MaxBench]
    BY <1>5, BenchAssumption DEF KeyTick, KeysTypeOK
  <2>2. KeysTypeOK'
    BY <1>5, <2>1 DEF KeyTick, KeysTypeOK
  <2>3. TurnsInv'
    BY <1>5 DEF KeyTick, TurnsInv, Ahead
  <2> QED BY <2>2, <2>3
<1>6. CASE UNCHANGED keyVars
  BY <1>6 DEF keyVars, KeysTypeOK, TurnsInv, Ahead
<1> QED BY <1>1, <1>2, <1>3, <1>4, <1>5, <1>6 DEF KeyNext

LEMMA KeySpecInv == KeySpec => []KeyIInv
BY KeyInitInv, KeyStepInv, PTL DEF KeySpec

(* The cursor, the benches and the keys in use keep their ranges. *)
THEOREM KeysStayTyped == KeySpec => []KeysTypeOK
BY KeySpecInv, PTL DEF KeyIInv

(* Round robin is fair: no key that stands available is passed over twice for
   the same other key, whatever the size of the pool, the benches that come
   and go, and the calls that take keys together. *)
THEOREM KeysTakeTurns == KeySpec => []KeyTurns
<1>1. KeyIInv => KeyTurns
  BY DEF KeyIInv, TurnsInv, KeyTurns
<1> QED BY <1>1, KeySpecInv, PTL

-----------------------------------------------------------------------------
(***************************************************************************)
(* Session routes.  The cache is a sequence without two entries of one     *)
(* session; what a lookup or a write makes of it is known by its entries:  *)
(* those there were, but for the one of the session.                       *)
(***************************************************************************)
DistinctSessions(cache) == \A i, j \in DOMAIN cache : cache[i].session = cache[j].session => i = j

(* A cache without one of its entries. *)
LEMMA DroppedIs ==
  ASSUME NEW E, NEW cache \in Seq(E), NEW p \in 1..Len(cache), DistinctSessions(cache)
  PROVE  /\ RemoveAt(cache, p) \in Seq(E) /\ DistinctSessions(RemoveAt(cache, p))
         /\ Len(RemoveAt(cache, p)) = Len(cache) - 1
         /\ \A j \in DOMAIN RemoveAt(cache, p) :
              RemoveAt(cache, p)[j].session # cache[p].session /\ \E i \in DOMAIN cache : RemoveAt(cache, p)[j] = cache[i]
<1> DEFINE r == RemoveAt(cache, p)  n == Len(cache)
           Old(j) == IF j < p THEN j ELSE j + 1
<1>1. /\ r \in Seq(E) /\ Len(r) = n - 1
      /\ \A j \in 1..(n - 1) : r[j] = cache[Old(j)]
  BY RemoveAtIs
<1>2. n \in Nat /\ p \in 1..n /\ DOMAIN cache = 1..n
  OBVIOUS
<1>3. DOMAIN r = 1..(n - 1)
  <2> HIDE DEF r
  <2> QED BY <1>1, <1>2
<1>4. \A j \in 1..(n - 1) : Old(j) \in 1..n /\ Old(j) # p
  BY <1>2
<1>5. \A j, k \in 1..(n - 1) : Old(j) = Old(k) => j = k
  BY <1>2
<1> HIDE DEF r, n, Old
<1>6. DistinctSessions(r)
  BY <1>1, <1>2, <1>3, <1>4, <1>5 DEF DistinctSessions
<1>7. ASSUME NEW j \in DOMAIN r
      PROVE  r[j].session # cache[p].session /\ \E i \in DOMAIN cache : r[j] = cache[i]
  BY <1>1, <1>2, <1>3, <1>4 DEF DistinctSessions
<1> QED BY <1>1, <1>6, <1>7 DEF r, n

(* A cache without the entry of a session, if it has one. *)
LEMMA WithoutIs ==
  ASSUME NEW s, routes \in Seq(RouteEntry), DistinctSessions(routes)
  PROVE  /\ Without(s) \in Seq(RouteEntry) /\ DistinctSessions(Without(s))
         /\ Len(Without(s)) <= Len(routes)
         /\ \A j \in DOMAIN Without(s) : Without(s)[j].session # s /\ \E i \in DOMAIN routes : Without(s)[j] = routes[i]
         /\ s \in Residents(routes) =>
              /\ \E i \in DOMAIN routes : EntryOf(s) = routes[i] /\ routes[i].session = s
              /\ Len(Without(s)) = Len(routes) - 1
<1> DEFINE E == RouteEntry
<1>0. routes \in Seq(E)
  OBVIOUS
<1> HIDE DEF E
<1>1. CASE s \notin Residents(routes)
  BY <1>0, <1>1 DEF Without, Residents, E
<1>2. CASE s \in Residents(routes)
  <2>1. PlaceOf(s) \in DOMAIN routes /\ routes[PlaceOf(s)].session = s
    BY <1>2 DEF Residents, PlaceOf
  <2>2. PlaceOf(s) \in 1..Len(routes) /\ Len(routes) \in Nat
    BY <1>0, <2>1
  <2>3. Without(s) = RemoveAt(routes, PlaceOf(s)) /\ EntryOf(s) = routes[PlaceOf(s)]
    BY <1>2 DEF Without, EntryOf
  <2> DEFINE r == RemoveAt(routes, PlaceOf(s))
  <2>4. /\ r \in Seq(E) /\ DistinctSessions(r) /\ Len(r) = Len(routes) - 1
        /\ \A j \in DOMAIN r :
              r[j].session # routes[PlaceOf(s)].session /\ \E i \in DOMAIN routes : r[j] = routes[i]
    BY <1>0, <2>2, DroppedIs
  <2> HIDE DEF r
  <2>5. Without(s) = r
    BY <2>3 DEF r
  <2> QED BY <2>1, <2>2, <2>3, <2>4, <2>5 DEF E
<1> QED BY <1>1, <1>2

(* A lookup leaves entries there were, of as many sessions or fewer. *)
LEMMA AfterGetIs ==
  ASSUME NEW s, routes \in Seq(RouteEntry), DistinctSessions(routes)
  PROVE  /\ AfterGet(s) \in Seq(RouteEntry) /\ DistinctSessions(AfterGet(s)) /\ Len(AfterGet(s)) <= Len(routes)
         /\ \A j \in DOMAIN AfterGet(s) : \E i \in DOMAIN routes : AfterGet(s)[j] = routes[i]
<1> DEFINE E == RouteEntry  r == Without(s)
<1>0. /\ routes \in Seq(E) /\ r \in Seq(E) /\ DistinctSessions(r)
      /\ Len(r) <= Len(routes) /\ Len(routes) \in Nat
      /\ \A j \in DOMAIN r : r[j].session # s /\ \E i \in DOMAIN routes : r[j] = routes[i]
      /\ s \in Residents(routes) =>
              /\ \E i \in DOMAIN routes : EntryOf(s) = routes[i] /\ routes[i].session = s
              /\ Len(r) = Len(routes) - 1
  BY WithoutIs
<1> HIDE DEF E, r
<1>1. CASE Known(s)
  <2>1. PICK i \in DOMAIN routes : EntryOf(s) = routes[i] /\ routes[i].session = s
    BY <1>0, <1>1 DEF Known
  <2> DEFINE e == EntryOf(s)  a == Append(r, e)
  <2>2. e \in E /\ e.session = s /\ Len(r) = Len(routes) - 1
    BY <1>0, <1>1, <2>1 DEF Known
  <2> HIDE DEF e
  <2>3. /\ a \in Seq(E) /\ Len(a) = Len(r) + 1 /\ DOMAIN a = 1..(Len(r) + 1) /\ DOMAIN r = 1..Len(r) /\ Len(r) \in Nat
        /\ \A j \in 1..Len(r) : a[j] = r[j]
        /\ a[Len(r) + 1] = e
    BY <1>0, <2>2
  <2> HIDE DEF a
  <2>4. DistinctSessions(a)
    <3> SUFFICES ASSUME NEW j \in DOMAIN a, NEW k \in DOMAIN a, a[j].session = a[k].session PROVE j = k
      BY DEF DistinctSessions
    <3>1. CASE j \in 1..Len(r) /\ k \in 1..Len(r)
      BY <1>0, <2>3, <3>1 DEF DistinctSessions
    <3>2. j \in 1..Len(r) => a[j].session # s
      BY <1>0, <2>3
    <3>3. k \in 1..Len(r) => a[k].session # s
      BY <1>0, <2>3
    <3> QED BY <2>2, <2>3, <3>1, <3>2, <3>3
  <2>5. ASSUME NEW j \in DOMAIN a PROVE \E k \in DOMAIN routes : a[j] = routes[k]
    BY <1>0, <2>1, <2>3 DEF e
  <2>6. AfterGet(s) = a
    BY <1>1 DEF AfterGet, a, e, r
  <2>7. Len(a) <= Len(routes)
    BY <1>0, <2>2, <2>3
  <2> QED BY <2>3, <2>4, <2>5, <2>6, <2>7 DEF E
<1>2. CASE ~Known(s)
  <2>1. AfterGet(s) = r
    BY <1>2 DEF AfterGet, r
  <2> QED BY <1>0, <2>1 DEF E
<1> QED BY <1>1, <1>2

(* A write leaves its entry and entries of other sessions, up to the cap. *)
LEMMA AfterSetIs ==
  ASSUME NEW entry \in RouteEntry, routes \in Seq(RouteEntry), DistinctSessions(routes), Len(routes) <= MaxSessions
  PROVE  /\ AfterSet(entry) \in Seq(RouteEntry) /\ DistinctSessions(AfterSet(entry)) /\ Len(AfterSet(entry)) <= MaxSessions
         /\ \A j \in DOMAIN AfterSet(entry) :
              \/ AfterSet(entry)[j] = entry
              \/ \E i \in DOMAIN routes : AfterSet(entry)[j] = routes[i] /\ routes[i].session # entry.session
<1> DEFINE E == RouteEntry  r == Without(entry.session)  a == Append(r, entry)
<1>0. /\ routes \in Seq(E) /\ r \in Seq(E) /\ DistinctSessions(r) /\ entry \in E
      /\ Len(r) <= Len(routes) /\ Len(routes) \in Nat
      /\ \A j \in DOMAIN r : r[j].session # entry.session /\ \E i \in DOMAIN routes : r[j] = routes[i]
  BY WithoutIs
<1> HIDE DEF E, r
<1>1. /\ a \in Seq(E) /\ Len(a) = Len(r) + 1 /\ DOMAIN a = 1..(Len(r) + 1) /\ DOMAIN r = 1..Len(r) /\ Len(r) \in Nat
      /\ \A j \in 1..Len(r) : a[j] = r[j]
      /\ a[Len(r) + 1] = entry
  BY <1>0
<1>2. AfterSet(entry) = IF Len(a) > MaxSessions THEN Tail(a) ELSE a
  BY DEF AfterSet, r
<1> HIDE DEF a
<1>3. DistinctSessions(a)
  BY <1>0, <1>1 DEF DistinctSessions
<1>4. \A j \in DOMAIN a : a[j] = entry \/ \E i \in DOMAIN routes : a[j] = routes[i] /\ routes[i].session # entry.session
  BY <1>0, <1>1
<1>5. CASE ~(Len(a) > MaxSessions)
  <2>1. Len(a) <= MaxSessions
    BY <1>1, <1>5, RouteAssumption
  <2> QED BY <1>1, <1>2, <1>3, <1>4, <1>5, <2>1 DEF E
<1>6. CASE Len(a) > MaxSessions
  <2> DEFINE t == Tail(a)
  <2>1. /\ t \in Seq(E) /\ Len(t) = Len(a) - 1 /\ \A j \in 1..Len(t) : t[j] = a[j + 1]
    BY <1>1, HeadTailProperties, EmptySeq
  <2> HIDE DEF t
  <2>2. DOMAIN t = 1..Len(t) /\ Len(t) = Len(r) /\ \A j \in 1..Len(t) : j + 1 \in DOMAIN a
    BY <1>1, <2>1
  <2>3. DistinctSessions(t)
    <3> SUFFICES ASSUME NEW j \in DOMAIN t, NEW k \in DOMAIN t, t[j].session = t[k].session PROVE j = k
      BY DEF DistinctSessions
    <3>1. j + 1 \in DOMAIN a /\ k + 1 \in DOMAIN a /\ a[j + 1].session = a[k + 1].session
      BY <2>1, <2>2
    <3>2. j + 1 = k + 1
      BY <1>3, <3>1 DEF DistinctSessions
    <3> QED BY <2>2, <3>2
  <2>4. \A j \in DOMAIN t : t[j] = entry \/ \E i \in DOMAIN routes : t[j] = routes[i] /\ routes[i].session # entry.session
    BY <1>4, <2>1, <2>2
  <2>5. AfterSet(entry) = t
    BY <1>2, <1>6 DEF t
  <2>6. Len(t) <= MaxSessions
    BY <1>0, <1>1, <2>2, RouteAssumption
  <2> QED BY <2>1, <2>3, <2>4, <2>5, <2>6 DEF E
<1> QED BY <1>5, <1>6

-----------------------------------------------------------------------------

RouteShape ==
  /\ routes \in Seq(RouteEntry) /\ DistinctSessions(routes) /\ Len(routes) <= MaxSessions
  /\ turns \subseteq Turn
  /\ landed \in [Sessions -> SUBSET [turn : 1..MaxTurn, model : RouteModels]]

(* The entry holds one of the turns it was offered, and none is newer. *)
Newest(e, offers) ==
  e.left >= 0 /\ e.turn # NoTurn =>
    [turn |-> e.turn, model |-> e.model] \in offers /\ \A l \in offers : l.turn <= e.turn

RouteIInv == RouteShape /\ \A i \in DOMAIN routes : Newest(routes[i], landed[routes[i].session])

LEMMA RouteInitInv == RouteInit => RouteIInv
<1> SUFFICES ASSUME RouteInit PROVE RouteIInv
  OBVIOUS
<1>1. routes \in Seq(RouteEntry) /\ Len(routes) = 0 /\ DOMAIN routes = {}
  BY EmptySeq DEF RouteInit
<1> QED BY <1>1, RouteAssumption DEF RouteInit, RouteIInv, RouteShape, DistinctSessions

(* Only lookups of the cache: no entry changes, nothing is offered. *)
LEMMA LookupKeeps ==
  ASSUME RouteIInv, UNCHANGED landed, turns' \subseteq Turn,
         \/ UNCHANGED routes
         \/ \E s \in Sessions : routes' = AfterGet(s)
  PROVE  RouteIInv'
<1> USE DEF RouteIInv
<1>1. CASE UNCHANGED routes
  BY <1>1 DEF RouteShape, DistinctSessions, Newest
<1>2. ASSUME NEW s \in Sessions, routes' = AfterGet(s) PROVE RouteIInv'
  <2> DEFINE E == RouteEntry
  <2>1. /\ routes' \in Seq(E) /\ DistinctSessions(routes') /\ Len(routes') <= Len(routes)
        /\ \A j \in DOMAIN routes' : \E i \in DOMAIN routes : routes'[j] = routes[i]
    BY <1>2, AfterGetIs DEF RouteShape
  <2>2. routes \in Seq(E) /\ Len(routes) <= MaxSessions
    BY DEF RouteShape
  <2>3. Len(routes') <= MaxSessions
    <3> HIDE DEF E
    <3> QED BY <2>1, <2>2, RouteAssumption
  <2>4. RouteShape'
    BY <2>1, <2>3 DEF RouteShape, DistinctSessions
  <2>5. ASSUME NEW j \in DOMAIN routes' PROVE Newest(routes'[j], landed[routes'[j].session])
    BY <2>1
  <2> QED BY <2>4, <2>5 DEF Newest
<1> QED BY <1>1, <1>2

(* The recording of an answer: an older turn is dropped, a newer one replaces
   what there was, and nothing newer has been offered meanwhile. *)
LEMMA EndKeeps ==
  ASSUME RouteIInv, NEW t \in turns, EndTurn(t)
  PROVE  RouteIInv'
<1> USE DEF RouteIInv
<1> DEFINE s == t.session  E == RouteEntry
<1>1. t \in Turn /\ s \in Sessions /\ t.turn \in 0..MaxTurn
  BY DEF RouteShape, Turn, TurnNumbers, NoTurn
<1>2. PICK model \in RouteModels, warm \in BOOLEAN :
        /\ routes' = IF Outdated(s, t.turn) THEN AfterGet(s)
                     ELSE AfterSet([session |-> s, model |-> model, turn |-> t.turn, warm |-> warm, left |-> SessionTtl])
        /\ landed' = [r \in Sessions |->
              IF r = s THEN Offered(s, t.turn, model) ELSE IF r \in Residents(routes') THEN landed[r] ELSE {}]
  BY DEF EndTurn
<1>3. turns' \subseteq Turn
  BY DEF EndTurn, RouteShape
<1> DEFINE offer == [turn |-> t.turn, model |-> model]
           kept == IF Known(s) /\ EntryOf(s).turn # NoTurn THEN landed[s] ELSE {}
           new == [session |-> s, model |-> model, turn |-> t.turn, warm |-> warm, left |-> SessionTtl]
<1>4. landed'[s] = IF t.turn = NoTurn THEN {} ELSE kept \cup {offer}
  BY <1>1, <1>2 DEF Offered
<1>5. landed[s] \subseteq [turn : 1..MaxTurn, model : RouteModels]
  BY <1>1 DEF RouteShape
<1>6. landed'[s] \subseteq [turn : 1..MaxTurn, model : RouteModels]
  <2>1. t.turn # NoTurn => offer \in [turn : 1..MaxTurn, model : RouteModels]
    BY <1>1, RouteAssumption DEF NoTurn
  <2> QED BY <1>4, <1>5, <2>1
<1>7. landed' \in [Sessions -> SUBSET [turn : 1..MaxTurn, model : RouteModels]]
  <2>1. \A r \in Sessions : r # s => landed'[r] \in {landed[r], {}}
    BY <1>2
  <2>2. landed' = [r \in Sessions |-> landed'[r]]
    BY <1>2
  <2>3. \A r \in Sessions : landed'[r] \subseteq [turn : 1..MaxTurn, model : RouteModels]
    BY <1>6, <2>1 DEF RouteShape
  <2> QED BY <2>2, <2>3
<1>8. new \in RouteEntry /\ new.session = s /\ new.turn = t.turn /\ new.model = model
  BY <1>1, RouteAssumption DEF RouteEntry, TurnNumbers, NoTurn
<1>9. routes \in Seq(E) /\ DistinctSessions(routes) /\ Len(routes) <= MaxSessions /\ Len(routes) \in Nat
  BY DEF RouteShape
<1>10. \A i \in DOMAIN routes : Newest(routes[i], landed[routes[i].session]) /\ routes[i] \in RouteEntry
  <2> HIDE DEF E
  <2>1. \A i \in DOMAIN routes : routes[i] \in E
    BY <1>9
  <2> QED BY <2>1 DEF E
<1>11. Known(s) => \E i \in DOMAIN routes : EntryOf(s) = routes[i] /\ routes[i].session = s
  BY <1>9, WithoutIs DEF Known
<1>12. ASSUME NEW i \in DOMAIN routes, routes[i].session = s, Known(s) PROVE routes[i] = EntryOf(s)
  BY <1>9, <1>11, <1>12 DEF DistinctSessions
(* Another session's entry that stays in the cache keeps its offers. *)
<1>13. ASSUME NEW j \in DOMAIN routes', NEW i \in DOMAIN routes, routes'[j] = routes[i], routes[i].session # s
       PROVE  Newest(routes'[j], landed'[routes'[j].session])
  <2>1. routes[i].session \in Sessions /\ routes[i].session \in Residents(routes')
    BY <1>10, <1>13 DEF RouteEntry, Residents
  <2>2. landed'[routes[i].session] = landed[routes[i].session]
    BY <1>2, <1>13, <2>1
  <2> QED BY <1>10, <1>13, <2>2
<1>14. CASE Outdated(s, t.turn)
  <2>1. routes' = AfterGet(s)
    BY <1>2, <1>14
  <2>2. /\ routes' \in Seq(E) /\ DistinctSessions(routes') /\ Len(routes') <= Len(routes)
        /\ \A j \in DOMAIN routes' : \E i \in DOMAIN routes : routes'[j] = routes[i]
    BY <1>9, <2>1, AfterGetIs
  <2>3. Len(routes') <= MaxSessions
    <3> HIDE DEF E
    <3> QED BY <1>9, <2>2, RouteAssumption
  <2>4. RouteShape'
    BY <1>3, <1>7, <2>2, <2>3 DEF RouteShape, DistinctSessions
  <2>5. Known(s) /\ EntryOf(s).turn # NoTurn /\ t.turn # NoTurn /\ t.turn < EntryOf(s).turn
    BY <1>14 DEF Outdated
  <2>6. landed'[s] = landed[s] \cup {offer} /\ offer.turn = t.turn
    BY <1>4, <2>5
  <2>7. ASSUME NEW j \in DOMAIN routes' PROVE Newest(routes'[j], landed'[routes'[j].session])
    <3>1. PICK i \in DOMAIN routes : routes'[j] = routes[i]
      BY <2>2
    <3>2. CASE routes[i].session = s
      <4>1. routes[i] = EntryOf(s) /\ Newest(routes[i], landed[s]) /\ routes[i].turn \in Int
        BY <1>10, <1>12, <2>5, <3>2, RouteAssumption DEF RouteEntry, TurnNumbers, NoTurn
      <4> HIDE DEF offer
      <4>2. Newest(routes[i], landed[s] \cup {offer})
        BY <4>1, <1>1, <2>5, <2>6 DEF Newest
      <4> QED BY <2>6, <3>1, <3>2, <4>2
    <3>3. CASE routes[i].session # s
      BY <1>13, <3>1, <3>3
    <3> QED BY <3>2, <3>3
  <2> QED BY <2>4, <2>7 DEF Newest
<1>15. CASE ~Outdated(s, t.turn)
  <2>1. routes' = AfterSet(new)
    BY <1>2, <1>15
  <2> HIDE DEF new
  <2>2. /\ routes' \in Seq(E) /\ DistinctSessions(routes') /\ Len(routes') <= MaxSessions
        /\ \A j \in DOMAIN routes' : \/ routes'[j] = new
                                     \/ \E i \in DOMAIN routes : routes'[j] = routes[i] /\ routes[i].session # s
    BY <1>8, <1>9, <2>1, AfterSetIs
  <2>3. RouteShape'
    BY <1>3, <1>7, <2>2 DEF RouteShape, DistinctSessions
  <2>4. Newest(new, landed'[s])
    <3> SUFFICES ASSUME t.turn # NoTurn PROVE offer \in landed'[s] /\ \A l \in landed'[s] : l.turn <= t.turn
      BY <1>8 DEF Newest
    <3>1. landed'[s] = kept \cup {offer} /\ offer.turn = t.turn
      BY <1>4
    <3>2. ASSUME NEW l \in kept PROVE l.turn <= t.turn
      <4>1. Known(s) /\ EntryOf(s).turn # NoTurn /\ l \in landed[s]
        BY <3>2
      <4>2. PICK i \in DOMAIN routes : EntryOf(s) = routes[i] /\ routes[i].session = s
        BY <1>11, <4>1
      <4>3. EntryOf(s).left >= 0
        BY <4>1 DEF Known
      <4>4. l.turn <= EntryOf(s).turn
        BY <1>10, <4>1, <4>2, <4>3 DEF Newest
      <4>5. ~(t.turn < EntryOf(s).turn)
        BY <1>15, <4>1 DEF Outdated
      <4>6. EntryOf(s).turn \in Int /\ l.turn \in Int /\ t.turn \in Int
        BY <1>1, <1>5, <1>10, <4>1, <4>2, RouteAssumption DEF RouteEntry, TurnNumbers, NoTurn
      <4> QED BY <4>4, <4>5, <4>6
    <3> HIDE DEF offer, kept
    <3> QED BY <1>1, <3>1, <3>2
  <2>5. ASSUME NEW j \in DOMAIN routes' PROVE Newest(routes'[j], landed'[routes'[j].session])
    <3>1. CASE routes'[j] = new
      BY <1>8, <2>4, <3>1
    <3>2. CASE routes'[j] # new
      BY <1>13, <2>2, <3>2
    <3> QED BY <3>1, <3>2
  <2> QED BY <2>3, <2>5 DEF Newest
<1> QED BY <1>14, <1>15

(* Time passes, and entries only fade. *)
LEMMA RouteTickKeeps ==
  ASSUME RouteIInv, RouteTick
  PROVE  RouteIInv'
<1> USE DEF RouteIInv
<1> DEFINE E == RouteEntry
<1>1. routes \in Seq(E) /\ Len(routes) <= MaxSessions
  BY DEF RouteShape
<1>2. routes' = [i \in DOMAIN routes |-> Aging(routes[i])] /\ UNCHANGED <<turns, landed>>
  BY DEF RouteTick
<1>3. ASSUME NEW e \in RouteEntry
      PROVE  /\ Aging(e) \in RouteEntry /\ Aging(e).session = e.session /\ Aging(e).turn = e.turn
             /\ Aging(e).model = e.model /\ (Aging(e).left >= 0 => e.left >= 0)
  <2>1. e.left \in -1..SessionTtl
    BY DEF RouteEntry
  <2>2. e.left >= 0 => e.left - 1 \in -1..SessionTtl
    BY <2>1, RouteAssumption
  <2> QED BY <2>1, <2>2 DEF Aging, RouteEntry
<1>4. /\ DOMAIN routes' = DOMAIN routes /\ \A i \in DOMAIN routes : routes[i] \in E /\ routes'[i] = Aging(routes[i])
  <2> HIDE DEF E
  <2> QED BY <1>1, <1>2
<1>5. routes' \in Seq(E) /\ Len(routes') = Len(routes)
  <2>1. \A i \in DOMAIN routes : Aging(routes[i]) \in E
    BY <1>3, <1>4
  <2> HIDE DEF E
  <2> QED BY <1>1, <1>2, <2>1
<1>6. DistinctSessions(routes)'
  BY <1>3, <1>4 DEF RouteShape, DistinctSessions
<1>7. RouteShape'
  BY <1>1, <1>2, <1>5, <1>6 DEF RouteShape
<1>8. ASSUME NEW i \in DOMAIN routes' PROVE Newest(routes'[i], landed'[routes'[i].session])
  BY <1>2, <1>3, <1>4 DEF Newest
<1> QED BY <1>7, <1>8 DEF Newest

LEMMA RouteStepInv == RouteIInv /\ [RouteNext]_routeVars => RouteIInv'
<1> SUFFICES ASSUME RouteIInv, [RouteNext]_routeVars PROVE RouteIInv'
  OBVIOUS
<1>1. ASSUME NEW s \in Sessions, NEW turn \in TurnNumbers, RouteTurn(s, turn) PROVE RouteIInv'
  <2>1. turns \subseteq Turn
    BY DEF RouteIInv, RouteShape
  <2>2. \A m \in RouteModels : [session |-> s, turn |-> turn, model |-> m] \in Turn
    BY DEF Turn
  <2>3. PICK candidate \in RouteModels :
          \E model \in {candidate} \cup (IF MayStay(s, candidate) THEN {EntryOf(s).model} ELSE {}) :
            turns' = turns \cup {[session |-> s, turn |-> turn, model |-> model]}
    BY <1>1 DEF RouteTurn
  <2>4. MayStay(s, candidate) => EntryOf(s).model \in RouteModels
    <3> DEFINE E == RouteEntry
    <3>1. routes \in Seq(E) /\ DistinctSessions(routes)
      BY DEF RouteIInv, RouteShape
    <3>2. Known(s) => \E i \in DOMAIN routes : EntryOf(s) = routes[i]
      BY <3>1, WithoutIs DEF Known
    <3>3. \A i \in DOMAIN routes : routes[i] \in E
      <4> HIDE DEF E
      <4> QED BY <3>1
    <3> QED BY <3>2, <3>3 DEF MayStay, RouteEntry
  <2>5. turns' \subseteq Turn
    BY <2>1, <2>2, <2>3, <2>4
  <2> QED BY <1>1, <2>5, LookupKeeps DEF RouteTurn
<1>2. ASSUME NEW s \in Sessions, NEW turn \in TurnNumbers, PinTurn(s, turn) PROVE RouteIInv'
  <2>1. turns' \subseteq Turn
    BY <1>2 DEF PinTurn, Turn, RouteIInv, RouteShape
  <2> QED BY <1>2, <2>1, LookupKeeps DEF PinTurn
<1>3. ASSUME NEW t \in turns, EndTurn(t) PROVE RouteIInv'
  BY <1>3, EndKeeps
<1>4. ASSUME NEW t \in turns, DropTurn(t) PROVE RouteIInv'
  <2>1. turns' \subseteq Turn
    BY <1>4 DEF DropTurn, RouteIInv, RouteShape
  <2> QED BY <1>4, <2>1, LookupKeeps DEF DropTurn
<1>5. CASE RouteTick
  BY <1>5, RouteTickKeeps
<1>6. CASE UNCHANGED routeVars
  <2>1. turns' \subseteq Turn /\ UNCHANGED <<routes, landed>>
    BY <1>6 DEF routeVars, RouteIInv, RouteShape
  <2> QED BY <2>1, LookupKeeps
<1> QED BY <1>1, <1>2, <1>3, <1>4, <1>5, <1>6 DEF RouteNext

LEMMA RouteSpecInv == RouteSpec => []RouteIInv
BY RouteInitInv, RouteStepInv, PTL DEF RouteSpec

(* One entry a session, up to the cap. *)
THEOREM RoutesTyped == RouteSpec => []RoutesTypeOK
<1>1. RouteIInv => RoutesTypeOK
  <2> SUFFICES ASSUME RouteIInv PROVE RoutesTypeOK
    OBVIOUS
  <2> DEFINE n == Len(routes)  f == [i \in 1..n |-> routes[i].session]  E == RouteEntry
  <2>1. routes \in Seq(E) /\ DistinctSessions(routes)
    BY DEF RouteIInv, RouteShape
  <2>2. n \in Nat /\ DOMAIN routes = 1..n
    <3> HIDE DEF E
    <3> QED BY <2>1
  <2>3. \A i, j \in 1..n : f[i] = f[j] => i = j
    BY <2>1, <2>2 DEF DistinctSessions
  <2>4. Residents(routes) = {f[i] : i \in 1..n}
    BY <2>2 DEF Residents
  <2>5. Cardinality({f[i] : i \in 1..n}) = n
    <3> HIDE DEF f, n
    <3> QED BY <2>2, <2>3, DistinctCount
  <2>6. Cardinality(Residents(routes)) = Len(routes)
    <3> HIDE DEF f, n, E
    <3>1. Cardinality(Residents(routes)) = n
      BY <2>4, <2>5
    <3> QED BY <3>1 DEF n
  <2> QED BY <2>6 DEF RouteIInv, RouteShape, RoutesTypeOK
<1> QED BY <1>1, RouteSpecInv, PTL

(* A late older turn never replaces a newer one, for any number of sessions and
   of parallel turns, any cap on the cache and any expiry. *)
THEOREM NewestTurnIsKept == RouteSpec => []NewestTurnKept
<1>1. RouteIInv => NewestTurnKept
  BY DEF RouteIInv, Newest, NewestTurnKept
<1> QED BY <1>1, RouteSpecInv, PTL

-----------------------------------------------------------------------------
(***************************************************************************)
(* The prompt cache.  What a filter keeps and what a series of gets leaves *)
(* is known by induction on the prefix that was done.                      *)
(***************************************************************************)
KeptSoFar(h, ks, K, n) ==
  h = [i \in 0..n |-> IF i = 0 THEN <<>> ELSE IF ks[i] \in K THEN Append(h[i - 1], ks[i]) ELSE h[i - 1]]

(* The recursion of Only has a solution on every prefix. *)
LEMMA KeptExists ==
  ASSUME NEW K, NEW ks, NEW n \in Nat
  PROVE  \E h : KeptSoFar(h, ks, K, n)
<1> DEFINE P == {m \in Nat : \E h : KeptSoFar(h, ks, K, m)}
<1>1. 0 \in P
  <2> DEFINE h == [i \in 0..0 |-> <<>>]
  <2>1. KeptSoFar(h, ks, K, 0)
    BY DEF KeptSoFar
  <2> QED BY <2>1
<1>2. ASSUME NEW m \in Nat, m \in P PROVE m + 1 \in P
  <2>1. PICK h : KeptSoFar(h, ks, K, m)
    BY <1>2
  <2> DEFINE last == IF ks[m + 1] \in K THEN Append(h[m], ks[m + 1]) ELSE h[m]
             g == [i \in 0..(m + 1) |-> IF i <= m THEN h[i] ELSE last]
  <2>2. g[m + 1] = last /\ \A i \in 0..m : g[i] = h[i]
    OBVIOUS
  <2> HIDE DEF last
  <2>3. ASSUME NEW i \in 0..(m + 1)
        PROVE  g[i] = IF i = 0 THEN <<>> ELSE IF ks[i] \in K THEN Append(g[i - 1], ks[i]) ELSE g[i - 1]
    <3>1. CASE i <= m
      <4>1. i \in 0..m /\ (i # 0 => i - 1 \in 0..m)
        BY <3>1
      <4>2. h[i] = IF i = 0 THEN <<>> ELSE IF ks[i] \in K THEN Append(h[i - 1], ks[i]) ELSE h[i - 1]
        BY <2>1, <4>1 DEF KeptSoFar
      <4> HIDE DEF g
      <4> QED BY <2>2, <4>1, <4>2
    <3>2. CASE i = m + 1
      <4>1. g[i] = last /\ i # 0 /\ i - 1 = m /\ g[m] = h[m]
        BY <2>2, <3>2
      <4> HIDE DEF g
      <4> QED BY <3>2, <4>1 DEF last
    <3> QED BY <3>1, <3>2
  <2>4. KeptSoFar(g, ks, K, m + 1)
    <3>1. g = [i \in 0..(m + 1) |-> g[i]]
      OBVIOUS
    <3> HIDE DEF g
    <3> QED BY <2>3, <3>1 DEF KeptSoFar
  <2> QED BY <2>4
<1>3. Nat \subseteq P
  <2> HIDE DEF P
  <2> QED BY <1>1, <1>2, NatInductionSet
<1> QED BY <1>3

(* A filtered sequence has elements of the set only, and no more of them. *)
LEMMA OnlyIs ==
  ASSUME NEW S, NEW ks \in Seq(S), NEW K
  PROVE  Only(ks, K) \in Seq(S \cap K) /\ Len(Only(ks, K)) <= Len(ks)
<1> DEFINE h == CHOOSE f : KeptSoFar(f, ks, K, Len(ks))
           T == S \cap K
           P == {m \in Nat : m <= Len(ks) => h[m] \in Seq(T) /\ Len(h[m]) <= m}
<1>0. Len(ks) \in Nat /\ \A i \in 1..Len(ks) : ks[i] \in S
  OBVIOUS
<1>1. Only(ks, K) = h[Len(ks)]
  BY DEF Only, KeptSoFar
<1>2. KeptSoFar(h, ks, K, Len(ks))
  BY <1>0, KeptExists
<1>3. /\ h[0] = <<>>
      /\ \A i \in 1..Len(ks) : h[i] = IF ks[i] \in K THEN Append(h[i - 1], ks[i]) ELSE h[i - 1]
  <2> HIDE DEF h
  <2>1. h = [i \in 0..Len(ks) |-> IF i = 0 THEN <<>> ELSE IF ks[i] \in K THEN Append(h[i - 1], ks[i]) ELSE h[i - 1]]
    BY <1>2 DEF KeptSoFar
  <2>2. \A i \in 0..Len(ks) : h[i] = IF i = 0 THEN <<>> ELSE IF ks[i] \in K THEN Append(h[i - 1], ks[i]) ELSE h[i - 1]
    BY <2>1
  <2>3. 0 \in 0..Len(ks) /\ \A i \in 1..Len(ks) : i \in 0..Len(ks) /\ i # 0
    BY <1>0
  <2>4. h[0] = <<>>
    BY <2>2, <2>3
  <2>5. ASSUME NEW i \in 1..Len(ks) PROVE h[i] = IF ks[i] \in K THEN Append(h[i - 1], ks[i]) ELSE h[i - 1]
    BY <2>2, <2>3
  <2> QED BY <2>4, <2>5
<1> HIDE DEF h, T
<1>4. 0 \in P
  <2>1. <<>> \in Seq(T) /\ Len(<<>>) = 0
    BY EmptySeq
  <2>2. h[0] = <<>>
    BY <1>3
  <2>3. h[0] \in Seq(T) /\ Len(h[0]) <= 0
    BY <2>1, <2>2
  <2> QED BY <2>3
<1>5. ASSUME NEW m \in Nat, m \in P PROVE m + 1 \in P
  <2> SUFFICES ASSUME m + 1 <= Len(ks) PROVE h[m + 1] \in Seq(T) /\ Len(h[m + 1]) <= m + 1
    OBVIOUS
  <2>1. h[m] \in Seq(T) /\ Len(h[m]) <= m
    BY <1>0, <1>5
  <2>2. m + 1 \in 1..Len(ks) /\ (m + 1) - 1 = m
    BY <1>0
  <2>3. h[m + 1] = IF ks[m + 1] \in K THEN Append(h[m], ks[m + 1]) ELSE h[m]
    BY <1>3, <2>2
  <2>4. ks[m + 1] \in K => ks[m + 1] \in T
    BY <1>0, <2>2 DEF T
  <2> QED BY <2>1, <2>3, <2>4
<1>6. Nat \subseteq P
  <2> HIDE DEF P
  <2> QED BY <1>4, <1>5, NatInductionSet
<1> QED BY <1>0, <1>1, <1>6 DEF T

-----------------------------------------------------------------------------

Answers == [key : CacheKeys, left : -1..CacheTtl, embedded : BOOLEAN]
OneAKey(s) == \A i, j \in DOMAIN s : s[i].key = s[j].key => i = j
SoundStore(s) == s \in Seq(Answers) /\ OneAKey(s)

(* Taking an entry out leaves no other of its key. *)
LEMMA RemovedIs ==
  ASSUME NEW E, NEW s \in Seq(E), NEW p \in 1..Len(s), OneAKey(s)
  PROVE  /\ RemoveAt(s, p) \in Seq(E) /\ OneAKey(RemoveAt(s, p)) /\ Len(RemoveAt(s, p)) = Len(s) - 1
         /\ \A j \in DOMAIN RemoveAt(s, p) : RemoveAt(s, p)[j].key # s[p].key
<1> DEFINE r == RemoveAt(s, p)  n == Len(s)
           Old(j) == IF j < p THEN j ELSE j + 1
<1>1. /\ r \in Seq(E) /\ Len(r) = n - 1
      /\ \A j \in 1..(n - 1) : r[j] = s[Old(j)]
  BY RemoveAtIs
<1>2. n \in Nat /\ p \in 1..n /\ DOMAIN s = 1..n
  OBVIOUS
<1>3. DOMAIN r = 1..(n - 1)
  <2> HIDE DEF r
  <2> QED BY <1>1, <1>2
<1>4. \A j \in 1..(n - 1) : Old(j) \in 1..n /\ Old(j) # p
  BY <1>2
<1>5. \A j, k \in 1..(n - 1) : Old(j) = Old(k) => j = k
  BY <1>2
<1> HIDE DEF r, n, Old
<1>6. OneAKey(r)
  BY <1>1, <1>2, <1>3, <1>4, <1>5 DEF OneAKey
<1>7. \A j \in DOMAIN r : r[j].key # s[p].key
  BY <1>1, <1>2, <1>3, <1>4 DEF OneAKey
<1> QED BY <1>1, <1>6, <1>7 DEF r, n

(* The entries of the other keys. *)
LEMMA OthersIs ==
  ASSUME NEW s, SoundStore(s), NEW k
  PROVE  /\ SoundStore(Others(s, k)) /\ Len(Others(s, k)) <= Len(s)
         /\ \A j \in DOMAIN Others(s, k) : Others(s, k)[j].key # k
         /\ k \in Keyed(s) => /\ Len(Others(s, k)) = Len(s) - 1
                              /\ s[Slot(s, k)] \in Answers /\ s[Slot(s, k)].key = k
<1> DEFINE E == Answers
<1>0. s \in Seq(E) /\ Len(s) \in Nat /\ DOMAIN s = 1..Len(s) /\ (\A i \in 1..Len(s) : s[i] \in E) /\ OneAKey(s)
  <2>1. s \in Seq(E) /\ OneAKey(s)
    BY DEF SoundStore
  <2> HIDE DEF E
  <2> QED BY <2>1
<1> HIDE DEF E
<1>1. CASE k \notin Keyed(s)
  <2>1. Others(s, k) = s
    BY <1>1 DEF Others
  <2>2. \A j \in DOMAIN s : s[j].key # k
    BY <1>1 DEF Keyed
  <2>3. Len(s) <= Len(s)
    BY <1>0
  <2> QED BY <1>1, <2>1, <2>2, <2>3
<1>2. CASE k \in Keyed(s)
  <2>1. PICK p \in 1..Len(s) : p = Slot(s, k) /\ s[p].key = k
    BY <1>0, <1>2 DEF Keyed, Slot
  <2> DEFINE r == RemoveAt(s, p)
  <2>a. s \in Seq(E)
    BY <1>0
  <2>b. OneAKey(s)
    BY <1>0
  <2>2. /\ r \in Seq(E) /\ OneAKey(r) /\ Len(r) = Len(s) - 1
        /\ \A j \in DOMAIN r : r[j].key # s[p].key
    BY <2>a, <2>b, RemovedIs
  <2>3. Others(s, k) = r
    BY <1>2, <2>1 DEF Others
  <2> HIDE DEF r
  <2>4. SoundStore(r)
    BY <2>2 DEF SoundStore, E
  <2>5. s[Slot(s, k)] \in Answers
    BY <1>0, <2>1 DEF E
  <2>6. Len(r) <= Len(s)
    BY <1>0, <2>2
  <2> QED BY <2>1, <2>2, <2>3, <2>4, <2>5, <2>6
<1> QED BY <1>1, <1>2

(* Another entry at the end, of a key the others do not have. *)
LEMMA AppendedIs ==
  ASSUME NEW r, SoundStore(r), NEW e \in Answers, \A j \in DOMAIN r : r[j].key # e.key
  PROVE  SoundStore(Append(r, e)) /\ Len(Append(r, e)) = Len(r) + 1 /\ Len(r) \in Nat
<1> DEFINE E == Answers  a == Append(r, e)
<1>0. r \in Seq(E) /\ e \in E
  BY DEF SoundStore
<1> HIDE DEF E
<1>1. /\ a \in Seq(E) /\ Len(a) = Len(r) + 1 /\ DOMAIN a = 1..(Len(r) + 1) /\ DOMAIN r = 1..Len(r) /\ Len(r) \in Nat
      /\ \A j \in 1..Len(r) : a[j] = r[j]
      /\ a[Len(r) + 1] = e
  BY <1>0
<1> HIDE DEF a
<1>2. OneAKey(a)
  <2> SUFFICES ASSUME NEW j \in DOMAIN a, NEW k \in DOMAIN a, a[j].key = a[k].key PROVE j = k
    BY DEF OneAKey
  <2>1. CASE j \in 1..Len(r) /\ k \in 1..Len(r)
    BY <1>1, <2>1 DEF OneAKey, SoundStore
  <2>2. j \in 1..Len(r) => a[j].key # e.key
    BY <1>1
  <2>3. k \in 1..Len(r) => a[k].key # e.key
    BY <1>1
  <2> QED BY <1>1, <2>1, <2>2, <2>3
<1> QED BY <1>1, <1>2 DEF SoundStore, E, a

(* A lookup, whether it hits, misses or finds a dead entry, adds none. *)
LEMMA GetIs ==
  ASSUME NEW s, SoundStore(s), NEW k
  PROVE  SoundStore(Get(s, k)) /\ Len(Get(s, k)) <= Len(s) /\ Len(Get(s, k)) \in Nat
<1> DEFINE r == Others(s, k)  e == s[Slot(s, k)]
<1>0. Len(s) \in Nat
  BY DEF SoundStore
<1>1. SoundStore(r) /\ Len(r) <= Len(s) /\ \A j \in DOMAIN r : r[j].key # k
  BY OthersIs
<1>2. Len(r) \in Nat
  <2> HIDE DEF r
  <2> QED BY <1>1 DEF SoundStore
<1>3. CASE Has(s, k)
  <2>1. k \in Keyed(s)
    BY <1>3 DEF Has, Keyed
  <2>2. Len(r) = Len(s) - 1 /\ e \in Answers /\ e.key = k
    BY <2>1, OthersIs
  <2>3. Get(s, k) = Append(r, e)
    BY <1>3 DEF Get
  <2> HIDE DEF r, e
  <2>4. SoundStore(Append(r, e)) /\ Len(Append(r, e)) = Len(r) + 1
    BY <1>1, <2>2, AppendedIs
  <2> QED BY <1>0, <1>2, <2>2, <2>3, <2>4
<1>4. CASE ~Has(s, k)
  BY <1>1, <1>2, <1>4 DEF Get
<1> QED BY <1>3, <1>4

(* A write evicts as many as the cap asks for. *)
LEMMA SetIs ==
  ASSUME NEW s, SoundStore(s), Len(s) <= MaxEntries, NEW e \in Answers
  PROVE  SoundStore(Set(s, e)) /\ Len(Set(s, e)) <= MaxEntries /\ Len(Set(s, e)) \in Nat
<1> DEFINE r == Others(s, e.key)  a == Append(r, e)  t == Tail(a)
<1>0. Len(s) \in Nat
  BY DEF SoundStore
<1>1. SoundStore(r) /\ Len(r) <= Len(s) /\ \A j \in DOMAIN r : r[j].key # e.key
  BY OthersIs
<1>2. Set(s, e) = IF Len(a) > MaxEntries THEN t ELSE a
  BY DEF Set
<1> HIDE DEF r
<1>3. SoundStore(a) /\ Len(a) = Len(r) + 1 /\ Len(r) \in Nat
  BY <1>1, AppendedIs
<1> HIDE DEF a
<1>4. CASE ~(Len(a) > MaxEntries)
  BY <1>2, <1>3, <1>4, CacheAssumption
<1>5. CASE Len(a) > MaxEntries
  <2> DEFINE E == Answers
  <2>1. a \in Seq(E) /\ OneAKey(a) /\ a # <<>>
    BY <1>3, EmptySeq DEF SoundStore
  <2> HIDE DEF E
  <2>2. t \in Seq(E) /\ Len(t) = Len(a) - 1 /\ \A j \in 1..Len(t) : t[j] = a[j + 1]
    BY <2>1, HeadTailProperties
  <2> HIDE DEF t
  <2>3. DOMAIN t = 1..Len(t) /\ Len(t) = Len(r) /\ \A j \in 1..Len(t) : j + 1 \in DOMAIN a
    BY <1>3, <2>1, <2>2
  <2>4. OneAKey(t)
    <3> SUFFICES ASSUME NEW j \in DOMAIN t, NEW k \in DOMAIN t, t[j].key = t[k].key PROVE j = k
      BY DEF OneAKey
    <3>1. j + 1 \in DOMAIN a /\ k + 1 \in DOMAIN a /\ a[j + 1].key = a[k + 1].key
      BY <2>2, <2>3
    <3>2. j + 1 = k + 1
      BY <2>1, <3>1 DEF OneAKey
    <3> QED BY <1>3, <2>3, <3>2
  <2>5. SoundStore(t)
    BY <2>2, <2>4 DEF SoundStore, E
  <2> QED BY <1>0, <1>1, <1>2, <1>3, <1>5, <2>3, <2>5, CacheAssumption
<1> QED BY <1>4, <1>5

TouchedSoFar(h, s, ks, n) == h = [i \in 0..n |-> IF i = 0 THEN s ELSE Get(h[i - 1], ks[i])]

(* The recursion of Touched has a solution on every prefix. *)
LEMMA TouchedExists ==
  ASSUME NEW s, NEW ks, NEW n \in Nat
  PROVE  \E h : TouchedSoFar(h, s, ks, n)
<1> DEFINE P == {m \in Nat : \E h : TouchedSoFar(h, s, ks, m)}
<1>1. 0 \in P
  <2> DEFINE h == [i \in 0..0 |-> s]
  <2>1. TouchedSoFar(h, s, ks, 0)
    BY DEF TouchedSoFar
  <2> QED BY <2>1
<1>2. ASSUME NEW m \in Nat, m \in P PROVE m + 1 \in P
  <2>1. PICK h : TouchedSoFar(h, s, ks, m)
    BY <1>2
  <2> DEFINE last == Get(h[m], ks[m + 1])
             g == [i \in 0..(m + 1) |-> IF i <= m THEN h[i] ELSE last]
  <2>2. g[m + 1] = last /\ \A i \in 0..m : g[i] = h[i]
    <3> HIDE DEF last
    <3> QED OBVIOUS
  <2> HIDE DEF last
  <2>3. ASSUME NEW i \in 0..(m + 1)
        PROVE  g[i] = IF i = 0 THEN s ELSE Get(g[i - 1], ks[i])
    <3>1. CASE i <= m
      <4>1. i \in 0..m /\ (i # 0 => i - 1 \in 0..m)
        BY <3>1
      <4>2. h[i] = IF i = 0 THEN s ELSE Get(h[i - 1], ks[i])
        BY <2>1, <4>1 DEF TouchedSoFar
      <4> HIDE DEF g
      <4> QED BY <2>2, <4>1, <4>2
    <3>2. CASE i = m + 1
      <4>1. g[i] = last /\ i # 0 /\ i - 1 = m /\ g[m] = h[m]
        BY <2>2, <3>2
      <4> HIDE DEF g
      <4> QED BY <3>2, <4>1 DEF last
    <3> QED BY <3>1, <3>2
  <2>4. TouchedSoFar(g, s, ks, m + 1)
    <3>1. g = [i \in 0..(m + 1) |-> g[i]]
      OBVIOUS
    <3> HIDE DEF g
    <3> QED BY <2>3, <3>1 DEF TouchedSoFar
  <2> QED BY <2>4
<1>3. Nat \subseteq P
  <2> HIDE DEF P
  <2> QED BY <1>1, <1>2, NatInductionSet
<1> QED BY <1>3

(* A series of lookups adds no entry. *)
LEMMA TouchedIs ==
  ASSUME NEW S, NEW ks \in Seq(S), NEW s, SoundStore(s)
  PROVE  SoundStore(Touched(s, ks)) /\ Len(Touched(s, ks)) <= Len(s)
<1> DEFINE h == CHOOSE f : TouchedSoFar(f, s, ks, Len(ks))
           P == {m \in Nat : m <= Len(ks) => SoundStore(h[m]) /\ Len(h[m]) <= Len(s)}
<1>0. Len(ks) \in Nat /\ Len(s) \in Nat
  BY DEF SoundStore
<1>1. Touched(s, ks) = h[Len(ks)]
  BY DEF Touched, TouchedSoFar
<1>2. TouchedSoFar(h, s, ks, Len(ks))
  BY <1>0, TouchedExists
<1> HIDE DEF h
<1>3. \A i \in 0..Len(ks) : h[i] = IF i = 0 THEN s ELSE Get(h[i - 1], ks[i])
  <2>1. h = [i \in 0..Len(ks) |-> IF i = 0 THEN s ELSE Get(h[i - 1], ks[i])]
    BY <1>2 DEF TouchedSoFar
  <2> QED BY <2>1
<1>4. 0 \in P
  BY <1>0, <1>3
<1>5. ASSUME NEW m \in Nat, m \in P PROVE m + 1 \in P
  <2> SUFFICES ASSUME m + 1 <= Len(ks) PROVE SoundStore(h[m + 1]) /\ Len(h[m + 1]) <= Len(s)
    OBVIOUS
  <2>1. SoundStore(h[m]) /\ Len(h[m]) <= Len(s)
    BY <1>0, <1>5
  <2>2. m + 1 \in 0..Len(ks) /\ (m + 1) - 1 = m /\ m + 1 # 0
    BY <1>0
  <2>3. h[m + 1] = Get(h[m], ks[m + 1])
    BY <1>3, <2>2
  <2>4. SoundStore(h[m + 1]) /\ Len(h[m + 1]) <= Len(h[m]) /\ Len(h[m + 1]) \in Nat
    BY <2>1, <2>3, GetIs
  <2>5. Len(h[m]) \in Nat
    BY <2>1 DEF SoundStore
  <2> QED BY <1>0, <2>1, <2>4, <2>5
<1>6. Nat \subseteq P
  <2> HIDE DEF P
  <2> QED BY <1>4, <1>5, NatInductionSet
<1> QED BY <1>0, <1>1, <1>6

-----------------------------------------------------------------------------

(* A request under way asks for a key, and what it may be served, or was, is
   of the project of that key. *)
SoundCall(r) ==
  /\ r \in [at : {"idle", "served", "comparing", "upstream"}, key : CacheKeys \cup {Nothing},
            candidates : SUBSET CacheKeys, served : CacheKeys \cup {Nothing}]
  /\ r.at # "idle" => r.key \in CacheKeys
  /\ \A k \in r.candidates : k.project = r.key.project
  /\ r.at = "served" => r.served.project = r.key.project

CacheIInv ==
  /\ SoundStore(store) /\ Len(store) <= MaxEntries
  /\ index \in Seq(CacheKeys) /\ Len(index) <= MaxEntries
  /\ DOMAIN call = CacheCalls /\ call = [c \in CacheCalls |-> call[c]]
  /\ \A c \in CacheCalls : SoundCall(call[c])

LEMMA CacheInitIInv == CacheInit => CacheIInv
<1> SUFFICES ASSUME CacheInit PROVE CacheIInv
  OBVIOUS
<1> DEFINE E == Answers
<1>1. store \in Seq(E) /\ Len(store) = 0
  <2> HIDE DEF E
  <2> QED BY EmptySeq DEF CacheInit
<1>2. OneAKey(store)
  BY DEF CacheInit, OneAKey
<1>3. index \in Seq(CacheKeys) /\ Len(index) = 0
  BY EmptySeq DEF CacheInit
<1>4. call = [c \in CacheCalls |-> NoCall]
  BY DEF CacheInit
<1>5. SoundCall(NoCall)
  BY DEF SoundCall, NoCall
<1>6. DOMAIN call = CacheCalls /\ call = [c \in CacheCalls |-> call[c]] /\ \A c \in CacheCalls : SoundCall(call[c])
  BY <1>4, <1>5
<1>7. SoundStore(store)
  BY <1>1, <1>2 DEF SoundStore
<1> HIDE DEF E
<1> QED BY <1>1, <1>3, <1>6, <1>7, CacheAssumption DEF CacheIInv

(* A step that changes one call only. *)
LEMMA OneCallSound ==
  ASSUME CacheIInv, NEW c \in CacheCalls, NEW r, SoundCall(r), call' = [call EXCEPT ![c] = r]
  PROVE  /\ DOMAIN call' = CacheCalls /\ call' = [x \in CacheCalls |-> call'[x]]
         /\ \A x \in CacheCalls : SoundCall(call'[x])
<1>1. DOMAIN call = CacheCalls /\ call = [x \in CacheCalls |-> call[x]] /\ \A x \in CacheCalls : SoundCall(call[x])
  BY DEF CacheIInv
<1>2. DOMAIN call' = CacheCalls /\ \A x \in CacheCalls : call'[x] = IF x = c THEN r ELSE call[x]
  BY <1>1
<1>3. call' = [x \in CacheCalls |-> call'[x]]
  BY <1>1
<1> QED BY <1>1, <1>2, <1>3

(* What the invariant says of the answers and the index. *)
LEMMA StoreSound ==
  ASSUME CacheIInv
  PROVE  /\ SoundStore(store) /\ Len(store) \in Nat /\ Len(store) <= MaxEntries
         /\ index \in Seq(CacheKeys) /\ Len(index) \in Nat /\ Len(index) <= MaxEntries
BY DEF CacheIInv, SoundStore

(* A request searches the index for prompts of its own project only. *)
LEMMA MineIs ==
  ASSUME CacheIInv, NEW key
  PROVE  Mine(key) \in Seq({k \in CacheKeys : k.project = key.project})
<1> DEFINE K == {k \in CacheKeys : k.project = key.project}
<1>1. index \in Seq(CacheKeys) /\ CacheKeys \cap K = K
  BY StoreSound
<1>2. Mine(key) = Only(index, K)
  BY DEF Mine
<1> HIDE DEF K
<1>3. Only(index, K) \in Seq(CacheKeys \cap K)
  BY <1>1, OnlyIs
<1>4. Mine(key) \in Seq(K)
  BY <1>1, <1>2, <1>3
<1> QED BY <1>4 DEF K

(* One lookup, from the answers there are. *)
LEMMA GetSound ==
  ASSUME CacheIInv, NEW k
  PROVE  SoundStore(Get(store, k)) /\ Len(Get(store, k)) <= MaxEntries
<1> DEFINE g == Get(store, k)
<1>1. SoundStore(g) /\ Len(g) <= Len(store) /\ Len(g) \in Nat
  BY StoreSound, GetIs
<1> HIDE DEF g
<1>2. SoundStore(g) /\ Len(g) <= MaxEntries
  BY <1>1, StoreSound, CacheAssumption
<1> QED BY <1>2 DEF g

(* The walk over the index. *)
LEMMA VisitSound ==
  ASSUME CacheIInv, NEW key, NEW S, NEW ks \in Seq(S), Visit(key, ks)
  PROVE  /\ SoundStore(store') /\ Len(store') <= MaxEntries
         /\ index' \in Seq(CacheKeys) /\ Len(index') <= MaxEntries
<1> DEFINE g == Get(store, key)  K == {k \in CacheKeys : k \notin Range(ks) \/ Has(store, k)}
<1>1. store' = Touched(g, ks) /\ index' = Only(index, K)
  BY DEF Visit
<1>2. SoundStore(g) /\ Len(g) <= MaxEntries
  BY GetSound
<1> HIDE DEF g
<1>3. SoundStore(Touched(g, ks)) /\ Len(Touched(g, ks)) <= Len(g)
  BY <1>2, TouchedIs
<1>4. Len(g) \in Nat
  BY <1>2 DEF SoundStore
<1>5. SoundStore(store') /\ Len(store') <= Len(g)
  BY <1>1, <1>3
<1>6. Len(store') \in Nat
  BY <1>5 DEF SoundStore
<1>7. CacheKeys \cap K = K /\ K \subseteq CacheKeys
  OBVIOUS
<1> HIDE DEF K
<1>8. Only(index, K) \in Seq(CacheKeys \cap K) /\ Len(Only(index, K)) <= Len(index)
  BY StoreSound, OnlyIs
<1>9. index' \in Seq(K) /\ Len(index') <= Len(index)
  BY <1>1, <1>7, <1>8
<1>10. index' \in Seq(CacheKeys) /\ Len(index') \in Nat
  BY <1>7, <1>9
<1> QED BY <1>2, <1>4, <1>5, <1>6, <1>9, <1>10, StoreSound, CacheAssumption

(* The index is pruned to the number of answers. *)
LEMMA IndexedSound ==
  ASSUME CacheIInv, NEW key \in CacheKeys, NEW size \in Nat, size <= MaxEntries
  PROVE  Indexed(key, size) \in Seq(CacheKeys) /\ Len(Indexed(key, size)) <= MaxEntries
<1> DEFINE all == IF key \in Range(index) THEN index ELSE Append(index, key)
           n == Len(all)
           rest == SubSeq(all, n - size + 1, n)
<1>1. all \in Seq(CacheKeys) /\ n \in Nat
  BY StoreSound
<1>2. Indexed(key, size) = IF n > size THEN rest ELSE all
  BY DEF Indexed
<1> HIDE DEF all
<1>3. CASE n > size
  <2>1. rest \in Seq(CacheKeys) /\ Len(rest) = size
    BY <1>1, <1>3
  <2> HIDE DEF rest
  <2> QED BY <1>2, <1>3, <2>1
<1>4. CASE ~(n > size)
  <2>1. n <= MaxEntries
    BY <1>1, <1>4, CacheAssumption
  <2> QED BY <1>1, <1>2, <1>4, <2>1
<1> QED BY <1>3, <1>4

(* Every step of the cache keeps the invariant. *)
LEMMA CacheStep ==
  ASSUME CacheIInv, CacheNext
  PROVE  CacheIInv'
<1> USE DEF CacheIInv
<1>1. ASSUME NEW c \in CacheCalls, NEW key \in CacheKeys, ExactHit(c, key)
      PROVE  CacheIInv'
  <2> DEFINE r == [at |-> "served", key |-> key, candidates |-> {}, served |-> key]
  <2>1. store' = Get(store, key) /\ index' = index /\ call' = [call EXCEPT ![c] = r]
    BY <1>1 DEF ExactHit, Serve
  <2>2. SoundCall(r)
    BY DEF SoundCall
  <2> HIDE DEF r
  <2>3. /\ DOMAIN call' = CacheCalls /\ call' = [x \in CacheCalls |-> call'[x]]
        /\ \A x \in CacheCalls : SoundCall(call'[x])
    BY <2>1, <2>2, OneCallSound
  <2>4. SoundStore(store') /\ Len(store') <= MaxEntries
    BY <2>1, GetSound
  <2> QED BY <2>1, <2>3, <2>4
<1>2. ASSUME NEW c \in CacheCalls, NEW key \in CacheKeys, SamePrompt(c, key)
      PROVE  CacheIInv'
  <2>0. PICK i \in DOMAIN Mine(key) :
          Visit(key, SubSeq(Mine(key), 1, i)) /\ Serve(c, key, Mine(key)[i])
    BY <1>2 DEF SamePrompt
  <2> DEFINE K == {k \in CacheKeys : k.project = key.project}
             mine == Mine(key)
             r == [at |-> "served", key |-> key, candidates |-> {}, served |-> mine[i]]
  <2>1. mine \in Seq(K)
    BY MineIs
  <2>2. call' = [call EXCEPT ![c] = r] /\ Visit(key, SubSeq(mine, 1, i)) /\ i \in DOMAIN mine
    BY <2>0 DEF Serve
  <2> HIDE DEF K, mine
  <2>3. mine[i] \in K /\ SubSeq(mine, 1, i) \in Seq(K)
    BY <2>1, <2>2
  <2>4. SoundCall(r)
    BY <2>3 DEF SoundCall, K
  <2> HIDE DEF r
  <2>5. /\ DOMAIN call' = CacheCalls /\ call' = [x \in CacheCalls |-> call'[x]]
        /\ \A x \in CacheCalls : SoundCall(call'[x])
    BY <2>2, <2>4, OneCallSound
  <2>6. /\ SoundStore(store') /\ Len(store') <= MaxEntries
        /\ index' \in Seq(CacheKeys) /\ Len(index') <= MaxEntries
    BY <2>2, <2>3, VisitSound
  <2> QED BY <2>5, <2>6
<1>3. ASSUME NEW c \in CacheCalls, NEW key \in CacheKeys, Compare(c, key)
      PROVE  CacheIInv'
  <2> DEFINE K == {k \in CacheKeys : k.project = key.project}
             mine == Mine(key)
             cs == {k \in Range(mine) : Has(store, k)} \cap Embedded(store)
             r == IF cs = {} THEN [at |-> "upstream", key |-> key, candidates |-> {}, served |-> Nothing]
                  ELSE [at |-> "comparing", key |-> key, candidates |-> cs, served |-> Nothing]
  <2>1. mine \in Seq(K)
    BY MineIs
  <2>2. Visit(key, mine) /\ call' = [call EXCEPT ![c] = r]
    BY <1>3 DEF Compare, Miss
  <2> HIDE DEF K, mine
  <2>3. Range(mine) \subseteq K
    BY <2>1 DEF Range
  <2>4. cs \subseteq K
    BY <2>3
  <2> HIDE DEF cs
  <2>5. SoundCall(r)
    BY <2>4 DEF SoundCall, K
  <2> HIDE DEF r
  <2>6. /\ DOMAIN call' = CacheCalls /\ call' = [x \in CacheCalls |-> call'[x]]
        /\ \A x \in CacheCalls : SoundCall(call'[x])
    BY <2>2, <2>5, OneCallSound
  <2>7. /\ SoundStore(store') /\ Len(store') <= MaxEntries
        /\ index' \in Seq(CacheKeys) /\ Len(index') <= MaxEntries
    BY <2>1, <2>2, VisitSound
  <2> QED BY <2>6, <2>7
<1>4. ASSUME NEW c \in CacheCalls, SimilarHit(c)
      PROVE  CacheIInv'
  <2>0. PICK k \in call[c].candidates : store' = Get(store, k) /\ Serve(c, call[c].key, k)
    BY <1>4 DEF SimilarHit
  <2> DEFINE key == call[c].key
             r == [at |-> "served", key |-> key, candidates |-> {}, served |-> k]
  <2>1. SoundCall(call[c]) /\ call[c].at = "comparing" /\ index' = index
    BY <1>4 DEF SimilarHit
  <2>2. key \in CacheKeys /\ k \in CacheKeys /\ k.project = key.project
    BY <2>0, <2>1 DEF SoundCall
  <2>3. call' = [call EXCEPT ![c] = r]
    BY <2>0 DEF Serve
  <2> HIDE DEF key
  <2>4. SoundCall(r)
    BY <2>2 DEF SoundCall
  <2> HIDE DEF r
  <2>5. /\ DOMAIN call' = CacheCalls /\ call' = [x \in CacheCalls |-> call'[x]]
        /\ \A x \in CacheCalls : SoundCall(call'[x])
    BY <2>3, <2>4, OneCallSound
  <2>6. SoundStore(store') /\ Len(store') <= MaxEntries
    BY <2>0, GetSound
  <2> QED BY <2>1, <2>5, <2>6
<1>5. ASSUME NEW c \in CacheCalls, NotSimilar(c)
      PROVE  CacheIInv'
  <2>0. PICK best \in call[c].candidates \cup {Nothing} : store' = Get(store, best)
    BY <1>5 DEF NotSimilar
  <2> DEFINE key == call[c].key
             r == [at |-> "upstream", key |-> key, candidates |-> {}, served |-> Nothing]
  <2>1. SoundCall(call[c]) /\ call[c].at = "comparing" /\ index' = index
    BY <1>5 DEF NotSimilar
  <2>2. key \in CacheKeys
    BY <2>1 DEF SoundCall
  <2>3. call' = [call EXCEPT ![c] = r]
    BY <1>5 DEF NotSimilar, Miss
  <2> HIDE DEF key
  <2>4. SoundCall(r)
    BY <2>2 DEF SoundCall
  <2> HIDE DEF r
  <2>5. /\ DOMAIN call' = CacheCalls /\ call' = [x \in CacheCalls |-> call'[x]]
        /\ \A x \in CacheCalls : SoundCall(call'[x])
    BY <2>3, <2>4, OneCallSound
  <2>6. SoundStore(store') /\ Len(store') <= MaxEntries
    BY <2>0, GetSound
  <2> QED BY <2>1, <2>5, <2>6
<1>6. ASSUME NEW c \in CacheCalls, StoreAnswer(c)
      PROVE  CacheIInv'
  <2>0. PICK embedded \in BOOLEAN :
          store' = Set(store, [key |-> call[c].key, left |-> CacheTtl, embedded |-> embedded])
    BY <1>6 DEF StoreAnswer
  <2> DEFINE key == call[c].key
             e == [key |-> key, left |-> CacheTtl, embedded |-> embedded]
  <2>1. SoundCall(call[c]) /\ call[c].at = "upstream"
    BY <1>6 DEF StoreAnswer
  <2>2. key \in CacheKeys
    BY <2>1 DEF SoundCall
  <2>3. call' = [call EXCEPT ![c] = NoCall] /\ index' = Indexed(key, Len(store')) /\ store' = Set(store, e)
    BY <1>6, <2>0 DEF StoreAnswer
  <2> HIDE DEF key
  <2>4. e \in Answers
    <3>1. CacheTtl \in -1..CacheTtl
      BY CacheAssumption
    <3> QED BY <2>2, <3>1 DEF Answers
  <2> HIDE DEF e
  <2>5. SoundStore(store') /\ Len(store') <= MaxEntries /\ Len(store') \in Nat
    BY <2>3, <2>4, StoreSound, SetIs
  <2>6. index' \in Seq(CacheKeys) /\ Len(index') <= MaxEntries
    BY <2>2, <2>3, <2>5, IndexedSound
  <2>7. SoundCall(NoCall)
    BY DEF SoundCall, NoCall
  <2>8. /\ DOMAIN call' = CacheCalls /\ call' = [x \in CacheCalls |-> call'[x]]
        /\ \A x \in CacheCalls : SoundCall(call'[x])
    BY <2>3, <2>7, OneCallSound
  <2> QED BY <2>5, <2>6, <2>8
<1>7. ASSUME NEW c \in CacheCalls, CacheCallEnds(c)
      PROVE  CacheIInv'
  <2>1. SoundCall(NoCall)
    BY DEF SoundCall, NoCall
  <2>2. store' = store /\ index' = index /\ call' = [call EXCEPT ![c] = NoCall]
    BY <1>7 DEF CacheCallEnds
  <2>3. /\ DOMAIN call' = CacheCalls /\ call' = [x \in CacheCalls |-> call'[x]]
        /\ \A x \in CacheCalls : SoundCall(call'[x])
    BY <2>1, <2>2, OneCallSound
  <2> QED BY <2>2, <2>3
<1>8. ASSUME CacheTick
      PROVE  CacheIInv'
  <2> DEFINE E == Answers  n == Len(store)
  <2>1. store' = [i \in DOMAIN store |-> Fading(store[i])] /\ index' = index /\ call' = call
    BY <1>8 DEF CacheTick
  <2>2. store \in Seq(E) /\ OneAKey(store)
    BY StoreSound DEF SoundStore
  <2>3. ASSUME NEW e \in E PROVE Fading(e) \in E /\ Fading(e).key = e.key
    <3>1. CacheTtl \in Nat /\ e.left \in -1..CacheTtl
      BY CacheAssumption DEF Answers
    <3>2. e.left >= 0 => e.left - 1 \in -1..CacheTtl
      BY <3>1
    <3> QED BY <3>2 DEF Fading, Answers
  <2> HIDE DEF E
  <2>4. n \in Nat /\ DOMAIN store = 1..n /\ \A i \in 1..n : store[i] \in E
    BY <2>2
  <2>5. /\ store' = [i \in 1..n |-> Fading(store[i])] /\ DOMAIN store' = 1..n
        /\ \A i \in 1..n : store'[i] \in E /\ store'[i].key = store[i].key
    BY <2>1, <2>3, <2>4
  <2>6. store' \in Seq(E) /\ Len(store') = n
    BY <2>4, <2>5
  <2>7. OneAKey(store')
    BY <2>2, <2>4, <2>5 DEF OneAKey
  <2>8. SoundStore(store')
    BY <2>6, <2>7 DEF SoundStore, E
  <2> QED BY <2>1, <2>6, <2>8
<1> QED BY <1>1, <1>2, <1>3, <1>4, <1>5, <1>6, <1>7, <1>8 DEF CacheNext

LEMMA CacheAlways == CacheSpec => []CacheIInv
<1>1. CacheIInv /\ UNCHANGED cacheVars => CacheIInv'
  BY DEF CacheIInv, cacheVars
<1> QED BY <1>1, CacheInitIInv, CacheStep, PTL DEF CacheSpec

(* One answer a key, up to the cap, and an index that is no longer, though it
   lists keys the cache has lost: for any keys, cap, expiry and requests. *)
THEOREM CacheTyped == CacheSpec => []CacheTypeOK
<1>1. ASSUME CacheIInv PROVE CacheTypeOK
  <2> DEFINE E == Answers  n == Len(store)  f == [i \in 1..n |-> store[i].key]
  <2>1. store \in Seq(E) /\ OneAKey(store)
    BY <1>1, StoreSound DEF SoundStore
  <2>2. Keyed(store) = {f[i] : i \in 1..n} /\ n \in Nat /\ DOMAIN store = 1..n
    <3> HIDE DEF E
    <3>1. n \in Nat /\ DOMAIN store = 1..n
      BY <2>1
    <3> HIDE DEF n
    <3> QED BY <3>1 DEF Keyed
  <2>3. \A i, j \in 1..n : f[i] = f[j] => i = j
    BY <2>1, <2>2 DEF OneAKey
  <2> HIDE DEF f, n
  <2>4. Cardinality(Keyed(store)) = n
    BY <2>2, <2>3, DistinctCount
  <2>5. call \in [CacheCalls ->
       [at : {"idle", "served", "comparing", "upstream"}, key : CacheKeys \cup {Nothing},
        candidates : SUBSET CacheKeys, served : CacheKeys \cup {Nothing}]]
    BY <1>1 DEF CacheIInv, SoundCall
  <2> QED BY <1>1, <2>1, <2>4, <2>5, StoreSound DEF CacheTypeOK, Answers, n
<1> QED BY <1>1, CacheAlways, PTL

(* An answer is served to the project it was made for only, whatever was
   evicted, expired or replaced while an embedding was awaited, for any keys,
   cap, expiry and number of requests. *)
THEOREM HitsOwnProject == CacheSpec => []HitOwnProject
<1>1. CacheIInv => HitOwnProject
  BY DEF CacheIInv, SoundCall, HitOwnProject
<1> QED BY <1>1, CacheAlways, PTL

-----------------------------------------------------------------------------
(***************************************************************************)
(* The loop detector, for every threshold, window and number of checks.    *)
(* The histograms are sums; a tick shifts them, and what was committed in  *)
(* the window before a check began is never older than the window and the  *)
(* check together (EarlierThere).                                          *)
(***************************************************************************)
Oldest == Keep + MaxCheck
Checks == [at : {"idle", "begun", "inserted", "decided", "fellback"},
           age : 0..MaxCheck, earlier : 0..MaxRows, detected : BOOLEAN]

LoopShape ==
  /\ rows \in [Ages -> Nat]
  /\ recent \in [0..Window -> Nat]
  /\ check \in [LoopCalls -> Checks]

(* A transaction under way has its row counted before it is written. *)
RowsCapped == Sum(rows, Ages) + Cardinality(UnderWay) <= MaxRows
RecentCapped == Sum(recent, 0..Window) <= MaxRows

(* What was committed in the window before a check began is still there, no
   older than the window and the check together. *)
EarlierThere ==
  \A c \in UnderWay : check[c].earlier <= Sum(rows, 0..(Window + check[c].age))

LoopIInv == LoopShape /\ RowsCapped /\ RecentCapped /\ EarlierThere /\ LoopSeen

LEMMA LoopBounds ==
  /\ Oldest \in Nat /\ Ages = 0..Oldest /\ Window \in Nat /\ MaxRows \in Nat /\ MaxCheck \in Nat
  /\ IsFiniteSet(Ages) /\ IsFiniteSet(0..Window)
  /\ \A age \in 0..MaxCheck : Window + age \in 0..Oldest
<1>1. Oldest \in Nat /\ Ages = 0..Oldest
  BY LoopAssumption DEF Oldest, Ages
<1>2. \A age \in 0..MaxCheck : Window + age \in 0..Oldest
  BY LoopAssumption DEF Oldest
<1>3. IsFiniteSet(0..Oldest) /\ IsFiniteSet(0..Window)
  BY <1>1, LoopAssumption, FS_Interval
<1> QED BY <1>1, <1>2, <1>3, LoopAssumption

(* The folds of the module, read as sums. *)
LEMMA CountsAreSums ==
  ASSUME LoopShape
  PROVE  /\ CountUpTo(Keep + MaxCheck) = Sum(rows, Ages)
         /\ CountUpTo(Window) = Sum(rows, 0..Window)
         /\ Recent = Sum(recent, 0..Window)
         /\ \A age \in 0..MaxCheck : CountIn({a \in Ages \ Swept(age) : a <= age + Window}) = Sum(rows, 0..(Window + age))
<1>0. ASSUME NEW S PROVE CountIn(S) = Sum(rows, S)
  BY DEF CountIn, Sum, FoldFunctionOnSet, MapThenFoldSet
<1>1. {a \in Ages : a <= Keep + MaxCheck} = Ages
  BY LoopAssumption DEF Ages
<1>2. {a \in Ages : a <= Window} = 0..Window
  BY LoopAssumption DEF Ages
<1>3. ASSUME NEW age \in 0..MaxCheck PROVE {a \in Ages \ Swept(age) : a <= age + Window} = 0..(Window + age)
  BY LoopAssumption DEF Ages, Swept
<1>4. DOMAIN recent = 0..Window
  BY DEF LoopShape
<1>5. Recent = Sum(recent, 0..Window)
  BY <1>4 DEF Recent, FoldFunction, Sum, FoldFunctionOnSet, MapThenFoldSet
<1> QED BY <1>0, <1>1, <1>2, <1>3, <1>5 DEF CountUpTo

LEMMA UnderWayFinite ==
  ASSUME LoopShape
  PROVE  /\ IsFiniteSet(UnderWay) /\ Cardinality(UnderWay) \in Nat
         /\ \A c \in LoopCalls : c \notin UnderWay => Cardinality(UnderWay \cup {c}) = Cardinality(UnderWay) + 1
         /\ \A c \in UnderWay : Cardinality(UnderWay \ {c}) = Cardinality(UnderWay) - 1
<1>1. IsFiniteSet(UnderWay)
  BY LoopAssumption, FS_Subset DEF UnderWay
<1>2. Cardinality(UnderWay) \in Nat
  BY <1>1, FS_CardinalityType
<1> HIDE DEF UnderWay
<1>3. \A c : c \notin UnderWay => Cardinality(UnderWay \cup {c}) = Cardinality(UnderWay) + 1
  BY <1>1, FS_AddElement
<1>4. \A c \in UnderWay : Cardinality(UnderWay \ {c}) = Cardinality(UnderWay) - 1
  BY <1>1, FS_RemoveElement
<1> QED BY <1>1, <1>2, <1>3, <1>4

LEMMA LoopSumsTyped ==
  ASSUME LoopShape
  PROVE  /\ Sum(rows, Ages) \in Nat /\ Sum(recent, 0..Window) \in Nat
         /\ \A n \in 0..Oldest : Sum(rows, 0..n) \in Nat /\ Sum(rows, 0..n) <= Sum(rows, Ages)
<1>1. \A a \in Ages : rows[a] \in Nat
  BY DEF LoopShape
<1>2. \A a \in 0..Window : recent[a] \in Nat
  BY DEF LoopShape
<1>3. ASSUME NEW n \in 0..Oldest PROVE Sum(rows, 0..n) \in Nat /\ Sum(rows, 0..n) <= Sum(rows, Ages)
  <2>1. 0..n \in SUBSET Ages /\ IsFiniteSet(0..n) /\ \A a \in 0..n : rows[a] \in Nat
    <3>1. 0..n \subseteq Ages
      BY LoopBounds
    <3> QED BY <1>1, <3>1, LoopBounds, FS_Subset
  <2> HIDE DEF LoopShape
  <2> QED BY <1>1, <2>1, LoopBounds, SumMonotone, SumType
<1> QED BY <1>1, <1>2, <1>3, LoopBounds, SumType

LEMMA LoopInitInv == LoopInit => LoopIInv
<1> SUFFICES ASSUME LoopInit PROVE LoopIInv
  OBVIOUS
<1>1. LoopShape
  BY LoopBounds DEF LoopInit, LoopShape, Checks, NoCheck
<1>2. UnderWay = {}
  BY DEF LoopInit, UnderWay, NoCheck
<1>3. Cardinality(UnderWay) = 0
  BY <1>2, FS_EmptySet
<1>4. /\ \A a \in Ages : rows[a] = 0
      /\ \A a \in 0..Window : recent[a] = 0
  BY DEF LoopInit
<1>5. Sum(rows, Ages) = 0 /\ Sum(recent, 0..Window) = 0
  <2>1. ASSUME NEW f, NEW S, IsFiniteSet(S), \A a \in S : f[a] = 0 PROVE Sum(f, S) = 0
    <3> DEFINE F == {T \in SUBSET S : Sum(f, T) # 0}
    <3> SUFFICES ASSUME F # {} PROVE FALSE
      OBVIOUS
    <3>1. PICK T \in F : \A U \in F : U \subseteq T => U = T
      <4>1. F \subseteq SUBSET S
        OBVIOUS
      <4> HIDE DEF F
      <4> QED BY <2>1, <4>1, LeastSet
    <3>2. T \subseteq S /\ IsFiniteSet(T) /\ Sum(f, T) # 0
      BY <2>1, <3>1, FS_Subset
    <3>3. PICK x : x \in T
      BY <3>2, SumEmpty
    <3>4. Sum(f, T \ {x}) = 0 /\ f[x] = 0
      BY <2>1, <3>1, <3>2, <3>3
    <3>5. \A y \in T : f[y] \in Nat
      BY <2>1, <3>2
    <3>6. Sum(f, T) = f[x] + Sum(f, T \ {x})
      BY <3>2, <3>3, <3>5, SumRemove
    <3> QED BY <3>2, <3>4, <3>6
  <2> QED BY <1>4, <2>1, LoopBounds
<1>6. RowsCapped /\ RecentCapped
  BY <1>3, <1>5, LoopBounds DEF RowsCapped, RecentCapped
<1>7. EarlierThere /\ LoopSeen
  BY <1>2 DEF EarlierThere, LoopSeen, LoopInit, NoCheck
<1> QED BY <1>1, <1>6, <1>7 DEF LoopIInv

LEMMA BeginKeeps ==
  ASSUME LoopIInv, NEW c \in LoopCalls, BeginCheck(c)
  PROVE  LoopIInv'
<1> USE DEF LoopIInv
<1>1. /\ Sum(rows, Ages) + Cardinality(UnderWay) < MaxRows
      /\ Sum(recent, 0..Window) < MaxRows
      /\ check' = [check EXCEPT ![c] = [at |-> "begun", age |-> 0, earlier |-> Sum(rows, 0..Window),
                                        detected |-> Sum(recent, 0..Window) + 1 >= Threshold]]
      /\ check[c].at = "idle" /\ recent' = [recent EXCEPT ![0] = recent[0] + 1] /\ rows' = rows
  BY CountsAreSums DEF BeginCheck
<1>2. Sum(rows, 0..Window) \in 0..MaxRows
  <2>1. Window \in 0..Oldest
    BY LoopBounds
  <2>2. Sum(rows, 0..Window) \in Nat /\ Sum(rows, 0..Window) <= Sum(rows, Ages)
        /\ Sum(rows, Ages) \in Nat /\ Cardinality(UnderWay) \in Nat
    BY <2>1, LoopSumsTyped, UnderWayFinite
  <2> DEFINE A == Sum(rows, 0..Window)  B == Sum(rows, Ages)  U == Cardinality(UnderWay)
  <2>3. A \in Nat /\ A <= B /\ B \in Nat /\ U \in Nat /\ B + U < MaxRows
    BY <1>1, <2>2
  <2>4. A \in 0..MaxRows
    <3> HIDE DEF A, B, U
    <3> QED BY <2>3, LoopBounds
  <2> QED BY <2>4
<1> DEFINE new == [at |-> "begun", age |-> 0, earlier |-> Sum(rows, 0..Window),
                   detected |-> Sum(recent, 0..Window) + 1 >= Threshold]
<1>3. new \in Checks /\ new.at = "begun" /\ new.age = 0 /\ new.earlier = Sum(rows, 0..Window)
  <2>1. (Sum(recent, 0..Window) + 1 >= Threshold) \in BOOLEAN
    OBVIOUS
  <2>2. 0 \in 0..MaxCheck
    BY LoopBounds
  <2> QED BY <1>2, <2>1, <2>2 DEF Checks
<1>4. check' = [check EXCEPT ![c] = new]
  BY <1>1
<1> HIDE DEF new
<1>5. LoopShape'
  BY <1>1, <1>3, <1>4, LoopBounds DEF LoopShape
<1>6. UnderWay' = UnderWay \cup {c} /\ c \notin UnderWay
  BY <1>1, <1>3, <1>4 DEF LoopShape, UnderWay
<1>7. RowsCapped'
  <2>1. Cardinality(UnderWay') = Cardinality(UnderWay) + 1 /\ Cardinality(UnderWay) \in Nat
    BY <1>6, UnderWayFinite
  <2>2. Sum(rows, Ages) \in Nat
    BY LoopSumsTyped
  <2> DEFINE B == Sum(rows, Ages)  U == Cardinality(UnderWay)
  <2>3. B \in Nat /\ U \in Nat /\ B + U < MaxRows
    BY <1>1, <2>1, <2>2
  <2>4. B + (U + 1) <= MaxRows
    <3> HIDE DEF B, U
    <3> QED BY <2>3, LoopBounds
  <2> QED BY <1>1, <2>1, <2>4 DEF RowsCapped
<1>8. RecentCapped'
  <2>1. /\ 0 \in 0..Window /\ \A a \in 0..Window : recent[a] \in Nat
        /\ recent'[0] = recent[0] + 1 /\ \A a \in 0..Window : a # 0 => recent'[a] = recent[a]
    BY <1>1, LoopBounds DEF LoopShape
  <2>2. Sum(recent', 0..Window) = Sum(recent, 0..Window) + 1
    BY <2>1, LoopBounds, SumOneMore
  <2>3. Sum(recent, 0..Window) \in Nat
    BY LoopSumsTyped
  <2> DEFINE R == Sum(recent, 0..Window)
  <2>4. R \in Nat /\ R < MaxRows /\ Sum(recent', 0..Window) = R + 1
    BY <1>1, <2>2, <2>3
  <2>5. Sum(recent', 0..Window) <= MaxRows
    <3> HIDE DEF R
    <3> QED BY <2>4, LoopBounds
  <2> QED BY <2>5 DEF RecentCapped
<1>9. EarlierThere'
  <2> SUFFICES ASSUME NEW d \in UnderWay' PROVE check'[d].earlier <= Sum(rows, 0..(Window + check'[d].age))
    BY <1>1 DEF EarlierThere
  <2>1. CASE d = c
    <3>1. check'[d].earlier = Sum(rows, 0..Window) /\ check'[d].age = 0
      BY <2>1, <1>3, <1>4 DEF LoopShape
    <3>2. Window + 0 = Window
      BY LoopBounds
    <3> QED BY <1>2, <3>1, <3>2
  <2>2. CASE d # c
    BY <2>2, <1>4, <1>6 DEF EarlierThere, LoopShape
  <2> QED BY <2>1, <2>2
<1>10. LoopSeen'
  BY <1>3, <1>4 DEF LoopSeen, LoopShape
<1> QED BY <1>5, <1>7, <1>8, <1>9, <1>10

(* A request that stays under way, or leaves it, with the rows untouched. *)
LEMMA MovesKeep ==
  ASSUME LoopIInv, NEW c \in LoopCalls, NEW new \in Checks, UNCHANGED <<rows, recent>>,
         check' = [check EXCEPT ![c] = new],
         \/ new.at \in {"idle", "fellback"}
         \/ c \in UnderWay /\ new.at = "inserted" /\ new.age = check[c].age /\ new.earlier = check[c].earlier
  PROVE  LoopIInv'
<1> USE DEF LoopIInv
<1>1. LoopShape'
  BY DEF LoopShape
<1>2. UnderWay' \in {UnderWay, UnderWay \ {c}}
  BY DEF LoopShape, UnderWay
<1>3. RowsCapped'
  <2>1. Cardinality(UnderWay') <= Cardinality(UnderWay) /\ Cardinality(UnderWay') \in Nat /\ Cardinality(UnderWay) \in Nat
    <3>1. CASE UnderWay' = UnderWay
      BY <3>1, UnderWayFinite
    <3>2. CASE UnderWay' = UnderWay \ {c} /\ c \in UnderWay
      <4>1. Cardinality(UnderWay') = Cardinality(UnderWay) - 1 /\ Cardinality(UnderWay) \in Nat
        BY <3>2, UnderWayFinite
      <4>2. Cardinality(UnderWay') \in Nat
        BY <3>2, UnderWayFinite, FS_Subset, FS_CardinalityType
      <4> QED BY <4>1, <4>2
    <3>3. c \notin UnderWay => UnderWay \ {c} = UnderWay
      OBVIOUS
    <3> QED BY <1>2, <3>1, <3>2, <3>3
  <2>2. Sum(rows, Ages) \in Nat /\ Sum(rows, Ages) + Cardinality(UnderWay) <= MaxRows
    BY LoopSumsTyped DEF RowsCapped
  <2> DEFINE B == Sum(rows, Ages)  U == Cardinality(UnderWay)  V == Cardinality(UnderWay')
  <2>3. B \in Nat /\ U \in Nat /\ V \in Nat /\ V <= U /\ B + U <= MaxRows
    BY <2>1, <2>2
  <2>4. B + V <= MaxRows
    <3> HIDE DEF B, U, V
    <3> QED BY <2>3, LoopBounds
  <2> QED BY <2>4 DEF RowsCapped
<1>4. RecentCapped'
  BY DEF RecentCapped
<1>5. EarlierThere'
  <2> SUFFICES ASSUME NEW d \in UnderWay' PROVE check'[d].earlier <= Sum(rows, 0..(Window + check'[d].age))
    BY DEF EarlierThere
  <2>1. d \in UnderWay /\ check'[d].earlier = check[d].earlier /\ check'[d].age = check[d].age
    BY <1>2 DEF LoopShape, UnderWay
  <2> QED BY <2>1 DEF EarlierThere
<1>6. LoopSeen'
  BY DEF LoopSeen, LoopShape
<1> QED BY <1>1, <1>3, <1>4, <1>5, <1>6

LEMMA CountKeeps ==
  ASSUME LoopIInv, NEW c \in LoopCalls, CountEvents(c)
  PROVE  LoopIInv'
<1> USE DEF LoopIInv
<1> DEFINE age == check[c].age
           seen == Sum(rows, 0..(Window + age)) + 1
<1>1. /\ check[c].at = "inserted" /\ c \in UnderWay /\ age \in 0..MaxCheck /\ age \in Ages
      /\ check[c] \in Checks
  <2>1. check[c].at = "inserted" /\ check[c] \in Checks
    BY DEF CountEvents, LoopShape
  <2>2. age \in 0..MaxCheck
    BY <2>1 DEF Checks
  <2>3. age \in Ages
    BY <2>2, LoopAssumption DEF Ages
  <2> QED BY <2>1, <2>2, <2>3 DEF UnderWay
<1>2. /\ check' = [check EXCEPT ![c].at = "decided", ![c].detected = seen >= Threshold]
      /\ rows' = [a \in Ages |-> (IF a \in Swept(age) THEN 0 ELSE rows[a]) + (IF a = age THEN 1 ELSE 0)]
      /\ UNCHANGED recent
  <2>1. CountIn({a \in Ages \ Swept(age) : a <= age + Window}) + 1 = seen
    BY <1>1, CountsAreSums
  <2> QED BY <2>1 DEF CountEvents
<1>3. /\ rows' \in [Ages -> Nat]
      /\ \A a \in Ages : rows'[a] = (IF a \in Swept(age) THEN 0 ELSE rows[a]) + (IF a = age THEN 1 ELSE 0)
      /\ \A a \in Ages : rows[a] \in Nat
  BY <1>2 DEF LoopShape
<1>4. /\ check' \in [LoopCalls -> Checks]
      /\ check'[c].at = "decided" /\ check'[c].earlier = check[c].earlier
      /\ check'[c].detected = (seen >= Threshold)
      /\ \A d \in LoopCalls : d # c => check'[d] = check[d]
  <2> HIDE DEF seen
  <2>1. (seen >= Threshold) \in BOOLEAN
    OBVIOUS
  <2> DEFINE new == [at |-> "decided", age |-> check[c].age, earlier |-> check[c].earlier,
                     detected |-> seen >= Threshold]
  <2>2. check' = [check EXCEPT ![c] = new]
    <3> DEFINE mid == [check EXCEPT ![c] = [check[c] EXCEPT !.at = "decided"]]
    <3>1. check' = [mid EXCEPT ![c] = [mid[c] EXCEPT !.detected = seen >= Threshold]]
      BY <1>2
    <3>2. check \in [LoopCalls -> Checks]
      BY DEF LoopShape
    <3>3. mid[c] = [check[c] EXCEPT !.at = "decided"] /\ \A d \in LoopCalls : d # c => mid[d] = check[d]
      BY <3>2
    <3>4. mid \in [LoopCalls -> Checks]
      BY <3>2 DEF Checks
    <3> HIDE DEF mid
    <3>5. check' = [mid EXCEPT ![c] = new]
      <4>1. [mid[c] EXCEPT !.detected = seen >= Threshold] = new
        <5>1. mid[c] = [at |-> "decided", age |-> check[c].age, earlier |-> check[c].earlier,
                        detected |-> check[c].detected]
          BY <1>1, <3>3 DEF Checks
        <5> QED BY <5>1
      <4> QED BY <3>1, <4>1
    <3> QED BY <3>2, <3>3, <3>4, <3>5
  <2>3. new \in Checks
    BY <1>1, <2>1 DEF Checks
  <2> QED BY <2>2, <2>3 DEF LoopShape
<1>5. LoopShape'
  BY <1>2, <1>3, <1>4 DEF LoopShape
<1>6. UnderWay' = UnderWay \ {c}
  BY <1>4 DEF UnderWay
<1>7. RowsCapped'
  <2> DEFINE left == [a \in Ages |-> IF a \in Swept(age) THEN 0 ELSE rows[a]]
  <2>1. \A a \in Ages : left[a] \in Nat /\ left[a] <= rows[a]
    BY <1>3
  <2>2. rows'[age] = left[age] + 1 /\ \A a \in Ages : a # age => rows'[a] = left[a]
    BY <1>1, <1>3
  <2> HIDE DEF left
  <2>3. Sum(left, Ages) <= Sum(rows, Ages)
    BY <1>3, <2>1, LoopBounds, SumDominated
  <2>4. Sum(rows', Ages) = Sum(left, Ages) + 1
    BY <1>1, <2>1, <2>2, LoopBounds, SumOneMore
  <2>5. Cardinality(UnderWay') = Cardinality(UnderWay) - 1 /\ Cardinality(UnderWay) \in Nat
    BY <1>1, <1>6, UnderWayFinite
  <2>6. Sum(left, Ages) \in Nat /\ Sum(rows, Ages) \in Nat
    BY <2>1, LoopBounds, LoopSumsTyped, SumType
  <2> DEFINE A == Sum(rows, Ages)  B == Sum(rows', Ages)  C == Sum(left, Ages)
             U == Cardinality(UnderWay)  V == Cardinality(UnderWay')
  <2>7. A + U <= MaxRows /\ C <= A /\ B = C + 1 /\ V = U - 1 /\ A \in Nat /\ C \in Nat /\ U \in Nat
    BY <2>3, <2>4, <2>5, <2>6 DEF RowsCapped
  <2>8. B + V <= MaxRows
    <3> HIDE DEF A, B, C, U, V
    <3> QED BY <2>7, LoopBounds
  <2> QED BY <2>8 DEF RowsCapped
<1>8. RecentCapped'
  BY <1>2 DEF RecentCapped
<1>9. ASSUME NEW n \in 0..Keep PROVE Sum(rows, 0..n) <= Sum(rows', 0..n)
  <2>1. \A a \in 0..n : a \in Ages /\ a \notin Swept(age)
    BY <1>1, LoopAssumption DEF Swept, Ages
  <2>2. \A a \in 0..n : rows[a] \in Nat /\ rows'[a] \in Nat /\ rows[a] <= rows'[a]
    BY <1>3, <2>1
  <2>3. IsFiniteSet(0..n)
    BY LoopAssumption, FS_Interval
  <2> QED BY <2>2, <2>3, SumDominated
<1>10. EarlierThere'
  <2> SUFFICES ASSUME NEW d \in UnderWay' PROVE check'[d].earlier <= Sum(rows', 0..(Window + check'[d].age))
    BY DEF EarlierThere
  <2>1. d \in UnderWay /\ d # c /\ d \in LoopCalls /\ check'[d] = check[d] /\ check[d] \in Checks
    BY <1>4, <1>6 DEF UnderWay, LoopShape
  <2>2. Window + check[d].age \in 0..Keep /\ Window + check[d].age \in 0..Oldest /\ check[d].earlier \in Nat
    BY <2>1, LoopAssumption DEF Checks, Oldest
  <2>3. check[d].earlier <= Sum(rows, 0..(Window + check[d].age))
    BY <2>1 DEF EarlierThere
  <2>4. Sum(rows, 0..(Window + check[d].age)) <= Sum(rows', 0..(Window + check[d].age))
    BY <1>9, <2>2
  <2>5. Sum(rows, 0..(Window + check[d].age)) \in Nat
    BY <2>2, LoopSumsTyped
  <2>6. Sum(rows', 0..(Window + check[d].age)) \in Nat
    <3>1. 0..(Window + check[d].age) \subseteq Ages
      BY <2>2, LoopBounds
    <3>2. IsFiniteSet(0..(Window + check[d].age)) /\ \A a \in 0..(Window + check[d].age) : rows'[a] \in Nat
      BY <3>1, <1>3, LoopBounds, FS_Subset
    <3> QED BY <3>2, SumType
  <2> DEFINE A == Sum(rows, 0..(Window + check[d].age))  B == Sum(rows', 0..(Window + check[d].age))
  <2>7. A \in Nat /\ B \in Nat /\ check[d].earlier <= A /\ A <= B
    BY <2>3, <2>4, <2>5, <2>6
  <2>8. check[d].earlier <= B
    <3> HIDE DEF A, B
    <3> QED BY <2>2, <2>7
  <2> QED BY <2>1, <2>8
<1>11. LoopSeen'
  <2> SUFFICES ASSUME NEW d \in LoopCalls, check'[d].at = "decided", check'[d].earlier >= Threshold - 1
                PROVE  check'[d].detected
    BY DEF LoopSeen
  <2>1. CASE d # c
    BY <1>4, <2>1 DEF LoopSeen
  <2>2. CASE d = c
    <3>1. check[c].earlier >= Threshold - 1 /\ check[c].earlier \in Nat
      BY <1>1, <1>4, <2>2 DEF Checks
    <3>2. check[c].earlier <= Sum(rows, 0..(Window + age))
      BY <1>1 DEF EarlierThere
    <3>3. Sum(rows, 0..(Window + age)) \in Nat
      BY <1>1, LoopBounds, LoopSumsTyped
    <3> DEFINE A == Sum(rows, 0..(Window + age))
    <3>4. A \in Nat /\ check[c].earlier <= A /\ seen = A + 1
      BY <3>2, <3>3
    <3>5. seen >= Threshold
      <4> HIDE DEF A, seen
      <4> QED BY <3>1, <3>4, LoopAssumption
    <3> QED BY <1>4, <2>2, <3>5
  <2> QED BY <2>1, <2>2
<1> QED BY <1>5, <1>7, <1>8, <1>10, <1>11

LEMMA TickKeeps ==
  ASSUME LoopIInv, LoopTick
  PROVE  LoopIInv'
<1> USE DEF LoopIInv
<1>1. /\ \A c \in UnderWay : check[c].age < MaxCheck
      /\ rows' = [a \in Ages |-> IF a = 0 THEN 0 ELSE rows[a - 1]]
      /\ recent' = [a \in 0..Window |-> IF a = 0 THEN 0 ELSE recent[a - 1]]
      /\ check' = [c \in LoopCalls |-> IF c \in UnderWay THEN [check[c] EXCEPT !.age = check[c].age + 1] ELSE check[c]]
  BY DEF LoopTick
<1>2. /\ \A a \in 0..Oldest : rows[a] \in Nat
      /\ \A a \in 0..Window : recent[a] \in Nat
      /\ Shifted(rows, rows', Oldest) /\ Shifted(recent, recent', Window)
  BY <1>1, LoopBounds DEF LoopShape, Shifted
<1>3. rows' \in [Ages -> Nat] /\ recent' \in [0..Window -> Nat]
  <2>1. \A a \in Ages : a # 0 => a - 1 \in Ages
    BY LoopBounds
  <2>2. \A a \in 0..Window : a # 0 => a - 1 \in 0..Window
    BY LoopBounds
  <2> QED BY <1>1, <2>1, <2>2 DEF LoopShape
<1>4. ASSUME NEW c \in LoopCalls
      PROVE  /\ check'[c] \in Checks /\ check'[c].at = check[c].at /\ check'[c].earlier = check[c].earlier
             /\ check'[c].detected = check[c].detected
             /\ c \in UnderWay => check'[c].age = check[c].age + 1 /\ check[c].age \in 0..MaxCheck /\ check[c].age < MaxCheck
  <2>1. check[c] \in Checks
    BY DEF LoopShape
  <2>2. c \in UnderWay => check[c].age < MaxCheck /\ check[c].age + 1 \in 0..MaxCheck
    BY <1>1, <2>1, LoopBounds DEF Checks
  <2>3. check'[c] = IF c \in UnderWay THEN [check[c] EXCEPT !.age = check[c].age + 1] ELSE check[c]
    BY <1>1
  <2> QED BY <2>1, <2>2, <2>3 DEF Checks
<1>5. LoopShape'
  BY <1>1, <1>3, <1>4 DEF LoopShape
<1>6. UnderWay' = UnderWay
  BY <1>4 DEF UnderWay
<1>7. /\ \A m \in 0..Oldest : m < Oldest => Sum(rows', 0..(m + 1)) = Sum(rows, 0..m)
      /\ Sum(rows', 0..Oldest) <= Sum(rows, 0..Oldest)
  BY <1>2, LoopBounds, ShiftKeepsCount
<1>8. Sum(recent', 0..Window) <= Sum(recent, 0..Window)
  BY <1>2, LoopBounds, ShiftKeepsCount
<1>9. /\ Sum(rows, 0..Oldest) \in Nat /\ Sum(recent, 0..Window) \in Nat
      /\ Sum(rows', 0..Oldest) \in Nat /\ Sum(recent', 0..Window) \in Nat
  <2>1. /\ \A a \in 0..Oldest : rows'[a] \in Nat
        /\ \A a \in 0..Window : recent'[a] \in Nat
    BY <1>3, LoopBounds
  <2> QED BY <1>2, <2>1, LoopBounds, SumType
<1>10. RowsCapped'
  <2>1. Cardinality(UnderWay) \in Nat
    BY UnderWayFinite
  <2> DEFINE A == Sum(rows, 0..Oldest)  B == Sum(rows', 0..Oldest)  U == Cardinality(UnderWay)
  <2>2. A \in Nat /\ B \in Nat /\ U \in Nat /\ B <= A /\ A + U <= MaxRows
    BY <1>7, <1>9, <2>1, LoopBounds DEF RowsCapped
  <2>3. B + U <= MaxRows
    <3> HIDE DEF A, B, U
    <3> QED BY <2>2, LoopBounds
  <2> QED BY <1>6, <2>3, LoopBounds DEF RowsCapped
<1>11. RecentCapped'
  <2> DEFINE A == Sum(recent, 0..Window)  B == Sum(recent', 0..Window)
  <2>1. A \in Nat /\ B \in Nat /\ B <= A /\ A <= MaxRows
    BY <1>8, <1>9 DEF RecentCapped
  <2>2. B <= MaxRows
    <3> HIDE DEF A, B
    <3> QED BY <2>1, LoopBounds
  <2> QED BY <2>2 DEF RecentCapped
<1>12. EarlierThere'
  <2> SUFFICES ASSUME NEW d \in UnderWay PROVE check'[d].earlier <= Sum(rows', 0..(Window + check'[d].age))
    BY <1>6 DEF EarlierThere
  <2> DEFINE m == Window + check[d].age
  <2>1. /\ d \in LoopCalls /\ check'[d].age = check[d].age + 1 /\ check'[d].earlier = check[d].earlier
        /\ check[d].age \in 0..MaxCheck /\ check[d].age < MaxCheck
    BY <1>4 DEF UnderWay
  <2>2. m \in 0..Oldest /\ m < Oldest /\ Window + check'[d].age = m + 1
    BY <2>1, LoopAssumption DEF Oldest
  <2>3. Sum(rows', 0..(m + 1)) = Sum(rows, 0..m)
    <3> HIDE DEF m
    <3> QED BY <1>7, <2>2
  <2>4. check[d].earlier <= Sum(rows, 0..m)
    BY DEF EarlierThere
  <2> HIDE DEF m
  <2> QED BY <2>1, <2>2, <2>3, <2>4
<1>13. LoopSeen'
  BY <1>4 DEF LoopSeen
<1> QED BY <1>5, <1>10, <1>11, <1>12, <1>13

LEMMA LoopStepInv == LoopIInv /\ [LoopNext]_loopVars => LoopIInv'
<1> SUFFICES ASSUME LoopIInv, [LoopNext]_loopVars PROVE LoopIInv'
  OBVIOUS
<1>1. ASSUME NEW c \in LoopCalls, InsertEvent(c) \/ FallBack(c) \/ LoopAnswered(c) PROVE LoopIInv'
  <2>1. check[c] \in Checks /\ NoCheck \in Checks
    BY LoopBounds DEF LoopIInv, LoopShape, NoCheck, Checks
  <2>2. CASE InsertEvent(c)
    <3> DEFINE new == [check[c] EXCEPT !.at = "inserted"]
    <3>1. /\ new \in Checks /\ new.at = "inserted" /\ new.age = check[c].age /\ new.earlier = check[c].earlier
          /\ check' = [check EXCEPT ![c] = new] /\ UNCHANGED <<rows, recent>> /\ c \in UnderWay
      BY <2>1, <2>2 DEF InsertEvent, Checks, UnderWay
    <3> HIDE DEF new
    <3> QED BY <3>1, <1>1, MovesKeep
  <2>3. CASE FallBack(c)
    <3> DEFINE new == [check[c] EXCEPT !.at = "fellback"]
    <3>1. /\ new \in Checks /\ new.at = "fellback"
          /\ check' = [check EXCEPT ![c] = new] /\ UNCHANGED <<rows, recent>>
      BY <2>1, <2>3 DEF FallBack, Checks
    <3> HIDE DEF new
    <3> QED BY <3>1, <1>1, MovesKeep
  <2>4. CASE LoopAnswered(c)
    <3>1. NoCheck.at = "idle" /\ check' = [check EXCEPT ![c] = NoCheck] /\ UNCHANGED <<rows, recent>>
      BY <2>4 DEF LoopAnswered, NoCheck
    <3> QED BY <2>1, <3>1, <1>1, MovesKeep
  <2> QED BY <1>1, <2>2, <2>3, <2>4
<1>2. ASSUME NEW c \in LoopCalls, BeginCheck(c) PROVE LoopIInv'
  BY <1>2, BeginKeeps
<1>3. ASSUME NEW c \in LoopCalls, CountEvents(c) PROVE LoopIInv'
  BY <1>3, CountKeeps
<1>4. CASE LoopTick
  BY <1>4, TickKeeps
<1>5. CASE UNCHANGED loopVars
  BY <1>5 DEF loopVars, LoopIInv, LoopShape, RowsCapped, RecentCapped, EarlierThere, LoopSeen, UnderWay
<1> QED BY <1>1, <1>2, <1>3, <1>4, <1>5 DEF LoopNext

LEMMA LoopSpecInv == LoopSpec => []LoopIInv
BY LoopInitInv, LoopStepInv, PTL DEF LoopSpec

(* No age has more rows than there are altogether. *)
THEOREM LoopTyped == LoopSpec => []LoopTypeOK
<1>1. ASSUME NEW f, NEW S, IsFiniteSet(S), \A a \in S : f[a] \in Nat, Sum(f, S) <= MaxRows, NEW a \in S
      PROVE  f[a] \in 0..MaxRows
  <2>1. Sum(f, S) = f[a] + Sum(f, S \ {a})
    BY <1>1, SumRemove
  <2>2. Sum(f, S \ {a}) \in Nat
    BY <1>1, FS_Subset, SumType
  <2> DEFINE A == Sum(f, S)  B == Sum(f, S \ {a})
  <2>3. A = f[a] + B /\ B \in Nat /\ A <= MaxRows /\ f[a] \in Nat
    BY <1>1, <2>1, <2>2
  <2> HIDE DEF A, B
  <2> QED BY <2>3, LoopBounds
<1>2. LoopIInv => LoopTypeOK
  <2> SUFFICES ASSUME LoopIInv PROVE LoopTypeOK
    OBVIOUS
  <2>1. /\ \A a \in Ages : rows[a] \in Nat
        /\ \A a \in 0..Window : recent[a] \in Nat
    BY DEF LoopIInv, LoopShape
  <2>2. Sum(rows, Ages) <= MaxRows /\ Sum(recent, 0..Window) <= MaxRows
    <3>1. Sum(rows, Ages) \in Nat /\ Cardinality(UnderWay) \in Nat /\ Sum(rows, Ages) + Cardinality(UnderWay) <= MaxRows
      BY LoopSumsTyped, UnderWayFinite DEF LoopIInv, RowsCapped
    <3> DEFINE A == Sum(rows, Ages)  U == Cardinality(UnderWay)
    <3>2. A \in Nat /\ U \in Nat /\ A + U <= MaxRows
      BY <3>1
    <3>3. A <= MaxRows
      <4> HIDE DEF A, U
      <4> QED BY <3>2, LoopBounds
    <3> QED BY <3>3 DEF LoopIInv, RecentCapped
  <2>3. /\ \A a \in Ages : rows[a] \in 0..MaxRows
        /\ \A a \in 0..Window : recent[a] \in 0..MaxRows
    BY <1>1, <2>1, <2>2, LoopBounds
  <2> QED BY <2>3 DEF LoopIInv, LoopShape, LoopTypeOK, Checks
<1> QED BY <1>2, LoopSpecInv, PTL

(* A check that found the loop complete before it began calls it, for every
   threshold, window and number of checks that overlap it. *)
THEOREM LoopsAreSeen == LoopSpec => []LoopSeen
BY LoopSpecInv, PTL DEF LoopIInv

-----------------------------------------------------------------------------
(***************************************************************************)
(* The anomaly monitor, for every cooldown and every bound on a scan.      *)
(***************************************************************************)
(* A scan takes no longer than its bound; the cooldown is never older than the
   begin of a scan that ended with the last alert; and a scan that began after an
   alert was sent found the cooldown over. *)
AlertsInv ==
  /\ \A a \in alerts : a.ended <= a.began /\ a.began <= a.ended + ScanLimit
  /\ \A a \in alerts : lastAlerted <= a.ended + ScanLimit
  /\ \A began \in scans, a \in alerts :
       a.ended > began => a.began - began >= AlertCooldown - ScanLimit

MonitorIInv == MonitorTypeOK /\ AlertsInv

LEMMA MonitorInitInv == MonitorInit => MonitorIInv
BY CooldownAssumption DEF MonitorInit, MonitorIInv, MonitorTypeOK, AlertsInv

LEMMA MonitorStepInv == MonitorIInv /\ [MonitorNext]_monitorVars => MonitorIInv'
<1> SUFFICES ASSUME MonitorIInv, [MonitorNext]_monitorVars PROVE MonitorIInv'
    OBVIOUS
<1> USE CooldownAssumption DEF MonitorIInv, MonitorTypeOK, Long
<1>1. CASE StartScan
  <2>1. /\ scans' = scans \cup {0} /\ UNCHANGED <<lastAlerted, alerts>> /\ lastAlerted >= AlertCooldown
    BY <1>1 DEF StartScan
  <2> QED BY <2>1 DEF AlertsInv
<1>2. ASSUME NEW began \in scans, Unflagged(began) PROVE MonitorIInv'
  BY <1>2 DEF Unflagged, AlertsInv
<1>3. ASSUME NEW began \in scans, Flagged(began) PROVE MonitorIInv'
  <2>1. /\ scans' = scans \ {began} /\ lastAlerted' \in 0..AlertCooldown /\ lastAlerted' <= began
        /\ alerts' = alerts \cup {[began |-> began, ended |-> 0]} /\ began \in 0..ScanLimit
    BY <1>3 DEF Flagged
  <2>2. MonitorTypeOK'
    BY <2>1
  <2>3. \A a \in alerts' : a \in alerts \/ (a.began = began /\ a.ended = 0)
    BY <2>1
  <2>4. AlertsInv'
    BY <2>1, <2>3 DEF AlertsInv
  <2> QED BY <2>2, <2>4
<1>4. CASE MonitorTick
  <2>1. /\ \A began \in scans : began < ScanLimit
        /\ scans' = {began + 1 : began \in scans}
        /\ lastAlerted' \in 0..AlertCooldown /\ lastAlerted' <= lastAlerted + 1
    <3>1. lastAlerted' = IF lastAlerted < AlertCooldown THEN lastAlerted + 1 ELSE AlertCooldown
      BY <1>4 DEF MonitorTick
    <3>2. lastAlerted \in Int /\ 0 <= lastAlerted /\ lastAlerted <= AlertCooldown
      OBVIOUS
    <3>3. lastAlerted' \in 0..AlertCooldown /\ lastAlerted' <= lastAlerted + 1
      <4> HIDE DEF MonitorIInv, MonitorTypeOK, Long
      <4> QED BY <3>1, <3>2
    <3> QED BY <1>4, <3>3 DEF MonitorTick
  <2>2. ASSUME NEW b \in alerts'
        PROVE  /\ b \in [began : 0..Long, ended : 0..Long]
               /\ \E a \in alerts : b.began = a.began + 1 /\ b.ended = a.ended + 1
    <3>1. PICK a \in alerts : b = [began |-> Older(a.began), ended |-> Older(a.ended)] /\ b.began < Long
      BY <1>4 DEF MonitorTick
    <3>2. a.began \in 0..Long /\ a.ended \in 0..Long /\ a.ended <= a.began
      BY DEF AlertsInv
    <3> QED BY <3>1, <3>2 DEF Older
  <2>3. MonitorTypeOK'
    BY <2>1, <2>2
  <2>4. ASSUME NEW b \in alerts'
        PROVE  /\ b.ended <= b.began /\ b.began <= b.ended + ScanLimit
               /\ lastAlerted' <= b.ended + ScanLimit
    <3>1. PICK a \in alerts : b.began = a.began + 1 /\ b.ended = a.ended + 1
      BY <2>2
    <3>2. a.began \in 0..Long /\ a.ended \in 0..Long
      OBVIOUS
    <3> QED BY <2>1, <3>1, <3>2 DEF AlertsInv
  <2>5. ASSUME NEW s \in scans', NEW b \in alerts', b.ended > s
        PROVE  b.began - s >= AlertCooldown - ScanLimit
    <3>1. PICK a \in alerts : b.began = a.began + 1 /\ b.ended = a.ended + 1
      BY <2>2
    <3>2. PICK began \in scans : s = began + 1
      BY <2>1
    <3>3. a.began \in 0..Long /\ a.ended \in 0..Long /\ began \in 0..ScanLimit
      OBVIOUS
    <3>4. a.ended > began
      BY <2>5, <3>1, <3>2, <3>3
    <3>5. a.began - began >= AlertCooldown - ScanLimit
      BY <3>4 DEF AlertsInv
    <3> QED BY <3>1, <3>2, <3>3, <3>5
  <2> QED BY <2>3, <2>4, <2>5 DEF AlertsInv
<1>5. CASE UNCHANGED monitorVars
  BY <1>5 DEF monitorVars, AlertsInv
<1> QED BY <1>1, <1>2, <1>3, <1>4, <1>5 DEF MonitorNext

LEMMA MonitorSpecInv == MonitorSpec => []MonitorIInv
BY MonitorInitInv, MonitorStepInv, PTL DEF MonitorSpec

(* The ages of scans and alerts keep their ranges. *)
THEOREM MonitorTyped == MonitorSpec => []MonitorTypeOK
BY MonitorSpecInv, PTL DEF MonitorIInv

(* Two alerts of scans that do not overlap are a cooldown apart, less one scan,
   for every cooldown and every bound on the scans, however many overlap. *)
THEOREM AlertsStayApart == MonitorSpec => AlertsApart
<1>1. MonitorIInv /\ [MonitorNext]_monitorVars =>
        [\A began \in scans :
           alerts' = alerts \cup {[began |-> began, ended |-> 0]} /\ alerts' # alerts
             => \A a \in alerts : a.ended > began => a.began - began >= AlertCooldown - ScanLimit]_monitorVars
  BY DEF MonitorIInv, AlertsInv
<1> QED BY <1>1, MonitorSpecInv, PTL DEF MonitorSpec, AlertsApart

-----------------------------------------------------------------------------
(***************************************************************************)
(* The active policy.  The walk stops at a rung of the ladder, so what is  *)
(* recommended was measured in a bucket the class may use.                 *)
(***************************************************************************)
(* A set of places has a first one, tasks before complexities. *)
LEMMA FirstRung ==
  ASSUME NEW T, NEW C, T \subseteq Nat, C \subseteq Nat, NEW R \in SUBSET (T \X C), R # {}
  PROVE  \E r \in R : \A s \in R : NotAfter(r, s)
<1> DEFINE I == {r[1] : r \in R}
<1>1. I \subseteq Nat /\ I # {}
  OBVIOUS
<1>2. PICK i \in I : \A k \in I : i <= k
  <2> HIDE DEF I
  <2> QED BY <1>1, Least
<1> DEFINE J == {r[2] : r \in {s \in R : s[1] = i}}
<1>3. J \subseteq Nat /\ J # {}
  BY <1>2
<1>4. PICK j \in J : \A k \in J : j <= k
  <2> HIDE DEF J
  <2> QED BY <1>3, Least
<1>5. PICK r \in R : r[1] = i /\ r[2] = j
  BY <1>4
<1>6. ASSUME NEW s \in R PROVE NotAfter(r, s)
  <2>1. s[1] \in Nat /\ s[1] \in I /\ i \in Nat
    BY <1>1, <1>2
  <2>2. i <= s[1]
    BY <1>2, <2>1
  <2>3. s[1] = i => s[2] \in J
    OBVIOUS
  <2>4. s[1] = i => j <= s[2]
    BY <1>4, <2>3
  <2> HIDE DEF I, J
  <2> QED BY <1>5, <2>1, <2>2, <2>4 DEF NotAfter
<1> QED BY <1>6

(* A request the router may see. *)
Asking(a) == /\ a.policy \in Artifacts /\ a.task \in Tasks /\ a.complexity \in Complexities

(* The fallbacks are tasks and complexities; strict classes have none. *)
LEMMA Fallbacks ==
  ASSUME NEW a, Asking(a)
  PROVE  /\ DOMAIN TaskFallback(a.task) \subseteq Nat /\ DOMAIN ComplexityFallback(a.complexity) \subseteq Nat
         /\ Range(TaskFallback(a.task)) \subseteq Tasks
         /\ Range(ComplexityFallback(a.complexity)) \subseteq Complexities
         /\ Strict(a) => Range(ComplexityFallback(a.complexity)) = {a.complexity}
<1>1. /\ DOMAIN TaskFallback(a.task) \subseteq Nat
      /\ Range(TaskFallback(a.task)) \subseteq Tasks
  BY DEF TaskFallback, Tasks, Range, Asking
<1>2. CASE a.complexity = "simple"
  BY <1>1, <1>2 DEF ComplexityFallback, Complexities, Range, Strict
<1>3. CASE a.complexity = "medium"
  BY <1>1, <1>3 DEF ComplexityFallback, Complexities, Range, Strict
<1>4. CASE a.complexity \in {"hard", "frontier"}
  BY <1>1, <1>4 DEF ComplexityFallback, Complexities, Range, Strict
<1> QED BY <1>2, <1>3, <1>4 DEF Asking, Complexities

(* The bucket that is used is one of the ladder. *)
LEMMA BucketOnLadder ==
  ASSUME NEW a, Asking(a), Bucket(a) # <<>>
  PROVE  \E t \in Range(TaskFallback(a.task)), c \in Range(ComplexityFallback(a.complexity)) :
           Bucket(a) = a.policy[<<t, c>>]
<1> DEFINE T == DOMAIN TaskFallback(a.task)
           C == DOMAIN ComplexityFallback(a.complexity)
           R == {r \in Rungs(a) : Rung(a, r) # <<>>}
<1>1. T \subseteq Nat /\ C \subseteq Nat /\ R \in SUBSET (T \X C)
  BY Fallbacks DEF Rungs
<1>2. R # {}
  BY DEF Bucket
<1>3. Bucket(a) = Rung(a, CHOOSE r \in R : \A s \in R : NotAfter(r, s))
  BY <1>2 DEF Bucket
<1> HIDE DEF T, C, R
<1>4. \E r \in R : \A s \in R : NotAfter(r, s)
  BY <1>1, <1>2, FirstRung
<1>5. PICK r \in R : Bucket(a) = Rung(a, r)
  BY <1>3, <1>4
<1>6. r[1] \in T /\ r[2] \in C
  BY <1>1, <1>5
<1> QED BY <1>5, <1>6 DEF Rung, T, C, Range

(* The entry of a model in its bucket. *)
LEMMA EntryIs ==
  ASSUME NEW a, Asking(a), NEW t \in Tasks, NEW c \in Complexities, NEW i \in DOMAIN a.policy[<<t, c>>]
  PROVE  a.policy[<<t, c>>][i].cost \in Int /\ Stats(a.policy[<<t, c>>], a.policy[<<t, c>>][i].model) = a.policy[<<t, c>>][i]
<1> DEFINE b == a.policy[<<t, c>>]
<1>1. \A j, k \in DOMAIN b : b[j].cost \in Int /\ (b[j].model = b[k].model => j = k)
  BY ArtifactsAssumption DEF Asking
<1> HIDE DEF b
<1>2. i \in DOMAIN b
  BY DEF b
<1>3. \E s \in Range(b) : s.model = b[i].model
  BY <1>2 DEF Range
<1>4. Stats(b, b[i].model) \in Range(b) /\ Stats(b, b[i].model).model = b[i].model
  BY <1>3 DEF Stats
<1>5. PICK j \in DOMAIN b : Stats(b, b[i].model) = b[j]
  BY <1>4 DEF Range
<1>6. j = i
  BY <1>1, <1>2, <1>4, <1>5
<1> QED BY <1>1, <1>2, <1>5, <1>6 DEF b

(* RewriteJustified, of a request and any model. *)
Justified(a, aside, model) ==
  \E t \in Range(TaskFallback(a.task)), c \in Range(ComplexityFallback(a.complexity)) :
    LET b == a.policy[<<t, c>>] IN
    /\ model \in Models(b)
    /\ Stats(b, model).quality >= Floor(a, b)
    /\ a.original \in Models(b) => Stats(b, model).cost < Stats(b, a.original).cost
    /\ \A s \in Range(b) : s.quality >= Floor(a, b) /\ s.cost < Stats(b, model).cost => s.model \in aside
    /\ Strict(a) => c = a.complexity /\ a.original \in Models(b) /\ Stats(b, model).n >= MinSamples

(* What is recommended is justified by the bucket it comes from. *)
LEMMA RecommendationJustified ==
  ASSUME NEW a, Asking(a), NEW aside, NEW s \in Recommended(a, aside)
  PROVE  Justified(a, aside, s.model)
<1>1. /\ s \in Cheapest(a, Bucket(a), aside)
      /\ Strict(a) => a.original \in Models(Bucket(a)) /\ s.n >= MinSamples
      /\ a.original \in Models(Bucket(a)) => s.cost < Stats(Bucket(a), a.original).cost
  BY DEF Recommended
<1>2. PICK j \in DOMAIN Bucket(a) :
        /\ s = Bucket(a)[j] /\ s.quality >= Floor(a, Bucket(a))
        /\ \A k \in DOMAIN Bucket(a) :
             Bucket(a)[k].quality >= Floor(a, Bucket(a)) /\ Bucket(a)[k].model \notin aside =>
               s.cost < Bucket(a)[k].cost \/ (s.cost = Bucket(a)[k].cost /\ j <= k)
  BY <1>1 DEF Cheapest
<1>3. Bucket(a) # <<>>
  BY <1>2
<1>4. PICK t \in Range(TaskFallback(a.task)), c \in Range(ComplexityFallback(a.complexity)) :
        Bucket(a) = a.policy[<<t, c>>]
  BY <1>3, BucketOnLadder
<1> DEFINE b == a.policy[<<t, c>>]
<1>5. t \in Tasks /\ c \in Complexities /\ (Strict(a) => c = a.complexity)
  BY Fallbacks
<1>6. \A k \in DOMAIN b : b[k].cost \in Int /\ Stats(b, b[k].model) = b[k]
  BY <1>5, EntryIs
<1>7. /\ j \in DOMAIN b /\ s = b[j] /\ s.quality >= Floor(a, b)
      /\ \A k \in DOMAIN b : b[k].quality >= Floor(a, b) /\ b[k].model \notin aside =>
               s.cost < b[k].cost \/ (s.cost = b[k].cost /\ j <= k)
  BY <1>2, <1>4
<1>8. /\ Strict(a) => a.original \in Models(b) /\ s.n >= MinSamples
      /\ a.original \in Models(b) => s.cost < Stats(b, a.original).cost
  BY <1>1, <1>4
<1> HIDE DEF b
<1>9. s.model \in Models(b) /\ Stats(b, s.model) = s /\ s.cost \in Int
  BY <1>6, <1>7 DEF Models
<1>10. ASSUME NEW r \in Range(b), r.quality >= Floor(a, b), r.cost < s.cost PROVE r.model \in aside
  <2>1. PICK k \in DOMAIN b : r = b[k]
    BY DEF Range
  <2>2. r.cost \in Int
    BY <1>6, <2>1
  <2> QED BY <1>7, <1>9, <1>10, <2>1, <2>2
<1>11. /\ s.model \in Models(b)
       /\ Stats(b, s.model).quality >= Floor(a, b)
       /\ a.original \in Models(b) => Stats(b, s.model).cost < Stats(b, a.original).cost
       /\ \A r \in Range(b) : r.quality >= Floor(a, b) /\ r.cost < Stats(b, s.model).cost => r.model \in aside
       /\ Strict(a) => c = a.complexity /\ a.original \in Models(b) /\ Stats(b, s.model).n >= MinSamples
  BY <1>5, <1>7, <1>8, <1>9, <1>10
<1> QED BY <1>11 DEF Justified, b

BaselineIInv ==
  /\ BaselineTypeOK
  /\ routed \notin {Undecided, Kept} => Justified(asked, excluded, routed)

(* What is justified was measured. *)
LEMMA JustifiedIsMeasured ==
  ASSUME NEW a, Asking(a), NEW aside, NEW model, Justified(a, aside, model)
  PROVE  model \in MeasuredModels(a)
<1>1. PICK t \in Range(TaskFallback(a.task)), c \in Range(ComplexityFallback(a.complexity)) :
        model \in Models(a.policy[<<t, c>>])
  BY DEF Justified
<1>2. t \in Tasks /\ c \in Complexities
  BY Fallbacks
<1> QED BY <1>1, <1>2 DEF MeasuredModels

LEMMA BaselineInitInv == BaselineInit => BaselineIInv
BY DEF BaselineInit, BaselineIInv, BaselineTypeOK

LEMMA BaselineStepInv == BaselineIInv /\ [BaselineNext]_baselineVars => BaselineIInv'
<1> SUFFICES ASSUME BaselineIInv, [BaselineNext]_baselineVars PROVE BaselineIInv'
  OBVIOUS
<1> USE DEF BaselineIInv, BaselineTypeOK
<1>0. Asking(asked)
  BY DEF Asking
<1>1. CASE KeepModel
  BY <1>1 DEF KeepModel
<1>2. CASE Rewrite
  <2>1. PICK s \in Recommended(asked, excluded) : routed' = s.model
    BY <1>2 DEF Rewrite
  <2>2. asked' = asked /\ excluded' = excluded
    BY <1>2 DEF Rewrite
  <2>3. Justified(asked, excluded, s.model)
    BY <1>0, RecommendationJustified
  <2>4. s.model \in MeasuredModels(asked)
    BY <1>0, <2>3, JustifiedIsMeasured
  <2> QED BY <2>1, <2>2, <2>3, <2>4
<1>3. CASE PutAside
  <2>1. PICK s \in Recommended(asked, excluded) : excluded' = excluded \cup {s.model}
    BY <1>3 DEF PutAside
  <2>2. asked' = asked /\ routed' = routed /\ routed = Undecided
    BY <1>3 DEF PutAside
  <2>3. s.model \in MeasuredModels(asked)
    BY <1>0, RecommendationJustified, JustifiedIsMeasured
  <2> QED BY <2>1, <2>2, <2>3
<1>4. CASE UNCHANGED baselineVars
  BY <1>4 DEF baselineVars
<1> QED BY <1>1, <1>2, <1>3, <1>4 DEF BaselineNext

LEMMA BaselineSpecInv == BaselineSpec => []BaselineIInv
BY BaselineInitInv, BaselineStepInv, PTL DEF BaselineSpec

(* For any artifacts, what is put aside or chosen is a model some bucket of the
   policy measured. *)
THEOREM BaselineTyped == BaselineSpec => []BaselineTypeOK
<1>1. BaselineIInv => BaselineTypeOK
  BY DEF BaselineIInv
<1> QED BY <1>1, BaselineSpecInv, PTL

(* A request is rewritten only on evidence of a bucket its class may use, for
   any artifacts, tolerance and sample bound and whatever models no provider
   resolves. *)
THEOREM RewritesAreJustified == BaselineSpec => []RewriteJustified
<1>1. BaselineIInv => RewriteJustified
  BY DEF BaselineIInv, RewriteJustified, Justified
<1> QED BY <1>1, BaselineSpecInv, PTL

=============================================================================
