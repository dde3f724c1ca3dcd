----------------------------- MODULE PolicyProofs -----------------------------
(***************************************************************************)
(* Proofs about the policy store: how stale a cached policy can be         *)
(* (PolicyLoader), for any tags, any TTL, any number of promotions and of  *)
(* overlapping lookups.                                                    *)
(***************************************************************************)
EXTENDS PolicyLoader, Sums, SequenceTheorems, TLAPS

(* The part of the type invariant that does not depend on the bounds. *)
AnyPolicy == [lane : Lanes \cup {"baseline", "unread"}, version : Nat]
LoaderShape ==
  /\ active \in [Lanes -> Nat]
  /\ since \in [Lanes -> 0..Ttl]
  /\ cache \in [Lanes -> [policy : AnyPolicy, left : 0..Ttl]]
  /\ loads \subseteq [key : Lanes, policy : AnyPolicy, left : 0..Ttl]
  /\ unsent \subseteq Lanes
  /\ notices \in Seq(Lanes)

(* A policy for key that is not what the database says went out of date after
   its lookup asked: a row it depends on changed at most Ttl - left ticks ago. *)
FreshWhenAsked(key, policy, left) ==
  policy \notin {Resolve(key), Unread}
    => since[key] <= Ttl - left \/ since[Default] <= Ttl - left

LoadsFresh == \A load \in loads : FreshWhenAsked(load.key, load.policy, load.left)

EntriesFresh ==
  \A k \in Lanes : Live(cache[k]) => FreshWhenAsked(k, cache[k].policy, cache[k].left)

LoaderInv == LoaderShape /\ LoadsFresh /\ EntriesFresh

-----------------------------------------------------------------------------

LEMMA Lookups ==
  LoaderShape => /\ \A k \in Lanes : Resolve(k) \in AnyPolicy
                 /\ Unread \in AnyPolicy /\ Baseline \in AnyPolicy
BY DEF LoaderShape, Resolve, AnyPolicy, Unread, Baseline, Lanes

(* Every step but a promotion leaves what the database says alone; every step
   but these two leaves the clock alone. *)
LEMMA SameRows ==
  ASSUME UNCHANGED <<active, since>>, NEW key, NEW policy, NEW left,
         FreshWhenAsked(key, policy, left)
  PROVE  FreshWhenAsked(key, policy, left)'
BY DEF FreshWhenAsked, Resolve

(* A promotion that puts a policy out of date has just happened. *)
LEMMA Promoted ==
  ASSUME LoaderShape, NEW lane \in Lanes, Activate(lane), NEW key \in Lanes,
         NEW policy, NEW left \in 0..Ttl, FreshWhenAsked(key, policy, left)
  PROVE  FreshWhenAsked(key, policy, left)'
<1>1. active' = [active EXCEPT ![lane] = active[lane] + 1]
  BY DEF Activate
<1>2. since' = [since EXCEPT ![lane] = 0]
  BY DEF Activate
<1>3. Default \in Lanes
  BY DEF Lanes
<1>4. CASE lane \in {key, Default}
  <2>1. since'[key] = 0 \/ since'[Default] = 0
    BY <1>2, <1>3, <1>4 DEF LoaderShape
  <2>2. 0 <= Ttl - left
    BY TtlAssumption
  <2> QED
    BY <2>1, <2>2 DEF FreshWhenAsked
<1>5. CASE lane \notin {key, Default}
  <2>1. Resolve(key)' = Resolve(key)
    BY <1>1, <1>3, <1>5 DEF LoaderShape, Resolve
  <2>2. since'[key] = since[key] /\ since'[Default] = since[Default]
    BY <1>2, <1>3, <1>5 DEF LoaderShape
  <2> QED
    BY <2>1, <2>2 DEF FreshWhenAsked
<1> QED
  BY <1>4, <1>5

LEMMA LoaderInit == Init => LoaderInv
BY TtlAssumption
   DEF Init, LoaderInv, LoaderShape, LoadsFresh, EntriesFresh, FreshWhenAsked,
       NoEntry, Baseline, AnyPolicy, Live, Lanes

-----------------------------------------------------------------------------

LEMMA ActivateShape ==
  ASSUME LoaderShape, NEW lane \in Lanes, Activate(lane)
  PROVE  active' \in [Lanes -> Nat] /\ since' \in [Lanes -> 0..Ttl]
<1>1. active' = [active EXCEPT ![lane] = active[lane] + 1]
  BY DEF Activate
<1>2. since' = [since EXCEPT ![lane] = 0]
  BY DEF Activate
<1>3. active[lane] + 1 \in Nat /\ 0 \in 0..Ttl
  BY TtlAssumption DEF LoaderShape
<1> QED
  BY <1>1, <1>2, <1>3 DEF LoaderShape

(* A notice names the lane it is published for. *)
LEMMA PublishType ==
  ASSUME notices \in Seq(Lanes), NEW lane \in Lanes, Publish(lane)
  PROVE  notices' \in Seq(Lanes)
<1>1. Append(notices, lane) \in Seq(Lanes)
  BY AppendProperties
<1> QED
  BY <1>1 DEF Publish

LEMMA StepShape == LoaderShape /\ [Next]_vars => LoaderShape'
<1> SUFFICES ASSUME LoaderShape, [Next]_vars
             PROVE  LoaderShape'
  OBVIOUS
<1> USE TtlAssumption, Lookups
<1>0. NoEntry \in [policy : AnyPolicy, left : 0..Ttl] /\ Default \in Lanes
  BY DEF NoEntry, Lanes
<1>1. ASSUME NEW k \in Lanes, Load(k) PROVE LoaderShape'
  BY <1>1 DEF LoaderShape, Load
<1>2. ASSUME NEW load \in loads, Store(load) PROVE LoaderShape'
  BY <1>2 DEF LoaderShape, Store
<1>3. ASSUME NEW l \in Lanes, Retrain(l) PROVE LoaderShape'
  BY <1>3, ActivateShape DEF LoaderShape, Retrain
<1>4. ASSUME NEW l \in Lanes, NotifyPolicyChanged(l) PROVE LoaderShape'
  <2>1. notices \in Seq(Lanes) /\ Publish(l)
    BY <1>4 DEF LoaderShape, NotifyPolicyChanged
  <2>2. notices' \in Seq(Lanes)
    BY <2>1, PublishType
  <2>3. unsent' \subseteq Lanes
    BY <1>4 DEF LoaderShape, NotifyPolicyChanged
  <2>4. UNCHANGED <<active, since, cache, loads>>
    BY <1>4 DEF NotifyPolicyChanged
  <2> QED
    BY <2>2, <2>3, <2>4 DEF LoaderShape
<1>5. ASSUME NEW l \in Lanes, NotifyFails(l) PROVE LoaderShape'
  BY <1>5 DEF LoaderShape, NotifyFails
<1>6. ASSUME NEW l \in Lanes, Rollback(l) PROVE LoaderShape'
  <2>1. active' \in [Lanes -> Nat] /\ since' \in [Lanes -> 0..Ttl]
    BY <1>6, ActivateShape DEF Rollback
  <2>2. UNCHANGED <<cache, loads, unsent>>
    BY <1>6 DEF Rollback
  <2>3. notices \in Seq(Lanes) /\ Publish(l)
    BY <1>6 DEF LoaderShape, Rollback
  <2>4. notices' \in Seq(Lanes)
    BY <2>3, PublishType
  <2> QED
    BY <2>1, <2>2, <2>4 DEF LoaderShape
<1>7. CASE Deliver
  <2>1. notices' \in Seq(Lanes)
    BY <1>7 DEF LoaderShape, Deliver
  <2>2. cache' \in [Lanes -> [policy : AnyPolicy, left : 0..Ttl]]
    BY <1>0, <1>7 DEF LoaderShape, Deliver
  <2> QED
    BY <1>7, <2>1, <2>2 DEF LoaderShape, Deliver
<1>8. CASE FlushAll
  BY <1>0, <1>8 DEF LoaderShape, FlushAll
<1>9. CASE Disconnect
  BY <1>9 DEF LoaderShape, Disconnect
<1>10. CASE Reconnect
  BY <1>10 DEF LoaderShape, Reconnect
<1>11. CASE Tick
  <2>1. since' \in [Lanes -> 0..Ttl]
    BY <1>11 DEF LoaderShape, Tick
  <2>2. cache' \in [Lanes -> [policy : AnyPolicy, left : 0..Ttl]]
    <3>1. ASSUME NEW k \in Lanes
          PROVE  Aged(cache[k]) \in [policy : AnyPolicy, left : 0..Ttl]
      <4>1. cache[k] \in [policy : AnyPolicy, left : 0..Ttl]
        BY DEF LoaderShape
      <4>2. cache[k].left > 1 => cache[k].left - 1 \in 0..Ttl
        BY <4>1
      <4> QED
        BY <1>0, <4>1, <4>2 DEF Aged
    <3>2. cache' = [k \in Lanes |-> Aged(cache[k])]
      BY <1>11 DEF Tick
    <3> QED
      BY <3>1, <3>2
  <2>3. loads' \subseteq [key : Lanes, policy : AnyPolicy, left : 0..Ttl]
    <3>1. ASSUME NEW load \in loads
          PROVE  [load EXCEPT !.left = Sooner(@)] \in
                   [key : Lanes, policy : AnyPolicy, left : 0..Ttl]
      <4>1. load \in [key : Lanes, policy : AnyPolicy, left : 0..Ttl]
        BY DEF LoaderShape
      <4>2. Sooner(load.left) \in 0..Ttl
        BY <4>1 DEF Sooner
      <4> QED
        BY <4>1, <4>2
    <3>2. loads' = {[load EXCEPT !.left = Sooner(@)] : load \in loads}
      BY <1>11 DEF Tick
    <3> QED
      BY <3>1, <3>2
  <2> QED
    BY <1>11, <2>1, <2>2, <2>3 DEF LoaderShape, Tick
<1>12. CASE UNCHANGED vars
  BY <1>12 DEF LoaderShape, vars
<1> QED
  BY <1>1, <1>2, <1>3, <1>4, <1>5, <1>6, <1>7, <1>8, <1>9, <1>10, <1>11, <1>12
     DEF Next

(* Time passes: what is left shrinks as fast as the change grows older. *)
LEMMA Older ==
  ASSUME LoaderShape, Tick, NEW key \in Lanes, NEW policy, NEW left \in 1..Ttl,
         FreshWhenAsked(key, policy, left)
  PROVE  FreshWhenAsked(key, policy, left - 1)'
<1> USE TtlAssumption DEF LoaderShape, Tick, Lanes
<1>1. Resolve(key)' = Resolve(key)
  BY DEF Resolve
<1>2. \A l \in Lanes : \A n \in 1..Ttl : since[l] <= Ttl - n => since'[l] <= Ttl - (n - 1)
  OBVIOUS
<1> QED
  BY <1>1, <1>2 DEF FreshWhenAsked

(* A policy with no time left was asked for at least Ttl ticks ago. *)
LEMMA Timeless ==
  ASSUME LoaderShape, NEW key \in Lanes, NEW policy
  PROVE  FreshWhenAsked(key, policy, 0)
BY TtlAssumption DEF LoaderShape, FreshWhenAsked

LEMMA StepLoadsFresh == LoaderShape /\ LoadsFresh /\ [Next]_vars => LoadsFresh'
<1> SUFFICES ASSUME LoaderShape, LoadsFresh, [Next]_vars, NEW load \in loads'
             PROVE  FreshWhenAsked(load.key, load.policy, load.left)'
  BY DEF LoadsFresh
<1> USE TtlAssumption
<1>0. LoaderShape'
  BY StepShape
<1>1. ASSUME NEW k \in Lanes, Load(k)
      PROVE  FreshWhenAsked(load.key, load.policy, load.left)'
  <2>1. CASE load \in loads
    BY <1>1, <2>1, SameRows DEF LoadsFresh, Load
  <2>2. CASE load \notin loads
    <3>1. load.key = k /\ load.policy \in {Resolve(k), Unread}
      BY <1>1, <2>2 DEF Load
    <3>2. Resolve(k)' = Resolve(k)
      BY <1>1 DEF Load, Resolve
    <3> QED
      BY <3>1, <3>2 DEF FreshWhenAsked
  <2> QED
    BY <2>1, <2>2
<1>2. ASSUME NEW lane \in Lanes, Retrain(lane) \/ Rollback(lane)
      PROVE  FreshWhenAsked(load.key, load.policy, load.left)'
  <2>1. Activate(lane) /\ load \in loads
    BY <1>2 DEF Retrain, Rollback
  <2>2. load.key \in Lanes /\ load.left \in 0..Ttl
    BY <2>1 DEF LoaderShape
  <2> QED
    BY <2>1, <2>2, Promoted DEF LoadsFresh
<1>3. CASE Tick
  <2>1. PICK old \in loads : load = [old EXCEPT !.left = Sooner(@)]
    BY <1>3 DEF Tick
  <2>2. /\ old.key \in Lanes /\ old.left \in 0..Ttl
        /\ load.key = old.key /\ load.policy = old.policy /\ load.left = Sooner(old.left)
    BY <2>1 DEF LoaderShape
  <2>3. CASE old.left = 0
    <3>1. load.left = 0
      BY <2>2, <2>3 DEF Sooner
    <3>2. since'[load.key] <= Ttl
      BY <1>0, <2>2 DEF LoaderShape
    <3> QED
      BY <3>1, <3>2 DEF FreshWhenAsked
  <2>4. CASE old.left # 0
    <3>1. old.left \in 1..Ttl /\ load.left = old.left - 1
      BY <2>2, <2>4 DEF Sooner
    <3>2. FreshWhenAsked(old.key, old.policy, old.left)
      BY DEF LoadsFresh
    <3>3. FreshWhenAsked(old.key, old.policy, old.left - 1)'
      BY <1>3, <2>2, <3>1, <3>2, Older
    <3> QED
      BY <2>2, <3>1, <3>3 DEF FreshWhenAsked
  <2> QED
    BY <2>3, <2>4
<1>4. ASSUME UNCHANGED <<active, since>>, loads' \subseteq loads
      PROVE  FreshWhenAsked(load.key, load.policy, load.left)'
  BY <1>4, SameRows DEF LoadsFresh
<1>5. ASSUME NEW other \in loads, Store(other)
      PROVE  FreshWhenAsked(load.key, load.policy, load.left)'
  BY <1>4, <1>5 DEF Store
<1>6. ASSUME NEW l \in Lanes, NotifyPolicyChanged(l) \/ NotifyFails(l)
      PROVE  FreshWhenAsked(load.key, load.policy, load.left)'
  BY <1>4, <1>6 DEF NotifyPolicyChanged, NotifyFails
<1>7. CASE Deliver \/ FlushAll \/ Disconnect \/ Reconnect \/ UNCHANGED vars
  BY <1>4, <1>7 DEF Deliver, FlushAll, Disconnect, Reconnect, vars
<1> QED
  BY <1>1, <1>2, <1>3, <1>5, <1>6, <1>7 DEF Next

LEMMA StepEntriesFresh ==
  LoaderShape /\ LoadsFresh /\ EntriesFresh /\ [Next]_vars => EntriesFresh'
<1> SUFFICES ASSUME LoaderShape, LoadsFresh, EntriesFresh, [Next]_vars,
                    NEW k \in Lanes, Live(cache[k])'
             PROVE  FreshWhenAsked(k, cache[k].policy, cache[k].left)'
  BY DEF EntriesFresh
<1> USE TtlAssumption
<1>0. cache[k].left \in 0..Ttl
  BY DEF LoaderShape
<1>1. ASSUME NEW load \in loads, Store(load)
      PROVE  FreshWhenAsked(k, cache[k].policy, cache[k].left)'
  <2>1. CASE k = load.key
    <3>1. cache'[k] = [policy |-> load.policy, left |-> load.left]
      BY <1>1, <2>1 DEF LoaderShape, Store
    <3>2. FreshWhenAsked(load.key, load.policy, load.left)'
      BY <1>1, SameRows DEF Store, LoadsFresh
    <3> QED
      BY <2>1, <3>1, <3>2 DEF FreshWhenAsked
  <2>2. CASE k # load.key
    <3>1. cache'[k] = cache[k]
      BY <1>1, <2>2 DEF LoaderShape, Store
    <3>2. FreshWhenAsked(k, cache[k].policy, cache[k].left)
      BY <3>1 DEF EntriesFresh, Live
    <3>3. UNCHANGED <<active, since>>
      BY <1>1 DEF Store
    <3> QED
      BY <3>1, <3>2, <3>3 DEF FreshWhenAsked, Resolve
  <2> QED
    BY <2>1, <2>2
<1>2. ASSUME NEW lane \in Lanes, Retrain(lane) \/ Rollback(lane)
      PROVE  FreshWhenAsked(k, cache[k].policy, cache[k].left)'
  <2>1. Activate(lane) /\ cache' = cache
    BY <1>2 DEF Retrain, Rollback
  <2>2. FreshWhenAsked(k, cache[k].policy, cache[k].left)
    BY <2>1 DEF EntriesFresh, Live
  <2>3. \A policy, left : left \in 0..Ttl /\ FreshWhenAsked(k, policy, left)
          => FreshWhenAsked(k, policy, left)'
    BY <2>1, Promoted
  <2> QED
    BY <1>0, <2>1, <2>2, <2>3 DEF FreshWhenAsked
<1>3. CASE Tick
  <2>1. cache'[k] = [cache[k] EXCEPT !.left = @ - 1] /\ cache[k].left > 1
    BY <1>0, <1>3 DEF LoaderShape, Tick, Aged, Live, NoEntry
  <2>2. /\ cache'[k].policy = cache[k].policy
        /\ cache'[k].left = cache[k].left - 1
        /\ cache[k].left \in 1..Ttl
    BY <1>0, <2>1 DEF LoaderShape
  <2>3. FreshWhenAsked(k, cache[k].policy, cache[k].left)
    BY <1>0, <2>1 DEF EntriesFresh, Live
  <2>4. \A policy, left : left \in 1..Ttl /\ FreshWhenAsked(k, policy, left)
          => FreshWhenAsked(k, policy, left - 1)'
    BY <1>3, Older
  <2> QED
    BY <2>2, <2>3, <2>4 DEF FreshWhenAsked
<1>4. ASSUME UNCHANGED <<active, since>>, cache'[k] \in {cache[k], NoEntry}
      PROVE  FreshWhenAsked(k, cache[k].policy, cache[k].left)'
  <2>1. cache'[k] = cache[k]
    BY <1>4 DEF Live, NoEntry
  <2>2. FreshWhenAsked(k, cache[k].policy, cache[k].left)
    BY <2>1 DEF EntriesFresh, Live
  <2> QED
    BY <1>4, <2>1, <2>2 DEF FreshWhenAsked, Resolve
<1>5. ASSUME NEW l \in Lanes, Load(l) \/ NotifyPolicyChanged(l) \/ NotifyFails(l)
      PROVE  FreshWhenAsked(k, cache[k].policy, cache[k].left)'
  BY <1>4, <1>5 DEF Load, NotifyPolicyChanged, NotifyFails
<1>6. CASE Deliver \/ FlushAll
  <2>1. cache'[k] \in {cache[k], NoEntry}
    BY <1>6 DEF LoaderShape, Deliver, FlushAll
  <2> QED
    BY <1>4, <1>6, <2>1 DEF Deliver, FlushAll
<1>7. CASE Disconnect \/ Reconnect \/ UNCHANGED vars
  BY <1>4, <1>7 DEF Disconnect, Reconnect, vars
<1> QED
  BY <1>1, <1>2, <1>3, <1>5, <1>6, <1>7 DEF Next

-----------------------------------------------------------------------------

(* The invariant the bound on staleness rests on: every policy in the cache or
   in a lookup under way was right when its lookup asked. *)
THEOREM LoaderInvariance == Spec => []LoaderInv
<1>1. LoaderInv /\ [Next]_vars => LoaderInv'
  BY StepShape, StepLoadsFresh, StepEntriesFresh DEF LoaderInv
<1> QED
  BY <1>1, LoaderInit, PTL DEF Spec

(* A cached policy is out of date by at most the TTL, with any interleaving of
   lookups, promotions and notifications, all of which may be lost. *)
THEOREM StalenessBounded == Spec => []StaleAtMostTtl
<1>1. LoaderInv => StaleAtMostTtl
  <2> SUFFICES ASSUME LoaderInv, NEW k \in Lanes, Live(cache[k]),
                      cache[k].policy \notin {Resolve(k), Unread}
               PROVE  since[k] < Ttl \/ since[Default] < Ttl
    BY DEF StaleAtMostTtl
  <2>1. since[k] <= Ttl - cache[k].left \/ since[Default] <= Ttl - cache[k].left
    BY DEF LoaderInv, EntriesFresh, FreshWhenAsked
  <2>2. cache[k].left \in 1..Ttl /\ since[k] \in 0..Ttl /\ since[Default] \in 0..Ttl
    BY TtlAssumption DEF LoaderInv, LoaderShape, Live, Lanes
  <2> QED
    BY <2>1, <2>2, TtlAssumption
<1> QED
  BY <1>1, LoaderInvariance, PTL

-----------------------------------------------------------------------------
(* The bounds: of all lanes together no more promotions than MaxVersion, so
   no lane's version passes it, and every policy that was ever looked up has
   one of those. *)

LEMMA VersionsBounded ==
  ASSUME LoaderTypeOK, NEW lane \in Lanes, Activate(lane)
  PROVE  active' \in [Lanes -> 0..MaxVersion] /\ since' \in [Lanes -> 0..Ttl]
<1>1. IsFiniteSet(Lanes)
  BY LanesAssumption, FS_AddElement DEF Lanes
<1>2. \A l \in Lanes : active[l] \in Nat
  BY LanesAssumption DEF LoaderTypeOK
<1>3. Sum(active, Lanes) = active[lane] + Sum(active, Lanes \ {lane})
  BY <1>1, <1>2, SumRemove
<1>4. Sum(active, Lanes \ {lane}) \in Nat
  <2>1. IsFiniteSet(Lanes \ {lane})
    BY <1>1, FS_Subset
  <2> QED BY <1>2, <2>1, SumType
<1>5. Sum(active, Lanes) < MaxVersion
  <2>1. DOMAIN active = Lanes
    BY DEF LoaderTypeOK
  <2>2. Promotions = Sum(active, Lanes)
    BY <2>1 DEF Promotions, FoldFunction, Sum, FoldFunctionOnSet, MapThenFoldSet
  <2>3. Promotions < MaxVersion
    BY DEF Activate
  <2> QED BY <2>2, <2>3
<1>6. active[lane] + 1 \in 0..MaxVersion
  BY <1>2, <1>3, <1>4, <1>5, LanesAssumption
<1>7. active' = [active EXCEPT ![lane] = active[lane] + 1]
  BY DEF Activate
<1>8. since' = [since EXCEPT ![lane] = 0]
  BY DEF Activate
<1> QED BY <1>6, <1>7, <1>8, TtlAssumption DEF LoaderTypeOK

LEMMA PoliciesTyped ==
  ASSUME LoaderTypeOK
  PROVE  /\ \A k \in Lanes : Resolve(k) \in Policies
         /\ Unread \in Policies /\ NoEntry \in [policy : Policies, left : 0..Ttl]
<1>1. ASSUME NEW k \in Lanes PROVE Resolve(k) \in Policies
  <2>1. Default \in Lanes
    BY DEF Lanes
  <2>2. active[k] \in 0..MaxVersion /\ active[Default] \in 0..MaxVersion
    BY <2>1 DEF LoaderTypeOK
  <2>3. \A v \in 0..MaxVersion : v # 0 => v \in 1..MaxVersion
    BY LanesAssumption
  <2> QED BY <2>1, <2>2, <2>3 DEF Resolve, Policies
<1> QED BY <1>1, TtlAssumption DEF Policies, NoEntry

LEMMA LoaderStepTyped == LoaderTypeOK /\ [Next]_vars => LoaderTypeOK'
<1> SUFFICES ASSUME LoaderTypeOK, [Next]_vars PROVE LoaderTypeOK'
  OBVIOUS
<1> USE TtlAssumption
<1>0. /\ \A k \in Lanes : Resolve(k) \in Policies
      /\ Unread \in Policies /\ NoEntry \in [policy : Policies, left : 0..Ttl]
  BY PoliciesTyped
<1>1. ASSUME NEW k \in Lanes, Load(k) PROVE LoaderTypeOK'
  BY <1>0, <1>1 DEF LoaderTypeOK, Load
<1>2. ASSUME NEW load \in loads, Store(load) PROVE LoaderTypeOK'
  BY <1>2 DEF LoaderTypeOK, Store
<1>3. ASSUME NEW l \in Lanes, Retrain(l) PROVE LoaderTypeOK'
  BY <1>3, VersionsBounded DEF LoaderTypeOK, Retrain
<1>4. ASSUME NEW l \in Lanes, NotifyPolicyChanged(l) PROVE LoaderTypeOK'
  <2>1. notices \in Seq(Lanes) /\ Publish(l)
    BY <1>4 DEF LoaderTypeOK, NotifyPolicyChanged
  <2>2. notices' \in Seq(Lanes)
    BY <2>1, PublishType
  <2>3. listening' = listening /\ (~listening => notices' = <<>>)
    BY <1>4 DEF LoaderTypeOK, NotifyPolicyChanged, Publish
  <2>4. unsent' \subseteq Lanes
    BY <1>4 DEF LoaderTypeOK, NotifyPolicyChanged
  <2>5. UNCHANGED <<active, since, cache, loads>>
    BY <1>4 DEF NotifyPolicyChanged
  <2> QED
    BY <2>2, <2>3, <2>4, <2>5 DEF LoaderTypeOK
<1>5. ASSUME NEW l \in Lanes, NotifyFails(l) PROVE LoaderTypeOK'
  BY <1>5 DEF LoaderTypeOK, NotifyFails
<1>6. ASSUME NEW l \in Lanes, Rollback(l) PROVE LoaderTypeOK'
  <2>1. active' \in [Lanes -> 0..MaxVersion] /\ since' \in [Lanes -> 0..Ttl]
    BY <1>6, VersionsBounded DEF Rollback
  <2>2. UNCHANGED <<cache, loads, unsent, listening>>
    BY <1>6 DEF Rollback
  <2>3. notices \in Seq(Lanes) /\ Publish(l)
    BY <1>6 DEF LoaderTypeOK, Rollback
  <2>4. notices' \in Seq(Lanes)
    BY <2>3, PublishType
  <2>5. ~listening => notices' = <<>>
    BY <1>6 DEF LoaderTypeOK, Rollback, Publish
  <2> QED BY <2>1, <2>2, <2>4, <2>5 DEF LoaderTypeOK
<1>7. CASE Deliver
  <2>1. Head(notices) \in Lanes /\ notices' \in Seq(Lanes) /\ listening
    BY <1>7 DEF LoaderTypeOK, Deliver
  <2>2. cache' \in [Lanes -> [policy : Policies, left : 0..Ttl]]
    BY <1>0, <1>7 DEF LoaderTypeOK, Deliver
  <2>3. UNCHANGED <<active, since, loads, unsent, listening>>
    BY <1>7 DEF Deliver
  <2> QED BY <2>1, <2>2, <2>3 DEF LoaderTypeOK
<1>8. CASE FlushAll
  BY <1>0, <1>8 DEF LoaderTypeOK, FlushAll
<1>9. CASE Disconnect
  BY <1>9 DEF LoaderTypeOK, Disconnect
<1>10. CASE Reconnect
  BY <1>10 DEF LoaderTypeOK, Reconnect
<1>11. CASE Tick
  <2>1. since' \in [Lanes -> 0..Ttl]
    BY <1>11 DEF LoaderTypeOK, Tick
  <2>2. cache' \in [Lanes -> [policy : Policies, left : 0..Ttl]]
    <3>1. ASSUME NEW k \in Lanes PROVE Aged(cache[k]) \in [policy : Policies, left : 0..Ttl]
      <4>1. cache[k] \in [policy : Policies, left : 0..Ttl]
        BY DEF LoaderTypeOK
      <4>2. cache[k].left > 1 => cache[k].left - 1 \in 0..Ttl
        BY <4>1
      <4> QED BY <1>0, <4>1, <4>2 DEF Aged
    <3> QED BY <3>1, <1>11 DEF Tick
  <2>3. loads' \subseteq [key : Lanes, policy : Policies, left : 0..Ttl]
    <3>1. ASSUME NEW load \in loads
          PROVE  [load EXCEPT !.left = Sooner(load.left)] \in [key : Lanes, policy : Policies, left : 0..Ttl]
      <4>1. load \in [key : Lanes, policy : Policies, left : 0..Ttl]
        BY DEF LoaderTypeOK
      <4>2. Sooner(load.left) \in 0..Ttl
        BY <4>1 DEF Sooner
      <4> QED BY <4>1, <4>2
    <3> QED BY <3>1, <1>11 DEF Tick
  <2> QED BY <2>1, <2>2, <2>3, <1>11 DEF LoaderTypeOK, Tick
<1>12. CASE UNCHANGED vars
  BY <1>12 DEF LoaderTypeOK, vars
<1> QED BY <1>1, <1>2, <1>3, <1>4, <1>5, <1>6, <1>7, <1>8, <1>9, <1>10, <1>11, <1>12 DEF Next

(* Every variable keeps its type: versions stay within the promotions there
   were, in the table, in the cache and in the lookups under way, and no
   notification waits while nobody listens. *)
THEOREM LoaderTyped == Spec => []LoaderTypeOK
<1>1. Init => LoaderTypeOK
  <2> SUFFICES ASSUME Init PROVE LoaderTypeOK
    OBVIOUS
  <2>1. NoEntry \in [policy : Policies, left : 0..Ttl] /\ 0 \in 0..MaxVersion /\ Ttl \in 0..Ttl
    BY TtlAssumption, LanesAssumption DEF NoEntry, Policies
  <2>2. <<>> \in Seq(Lanes)
    OBVIOUS
  <2> QED BY <2>1, <2>2 DEF Init, LoaderTypeOK
<1> QED BY <1>1, LoaderStepTyped, PTL DEF Spec

=============================================================================
