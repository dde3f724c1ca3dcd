------------------------------ MODULE MCParts ------------------------------
(***************************************************************************)
(* The parts of the system that keep state of their own, those of a        *)
(* gateway process and those of the dashboard, next to one another.  They  *)
(* share no variable, so a behaviour moves one of them, chosen at the      *)
(* start, and the others stand still: the state space is the sum of        *)
(* theirs, and a property about one part says what it would say of all of  *)
(* them moving.                                                            *)
(***************************************************************************)
EXTENDS KeyRotator, SessionRoutes, SemanticCache, LoopDetector,
        AnomalyMonitor, Migrations, KeyRotation, BaselineRoute, SqliteShim,
        Organization, Subscriptions, Referrals

VARIABLE part  \* the part that moves

partsVars == <<part, keyVars, routeVars, cacheVars, loopVars, monitorVars,
               bootVars, rotationVars, baselineVars, shimVars,
               orgVars, stripeVars, referralVars>>

(* What requests ask of the prompt cache: one prompt of a project in two
   variants, another prompt, and the same one in another project. *)
Asked == {[project |-> "p1", variant |-> "v1", prompt |-> "a"],
          [project |-> "p1", variant |-> "v2", prompt |-> "a"],
          [project |-> "p1", variant |-> "v1", prompt |-> "b"],
          [project |-> "p2", variant |-> "v1", prompt |-> "a"]}

(* Policies: each complexity has no bucket, one of two models, or one of three;
   tool use has evidence of its own, or none. *)
Measured(m, q, c, n) == [model |-> m, quality |-> q, cost |-> c, n |-> n]
Small == <<Measured("cheap", 7, 2, 3)>>
Buckets == {<<>>,
            <<Measured("dear", 9, 9, 9), Measured("cheap", 7, 2, 3)>>,
            <<Measured("cheap", 7, 1, 2), Measured("mid", 8, 4, 3), Measured("dear", 9, 4, 9)>>}
ArtifactSet ==
  {[p \in Tasks \X Complexities |-> IF p[1] = "tool_use" THEN own ELSE b[p[2]]] :
     b \in [Complexities -> Buckets], own \in {<<>>, Small}}

(* The parts with several initial states have one while another part moves. *)
RestingBaseline == asked = <<>> /\ excluded = {} /\ routed = Undecided

Parts == {"keys", "routes", "cache", "loop", "monitor", "boot", "rotation", "baseline", "sqlite",
          "org", "stripe", "referral"}

PartsInit ==
  /\ part \in Parts
  /\ KeyInit /\ RouteInit /\ CacheInit /\ LoopInit /\ MonitorInit /\ BootInit /\ ShimInit
  /\ OrgInit /\ StripeInit /\ ReferralInit
  /\ IF part = "baseline" THEN BaselineInit ELSE RestingBaseline
  /\ RotationInit
  /\ part # "rotation" => \A o \in Owners : ~Stored(o)
  /\ part # "referral" => ~customer

Still ==
  /\ UNCHANGED part
  /\ part # "keys" => UNCHANGED keyVars
  /\ part # "routes" => UNCHANGED routeVars
  /\ part # "cache" => UNCHANGED cacheVars
  /\ part # "loop" => UNCHANGED loopVars
  /\ part # "monitor" => UNCHANGED monitorVars
  /\ part # "boot" => UNCHANGED bootVars
  /\ part # "rotation" => UNCHANGED rotationVars
  /\ part # "baseline" => UNCHANGED baselineVars
  /\ part # "sqlite" => UNCHANGED shimVars
  /\ part # "org" => UNCHANGED orgVars
  /\ part # "stripe" => UNCHANGED stripeVars
  /\ part # "referral" => UNCHANGED referralVars

PartsNext ==
  /\ Still
  /\ \/ part = "keys" /\ KeyNext
     \/ part = "routes" /\ RouteNext
     \/ part = "cache" /\ CacheNext
     \/ part = "loop" /\ LoopNext
     \/ part = "monitor" /\ MonitorNext
     \/ part = "boot" /\ BootNext
     \/ part = "rotation" /\ RotationNext
     \/ part = "baseline" /\ BaselineNext
     \/ part = "sqlite" /\ ShimNext
     \/ part = "org" /\ OrgNext
     \/ part = "stripe" /\ StripeNext
     \/ part = "referral" /\ ReferralNext

PartsSteps == PartsInit /\ [][PartsNext]_partsVars

(* The fairness of FairBootSpec. *)
PartsSpec ==
  /\ PartsSteps
  /\ \A r \in Replicas : WF_partsVars(part = "boot" /\ BootStep(r) /\ Still)

-----------------------------------------------------------------------------
(* Properties *)

(* Every part keeps its variables in their types; the policy that routes, of
   the behaviours that have a request. *)
PartsTypeOK ==
  /\ KeysTypeOK /\ RoutesTypeOK /\ CacheTypeOK /\ LoopTypeOK
  /\ MonitorTypeOK /\ BootTypeOK /\ RotationTypeOK /\ ShimTypeOK
  /\ OrgTypeOK /\ StripeTypeOK /\ ReferralTypeOK
  /\ part = "baseline" => BaselineTypeOK

(* A part that boots, boots: ReplicasServe, of the behaviours that move it. *)
BootsEnd == part = "boot" => ReplicasServe

=============================================================================
