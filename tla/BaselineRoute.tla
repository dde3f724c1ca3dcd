--------------------------- MODULE BaselineRoute ---------------------------
(***************************************************************************)
(* How the active policy rewrites the model of one request                 *)
(* (applyBaselineRouting of apps/gateway/src/router.ts over recommendModel *)
(* and findBucketWithFallback of policy/index.ts): the bucket of the       *)
(* request's class, or one it may fall back to, recommends the cheapest    *)
(* model that is good enough; a model whose provider does not resolve is   *)
(* put aside and the next is tried.  The class is the classifiers' answer, *)
(* a free choice; qualities and costs are small numbers.                   *)
(***************************************************************************)
EXTENDS Integers, Sequences, SequencesExt, FiniteSetsExt

CONSTANTS
  Artifacts,      \* policies: a bucket, a sequence of measured models, for each class
  RouteOriginals, \* models callers ask for
  Eps,            \* the quality drop that is tolerated
  MinSamples      \* TOKENSMART_BASELINE_HARD_MIN_N and _FRONTIER_MIN_N

Tasks == {"chat", "code", "reasoning", "tool_use"}
Complexities == {"simple", "medium", "hard", "frontier"}

(* The aggregator makes each bucket from a set of models, so none has two
   entries. *)
ASSUME ArtifactsAssumption ==
  \A policy \in Artifacts : \A t \in Tasks, c \in Complexities :
    LET b == policy[<<t, c>>] IN
    \A i, j \in DOMAIN b : b[i].cost \in Int /\ (b[i].model = b[j].model => i = j)

VARIABLES
  asked,     \* the request: its policy, class and model, and whether a provider knows the model
  excluded,  \* models put aside
  routed     \* what came out: nothing yet, "kept", or the model it was rewritten to

baselineVars == <<asked, excluded, routed>>

Undecided == "undecided"
Kept == "kept"

BaselineInit ==
  /\ asked \in [policy : Artifacts, task : Tasks, complexity : Complexities,
                original : RouteOriginals, known : BOOLEAN]
  /\ excluded = {}
  /\ routed = Undecided

-----------------------------------------------------------------------------
(* recommendModel *)

(* Mutant: classes without evidence borrow from the easier ones. *)
BorrowingDown(c) ==
  CASE c = "simple" -> <<"simple", "medium", "hard", "frontier">>
    [] c = "medium" -> <<"medium", "hard", "simple">>
    [] OTHER -> <<c, "medium", "simple">>

ComplexityFallback(c) ==
  CASE c = "simple" -> <<"simple", "medium", "hard", "frontier">>
    [] c = "medium" -> <<"medium", "hard", "simple">>
    [] OTHER -> <<c>>
TaskFallback(t) == IF t = "tool_use" THEN <<"tool_use", "reasoning">> ELSE <<t>>

(* The bucket at a rung of the ladder findBucketWithFallback walks, every
   complexity of a task before the next task. *)
Rungs(a) == (DOMAIN TaskFallback(a.task)) \X (DOMAIN ComplexityFallback(a.complexity))
Rung(a, r) == a.policy[<<TaskFallback(a.task)[r[1]], ComplexityFallback(a.complexity)[r[2]]>>]
NotAfter(r, s) == r[1] < s[1] \/ (r[1] = s[1] /\ r[2] <= s[2])

(* The first that has a model; the empty bucket stands for none. *)
Bucket(a) ==
  LET filled == {r \in Rungs(a) : Rung(a, r) # <<>>}
  IN  IF filled = {} THEN <<>> ELSE Rung(a, CHOOSE r \in filled : \A s \in filled : NotAfter(r, s))

Models(b) == {b[i].model : i \in DOMAIN b}
Stats(b, model) == CHOOSE s \in Range(b) : s.model = model
Strict(a) == a.complexity \in {"hard", "frontier"}
Tolerance(a) == IF a.task = "chat" THEN 2 * Eps ELSE Eps
Floor(a, b) ==
  (IF a.original \in Models(b) THEN Stats(b, a.original).quality
   ELSE Max({s.quality : s \in Range(b)})) - Tolerance(a)

(* The cheapest good enough, the first of equals. *)
Cheapest(a, b, aside) ==
  LET GoodEnough(i) == b[i].quality >= Floor(a, b) /\ b[i].model \notin aside
  IN  {b[i] : i \in {j \in DOMAIN b : GoodEnough(j) /\ \A k \in DOMAIN b :
        GoodEnough(k) => b[j].cost < b[k].cost \/ (b[j].cost = b[k].cost /\ j <= k)}}

(* One recommendation or none. *)
Recommended(a, aside) ==
  LET b == Bucket(a) IN
  {s \in Cheapest(a, b, aside) :
     /\ Strict(a) => a.original \in Models(b) /\ s.n >= MinSamples
     /\ s.model # a.original
     /\ a.original \in Models(b) => s.cost < Stats(b, a.original).cost}

-----------------------------------------------------------------------------
(* applyBaselineRouting *)

(* A model that no provider template matches and no bucket measured. *)
UnknownCallerModel(a) ==
  ~a.known /\ \A t \in Tasks, c \in Complexities : a.original \notin Models(a.policy[<<t, c>>])

KeepModel ==
  /\ routed = Undecided
  /\ UnknownCallerModel(asked) \/ Recommended(asked, excluded) = {}
  /\ routed' = Kept
  /\ UNCHANGED <<asked, excluded>>

(* resolveProvider is awaited: it finds credentials for the model, or not. *)
Rewrite ==
  /\ routed = Undecided /\ ~UnknownCallerModel(asked)
  /\ \E s \in Recommended(asked, excluded) : routed' = s.model
  /\ UNCHANGED <<asked, excluded>>

PutAside ==
  /\ routed = Undecided /\ ~UnknownCallerModel(asked)
  /\ \E s \in Recommended(asked, excluded) : excluded' = excluded \cup {s.model}
  /\ UNCHANGED <<asked, routed>>

BaselineNext == KeepModel \/ Rewrite \/ PutAside

BaselineSpec == BaselineInit /\ [][BaselineNext]_baselineVars

-----------------------------------------------------------------------------
(* Properties *)

(* The models some bucket of the request's policy measured. *)
MeasuredModels(a) == UNION {Models(a.policy[<<t, c>>]) : t \in Tasks, c \in Complexities}

(* Only a measured model is put aside, and only such a one replaces the
   caller's; the buckets of other classes that are borrowed are of the same
   policy. *)
BaselineTypeOK ==
  /\ asked \in [policy : Artifacts, task : Tasks, complexity : Complexities,
                original : RouteOriginals, known : BOOLEAN]
  /\ excluded \subseteq MeasuredModels(asked)
  /\ routed \in {Undecided, Kept} \cup MeasuredModels(asked)

(* A request is rewritten only on evidence.  Some bucket its class may use
   measured the new model as good enough against what was asked (or the best,
   when that was not measured) and cheaper; any model there as good and
   cheaper still was put aside because nothing could call it; and for hard and
   frontier work the evidence is of that very complexity, for both models, and
   rests on enough samples ("no downgrade is better than a fake saving"). *)
RewriteJustified ==
  routed \notin {Undecided, Kept} =>
    \E t \in Range(TaskFallback(asked.task)), c \in Range(ComplexityFallback(asked.complexity)) :
      LET b == asked.policy[<<t, c>>] IN
      /\ routed \in Models(b)
      /\ Stats(b, routed).quality >= Floor(asked, b)
      /\ asked.original \in Models(b) => Stats(b, routed).cost < Stats(b, asked.original).cost
      /\ \A s \in Range(b) : s.quality >= Floor(asked, b) /\ s.cost < Stats(b, routed).cost => s.model \in excluded
      /\ Strict(asked) => c = asked.complexity /\ asked.original \in Models(b) /\ Stats(b, routed).n >= MinSamples

=============================================================================
