---------------------------- MODULE UpstreamCall ----------------------------
(***************************************************************************)
(* One upstream call of the chat handler (routes/chat.ts): retries against *)
(* the same model, then one failover to the model the failover map names.  *)
(* callWithRetryAndFailover and callStreamWithRetryAndFailover follow the  *)
(* same control; the streaming one retries the initial connect only.       *)
(***************************************************************************)
EXTENDS Integers

CONSTANTS
  Models,        \* model names
  Failover,      \* TOKENSMART_FAILOVER_MAP: the substitute of a model, or NoModel
  NoModel,       \* no model
  TotalAttempts  \* getRetryMaxAttempts() + 1

ASSUME ModelsAssumption == NoModel \notin Models
ASSUME FailoverAssumption == Failover \in [Models -> Models \cup {NoModel}]
ASSUME AttemptsAssumption == TotalAttempts \in Nat \ {0}

(* How an attempt ends.  "transient" is a retryable status (408, 425, 429,
   5xx) or a retryable exception, "fatal" any other exception.  The others
   are answers: 2xx, a 4xx that blames the model name, any other status. *)
Answers == {"ok", "badModel", "refused"}
Outcomes == Answers \cup {"transient", "fatal"}

VARIABLES
  phase,    \* "idle", "primary", "exhausted", "failover", "returned" or "failed"
  model,    \* the model being called, or the last one called (lastModel)
  tries,    \* attempts made in this phase
  outcome   \* how the last attempt ended, "none" before the first of a phase

callVars == <<phase, model, tries, outcome>>

Phases == {"idle", "primary", "exhausted", "failover", "returned", "failed"}
Calling == phase \in {"primary", "failover"}
CallOver == phase \in {"returned", "failed"}

CallInit ==
  /\ phase = "idle"
  /\ model = NoModel
  /\ tries = 0
  /\ outcome = "none"

(* Phase 1 begins. *)
StartCall(m) ==
  /\ phase' = "primary"
  /\ model' = m
  /\ tries' = 0
  /\ outcome' = "none"

(* Mutants: one attempt too many; a "fatal" exception retried as if it were
   transient. *)
AttemptOnceMore(result) ==
  /\ Calling
  /\ tries' = tries + 1
  /\ outcome' = result
  /\ phase' = CASE result \in Answers -> "returned"
                [] result = "transient" /\ tries < TotalAttempts -> phase
                [] OTHER -> IF phase = "primary" THEN "exhausted" ELSE "failed"
  /\ UNCHANGED model
AttemptAnyway(result) ==
  /\ Calling
  /\ tries' = tries + 1
  /\ outcome' = result
  /\ phase' = CASE result \in Answers -> "returned"
                [] result \notin Answers /\ tries + 1 < TotalAttempts -> phase
                [] OTHER -> IF phase = "primary" THEN "exhausted" ELSE "failed"
  /\ UNCHANGED model

(* One turn of the loop of tryUpstreamWithRetries. *)
Attempt(result) ==
  /\ Calling
  /\ tries' = tries + 1
  /\ outcome' = result
  /\ phase' = CASE result \in Answers -> "returned"
                [] result = "transient" /\ tries + 1 < TotalAttempts -> phase
                [] OTHER -> IF phase = "primary" THEN "exhausted" ELSE "failed"
  /\ UNCHANGED model

(* Phase 2: a substitute is mapped and has credentials. *)
FailOver ==
  /\ phase = "exhausted"
  /\ Failover[model] # NoModel
  /\ phase' = "failover"
  /\ model' = Failover[model]
  /\ tries' = 0
  /\ outcome' = "none"

(* No substitute, or resolveProvider finds no way to call it. *)
GiveUp ==
  /\ phase = "exhausted"
  /\ phase' = "failed"
  /\ UNCHANGED <<model, tries, outcome>>

CallTypeOK ==
  /\ phase \in Phases
  /\ model \in Models \cup {NoModel}
  /\ tries \in 0..TotalAttempts
  /\ outcome \in Outcomes \cup {"none"}

=============================================================================
