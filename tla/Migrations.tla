----------------------------- MODULE Migrations -----------------------------
(***************************************************************************)
(* The schema sync every gateway replica runs before it serves             *)
(* (runPendingMigrations of apps/gateway/src/migrate.ts, awaited by        *)
(* index.ts): it reads the applied set once, then runs each pending file   *)
(* and records it in one transaction.  Replicas boot together, of one      *)
(* release or of two; one that fails exits and is restarted (docker        *)
(* compose: "restart: unless-stopped").  Files are numbered in the order   *)
(* of their names; none is edited once applied.                            *)
(***************************************************************************)
EXTENDS Integers, FiniteSets

CONSTANTS
  Replicas,
  NumFiles,     \* files of the newest release
  Releases,     \* how many files each release ships
  MaxBootFails  \* bound: transactions that fail but for a race, and redeployments

Files == 1..NumFiles

ASSUME ReleasesAssumption == NumFiles \in Nat \ {0} /\ Releases \subseteq Files
ASSUME BootFailsAssumption == MaxBootFails \in Nat

VARIABLES
  recorded,   \* rows of schema_migrations
  effects,    \* how many times each file changed the schema
  boot,       \* each replica: where it is, its release, the applied set it read, its file
  bootFails

bootVars == <<recorded, effects, boot, bootFails>>

Down == [at |-> "down", release |-> 0, known |-> {}, file |-> 0]

BootInit ==
  /\ recorded = {}
  /\ effects = [f \in Files |-> 0]
  /\ boot = [r \in Replicas |-> Down]
  /\ bootFails = 0

(* The next file of the loop that the replica does not know to be applied. *)
Pending(b) == {f \in 1..b.release : f > b.file /\ f \notin b.known}
Advance(b) ==
  IF Pending(b) = {} THEN [b EXCEPT !.at = "serving"]
  ELSE [b EXCEPT !.at = "migrating",
                 !.file = CHOOSE f \in Pending(b) : \A g \in Pending(b) : f <= g]

(* The replica starts, of some release, and reads the applied set. *)
ReadApplied(r) ==
  /\ boot[r].at = "down"
  /\ \E release \in Releases :
       boot' = [boot EXCEPT ![r] = Advance([at |-> "down", release |-> release, known |-> recorded, file |-> 0])]
  /\ UNCHANGED <<recorded, effects, bootFails>>

(* Mutant: the row goes in with ON CONFLICT DO NOTHING. *)
ApplyFileAgain(r) ==
  LET f == boot[r].file IN
  /\ boot[r].at = "migrating"
  /\ recorded' = recorded \cup {f}
  /\ effects' = [effects EXCEPT ![f] = @ + 1]
  /\ boot' = [boot EXCEPT ![r] = Advance(boot[r])]
  /\ UNCHANGED bootFails

(* The transaction of a file: its statements, its row, COMMIT.  The key of the
   row makes a second replica wait for the first one's end. *)
ApplyFile(r) ==
  LET f == boot[r].file IN
  /\ boot[r].at = "migrating" /\ f \notin recorded
  /\ recorded' = recorded \cup {f}
  /\ effects' = [effects EXCEPT ![f] = @ + 1]
  /\ boot' = [boot EXCEPT ![r] = Advance(boot[r])]
  /\ UNCHANGED bootFails

(* Mutant: the loser tries the same file again, as it still knows no better. *)
LoseRaceRetry(r) ==
  /\ boot[r].at = "migrating" /\ boot[r].file \in recorded
  /\ UNCHANGED <<recorded, effects, boot, bootFails>>

(* Another replica recorded the file meanwhile: the INSERT violates the
   primary key, the transaction rolls back, the replica refuses to start. *)
LoseRace(r) ==
  /\ boot[r].at = "migrating" /\ boot[r].file \in recorded
  /\ boot' = [boot EXCEPT ![r] = Down]
  /\ UNCHANGED <<recorded, effects, bootFails>>

(* The file fails, or the replica dies within it: nothing of it stays. *)
MigrationFails(r) ==
  /\ boot[r].at = "migrating" /\ bootFails < MaxBootFails
  /\ bootFails' = bootFails + 1
  /\ boot' = [boot EXCEPT ![r] = Down]
  /\ UNCHANGED <<recorded, effects>>

(* A serving replica is stopped, to be deployed anew. *)
Redeploy(r) ==
  /\ boot[r].at = "serving" /\ bootFails < MaxBootFails
  /\ bootFails' = bootFails + 1
  /\ boot' = [boot EXCEPT ![r] = Down]
  /\ UNCHANGED <<recorded, effects>>

BootStep(r) == ReadApplied(r) \/ ApplyFile(r) \/ LoseRace(r)
BootNext == \E r \in Replicas : BootStep(r) \/ MigrationFails(r) \/ Redeploy(r)

BootSpec == BootInit /\ [][BootNext]_bootVars

(* A replica that is down is started again, and one that boots goes on. *)
FairBootSpec == BootSpec /\ \A r \in Replicas : WF_bootVars(BootStep(r))

-----------------------------------------------------------------------------
(* Properties *)

BootTypeOK ==
  /\ recorded \subseteq Files
  /\ effects \in [Files -> Nat]
  /\ boot \in [Replicas -> [at : {"down", "migrating", "serving"}, release : 0..NumFiles,
                            known : SUBSET Files, file : 0..NumFiles]]
  /\ bootFails \in 0..MaxBootFails

(* However replicas of two releases race, fail and start again, the schema is
   the one a single boot would have made: the first files in order, each run
   exactly once and recorded with its effect; and no replica serves before
   every file of its release is in ("better than serving traffic against a
   half-migrated DB"). *)
SchemaInOrder ==
  /\ \A f \in Files : effects[f] = (IF f \in recorded THEN 1 ELSE 0)
  /\ \A f \in recorded : 1..f \subseteq recorded
  /\ \A r \in Replicas : boot[r].at = "serving" => 1..boot[r].release \subseteq recorded

(* Losing a race costs a restart, not the deployment: once transactions stop
   failing, every replica serves. *)
ReplicasServe == <>[](\A r \in Replicas : boot[r].at = "serving")

=============================================================================
