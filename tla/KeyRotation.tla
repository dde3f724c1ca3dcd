---------------------------- MODULE KeyRotation ----------------------------
(***************************************************************************)
(* The master key that encrypts users' provider keys, and its rotation     *)
(* (apps/gateway/scripts/rotate-master-key.ts) while the dashboard saves   *)
(* keys (upsertUserProviderKey) and the gateway resolves them and stamps   *)
(* rows that have no fingerprint yet (provider-resolve.ts).  Encryption is *)
(* the name of the key a row is under.  The operator runs the script, then *)
(* restarts both programs with the new key, and may run it again; there    *)
(* is one rotation, from "old" to "new".                                   *)
(***************************************************************************)
EXTENDS Integers, FiniteSets

CONSTANTS
  Owners,   \* user and provider: the unique key of a row
  MaxRowId  \* bound: rows ever inserted

ASSUME RowIdsAssumption == MaxRowId \in Nat

Masters == {"old", "new"}
Unstamped == "none"

VARIABLES
  keyRow,    \* the row of each owner, id 0 for none
  used,      \* ids given out
  master,    \* the master key the dashboard and the gateway run with
  stamps,    \* fingerprints the gateway is about to stamp
  rotation,  \* the run of the script: where it is, the ids it will write, was it begun late
  rotated    \* has a run that began after both restarts ended?

rotationVars == <<keyRow, used, master, stamps, rotation, rotated>>

NoRow == [id |-> 0, under |-> Unstamped, stamp |-> Unstamped]
NoRun == [at |-> "idle", plan |-> {}, late |-> FALSE]

(* Rows from before the fingerprint column carry none. *)
RotationInit ==
  /\ \E legacy \in [Owners -> 0..MaxRowId] :
       /\ \A o, p \in Owners : o # p /\ legacy[o] # 0 => legacy[o] # legacy[p]
       /\ keyRow = [o \in Owners |->
            IF legacy[o] = 0 THEN NoRow ELSE [id |-> legacy[o], under |-> "old", stamp |-> Unstamped]]
       /\ used = {legacy[o] : o \in Owners} \ {0}
  /\ master = [program \in {"dashboard", "gateway"} |-> "old"]
  /\ stamps = {}
  /\ rotation = NoRun
  /\ rotated = FALSE

Stored(o) == keyRow[o].id # 0
Readable(o, key) == keyRow[o].under = key /\ keyRow[o].stamp \in {Unstamped, key}

(* upsertUserProviderKey: a row keeps its id. *)
SaveKey(o) ==
  /\ \E id \in IF Stored(o) THEN {keyRow[o].id} ELSE (1..MaxRowId) \ used :
       /\ keyRow' = [keyRow EXCEPT ![o] = [id |-> id, under |-> master["dashboard"], stamp |-> master["dashboard"]]]
       /\ used' = used \cup {id}
  /\ UNCHANGED <<master, stamps, rotation, rotated>>

(* deleteUserProviderKey *)
DeleteKey(o) ==
  /\ Stored(o)
  /\ keyRow' = [keyRow EXCEPT ![o] = NoRow]
  /\ UNCHANGED <<used, master, stamps, rotation, rotated>>

(* resolveProvider decrypts a row without fingerprint and stamps it, in a
   statement it does not wait for. *)
ResolveUnstamped(o) ==
  /\ Stored(o) /\ keyRow[o].stamp = Unstamped /\ Readable(o, master["gateway"])
  /\ stamps' = stamps \cup {[id |-> keyRow[o].id, key |-> master["gateway"]]}
  /\ UNCHANGED <<keyRow, used, master, rotation, rotated>>

(* Mutant: the statement stamps whatever row it finds. *)
BackfillOver(s) ==
  /\ s \in stamps
  /\ stamps' = stamps \ {s}
  /\ keyRow' = [o \in Owners |-> IF keyRow[o].id = s.id THEN [keyRow[o] EXCEPT !.stamp = s.key] ELSE keyRow[o]]
  /\ UNCHANGED <<used, master, rotation, rotated>>

(* backfillUserProviderKeyFingerprint: only where there is none. *)
Backfill(s) ==
  /\ s \in stamps
  /\ stamps' = stamps \ {s}
  /\ keyRow' = [o \in Owners |->
       IF keyRow[o].id = s.id /\ keyRow[o].stamp = Unstamped THEN [keyRow[o] EXCEPT !.stamp = s.key] ELSE keyRow[o]]
  /\ UNCHANGED <<used, master, rotation, rotated>>

-----------------------------------------------------------------------------
(* The script *)

Swapped == \A program \in DOMAIN master : master[program] = "new"
Candidates == {o \in Owners : Stored(o) /\ keyRow[o].stamp # "new"}

(* The SELECT, outside any transaction, and the plan: candidates under the old
   key are to be encrypted anew. *)
ReadRows ==
  /\ rotation.at = "idle"
  /\ rotation' = [at |-> "planned", late |-> Swapped,
                  plan |-> {keyRow[o].id : o \in {p \in Candidates : keyRow[p].under = "old"}}]
  /\ UNCHANGED <<keyRow, used, master, stamps, rotated>>

(* One transaction: UPDATE by id, whatever the row has become.  With nothing to
   write the script says so and ends. *)
CommitRotation ==
  /\ rotation.at = "planned"
  /\ keyRow' = [o \in Owners |->
       IF keyRow[o].id \in rotation.plan THEN [id |-> keyRow[o].id, under |-> "new", stamp |-> "new"] ELSE keyRow[o]]
  /\ rotated' = (rotated \/ rotation.late)
  /\ rotation' = [NoRun EXCEPT !.at = "done"]
  /\ UNCHANGED <<used, master, stamps>>

(* It fails before its COMMIT: nothing is written. *)
RotationFails ==
  /\ rotation.at = "planned"
  /\ rotation' = NoRun
  /\ UNCHANGED <<keyRow, used, master, stamps, rotated>>

(* After SUCCESS each program is restarted with the new key, and forgets what
   it was about to do. *)
Restart(program) ==
  /\ rotation.at = "done" /\ master[program] = "old"
  /\ master' = [master EXCEPT ![program] = "new"]
  /\ stamps' = IF program = "gateway" THEN {} ELSE stamps
  /\ UNCHANGED <<keyRow, used, rotation, rotated>>

(* Safe to re-run. *)
RunAgain ==
  /\ rotation.at = "done" /\ Swapped
  /\ rotation' = NoRun
  /\ UNCHANGED <<keyRow, used, master, stamps, rotated>>

RotationNext ==
  \/ \E o \in Owners : SaveKey(o) \/ DeleteKey(o) \/ ResolveUnstamped(o)
  \/ \E s \in stamps : Backfill(s)
  \/ ReadRows \/ CommitRotation \/ RotationFails \/ RunAgain
  \/ \E program \in DOMAIN master : Restart(program)

RotationSpec == RotationInit /\ [][RotationNext]_rotationVars

-----------------------------------------------------------------------------
(* Properties *)

RotationTypeOK ==
  /\ keyRow \in [Owners -> [id : 0..MaxRowId, under : Masters \cup {Unstamped}, stamp : Masters \cup {Unstamped}]]
  /\ \A o, p \in Owners : o # p /\ Stored(o) => keyRow[o].id # keyRow[p].id
  /\ used \subseteq 1..MaxRowId
  /\ master \in [{"dashboard", "gateway"} -> Masters]
  /\ stamps \subseteq [id : 1..MaxRowId, key : Masters]
  /\ rotation \in [at : {"idle", "planned", "done"}, plan : SUBSET (1..MaxRowId), late : BOOLEAN]
  /\ rotated \in BOOLEAN

(* A fingerprint never names another key than the one its row is under, though
   the gateway stamps rows it read earlier and the script writes rows it read
   earlier: no row is unreadable to the program that holds its key.  And a run
   that began after both restarts leaves every row readable with the new key:
   what was saved under the old one behind the first run's back is caught up
   with ("safe to re-run"). *)
KeysKeepTheirMaster ==
  /\ \A o \in Owners : Stored(o) => Readable(o, keyRow[o].under)
  /\ rotated => \A o \in Owners : Stored(o) => Readable(o, master["gateway"])

=============================================================================
