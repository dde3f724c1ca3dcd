----------------------------- MODULE PartsProofs -----------------------------
(***************************************************************************)
(* Proofs about what keeps the database in order: boots that race          *)
(* (Migrations), master keys that are exchanged (KeyRotation) and the      *)
(* SQLite connection that requests share (SqliteShim); and, with these,    *)
(* about all the parts side by side (MCParts).                             *)
(***************************************************************************)
EXTENDS MCParts, GatewayProofs, AccountsProofs, Sums, TLAPS

(***************************************************************************)
(* Boots, for any replicas, any number of files, any releases and any      *)
(* failures.  SchemaInOrder is not inductive: it takes that a replica      *)
(* under way has everything in before the file it is at, though the        *)
(* applied set it read may be long out of date (LoopSound).                *)
(***************************************************************************)
(* With these files recorded: what b knows is; before its file everything is;
   its file is one of its release when it is at one. *)
SoundLoop(b, files) ==
  /\ b.known \subseteq files
  /\ \A g \in 1..b.release : g < b.file => g \in files
  /\ b.at = "migrating" => b.file \in 1..b.release
  /\ b.at = "serving" => 1..b.release \subseteq files

LoopSound == \A r \in Replicas : SoundLoop(boot[r], recorded)

BootIInv == BootTypeOK /\ SchemaInOrder /\ LoopSound

Boots == [at : {"down", "migrating", "serving"}, release : 0..NumFiles,
          known : SUBSET Files, file : 0..NumFiles]

-----------------------------------------------------------------------------

(* A replica that has its file in, or has just read the applied set, goes to
   its next file, everything before which is in, or serves. *)
LEMMA AdvanceSound ==
  ASSUME NEW files, NEW b \in Boots, b.known \subseteq files,
         \A g \in 1..b.release : g <= b.file => g \in files
  PROVE  Advance(b) \in Boots /\ SoundLoop(Advance(b), files)
<1>1. CASE Pending(b) = {}
  <2>1. Advance(b) = [b EXCEPT !.at = "serving"]
    BY <1>1 DEF Advance
  <2>2. \A g \in 1..b.release : g \in files
    BY <1>1 DEF Pending, Boots
  <2> QED BY <2>1, <2>2 DEF Boots, SoundLoop
<1>2. CASE Pending(b) # {}
  <2> DEFINE n == CHOOSE f \in Pending(b) : \A g \in Pending(b) : f <= g
  <2>1. Pending(b) \in SUBSET Nat
    BY DEF Pending, Boots
  <2>2. n \in Pending(b) /\ \A g \in Pending(b) : n <= g
    BY <1>2, <2>1, Least
  <2>3. Advance(b) = [b EXCEPT !.at = "migrating", !.file = n]
    BY <1>2 DEF Advance
  <2> HIDE DEF n
  <2>4. n \in 1..b.release /\ n \in 0..NumFiles
    BY <2>2, ReleasesAssumption DEF Pending, Boots, Files
  <2>5. \A g \in 1..b.release : g < n => g \in files
    <3> SUFFICES ASSUME NEW g \in 1..b.release, g < n PROVE g \in files
        OBVIOUS
    <3>1. g \notin Pending(b)
      BY <2>2, <2>4
    <3> QED BY <3>1 DEF Pending, Boots
  <2> QED BY <2>3, <2>4, <2>5 DEF Boots, SoundLoop
<1> QED BY <1>1, <1>2

LEMMA BootInitInv == BootInit => BootIInv
<1> SUFFICES ASSUME BootInit PROVE BootIInv
    OBVIOUS
<1>1. BootTypeOK
  BY ReleasesAssumption, BootFailsAssumption DEF BootInit, BootTypeOK, Down
<1>2. SchemaInOrder /\ LoopSound
  BY DEF BootInit, SchemaInOrder, LoopSound, SoundLoop, Down
<1> QED BY <1>1, <1>2 DEF BootIInv

(* What all steps of one replica share: the others keep their loops, as no
   record is ever taken back. *)
LEMMA OneReplica ==
  ASSUME BootIInv, NEW r \in Replicas, NEW b \in Boots, SoundLoop(b, recorded'),
         boot' = [boot EXCEPT ![r] = b], recorded \subseteq recorded'
  PROVE  LoopSound' /\ boot' \in [Replicas -> Boots]
<1>1. boot \in [Replicas -> Boots]
  BY DEF BootIInv, BootTypeOK, Boots
<1>2. boot' \in [Replicas -> Boots]
  BY <1>1
<1>3. ASSUME NEW q \in Replicas PROVE SoundLoop(boot'[q], recorded')
  <2>1. CASE q = r
    BY <1>1, <2>1
  <2>2. CASE q # r
    <3>1. boot'[q] = boot[q] /\ SoundLoop(boot[q], recorded)
      BY <1>1, <2>2 DEF BootIInv, LoopSound
    <3> QED BY <3>1 DEF SoundLoop
  <2> QED BY <2>1, <2>2
<1> QED BY <1>2, <1>3 DEF LoopSound

LEMMA DownSound == \A files : Down \in Boots /\ SoundLoop(Down, files)
BY ReleasesAssumption DEF Down, Boots, SoundLoop

(* A replica that ends leaves the schema as it is. *)
LEMMA EndsSound ==
  ASSUME BootIInv, NEW r \in Replicas, boot' = [boot EXCEPT ![r] = Down],
         UNCHANGED <<recorded, effects>>, bootFails' \in 0..MaxBootFails
  PROVE  BootIInv'
<1>1. LoopSound' /\ boot' \in [Replicas -> Boots]
  BY DownSound, OneReplica
<1>2. \A q \in Replicas : boot'[q].at = "serving" => 1..boot'[q].release \subseteq recorded'
  BY <1>1 DEF LoopSound, SoundLoop
<1> QED BY <1>1, <1>2 DEF BootIInv, BootTypeOK, SchemaInOrder, Boots

LEMMA BootStepInv == BootIInv /\ [BootNext]_bootVars => BootIInv'
<1> SUFFICES ASSUME BootIInv, [BootNext]_bootVars PROVE BootIInv'
    OBVIOUS
<1>a. /\ recorded \subseteq Files /\ effects \in [Files -> Nat]
      /\ boot \in [Replicas -> Boots] /\ bootFails \in 0..MaxBootFails
  BY DEF BootIInv, BootTypeOK, Boots
<1>1. ASSUME NEW r \in Replicas, ReadApplied(r) PROVE BootIInv'
  <2>1. PICK release \in Releases :
          boot' = [boot EXCEPT ![r] = Advance([at |-> "down", release |-> release, known |-> recorded, file |-> 0])]
    BY <1>1 DEF ReadApplied
  <2> DEFINE b == [at |-> "down", release |-> release, known |-> recorded, file |-> 0]
  <2>2. b \in Boots /\ b.known \subseteq recorded
    BY <1>a, ReleasesAssumption DEF Boots, Files
  <2>3. \A g \in 1..b.release : g <= b.file => g \in recorded
    BY ReleasesAssumption DEF Files
  <2>4. boot' = [boot EXCEPT ![r] = Advance(b)]
    BY <2>1
  <2> HIDE DEF b
  <2>5. UNCHANGED <<recorded, effects, bootFails>>
    BY <1>1 DEF ReadApplied
  <2>6. LoopSound' /\ boot' \in [Replicas -> Boots]
    BY <2>2, <2>3, <2>4, <2>5, AdvanceSound, OneReplica
  <2>7. \A q \in Replicas : boot'[q].at = "serving" => 1..boot'[q].release \subseteq recorded'
    BY <2>6 DEF LoopSound, SoundLoop
  <2> QED BY <1>a, <2>5, <2>6, <2>7 DEF BootIInv, BootTypeOK, SchemaInOrder, Boots
<1>2. ASSUME NEW r \in Replicas, ApplyFile(r) PROVE BootIInv'
  <2> DEFINE b == boot[r]
             f == boot[r].file
  <2>1. /\ b.at = "migrating" /\ f \notin recorded
        /\ recorded' = recorded \cup {f}
        /\ effects' = [effects EXCEPT ![f] = @ + 1]
        /\ boot' = [boot EXCEPT ![r] = Advance(b)]
        /\ bootFails' = bootFails
    BY <1>2 DEF ApplyFile
  <2>2. b \in Boots /\ SoundLoop(b, recorded)
    BY <1>a DEF BootIInv, LoopSound
  <2>3. f \in 1..b.release /\ f \in Files
    BY <2>1, <2>2 DEF SoundLoop, Boots, Files
  <2>4. \A g \in 1..b.release : g <= f => g \in recorded'
    BY <2>1, <2>2, <2>3 DEF SoundLoop, Boots
  <2>5. b.known \subseteq recorded'
    BY <2>1, <2>2 DEF SoundLoop
  <2> HIDE DEF b
  <2>6. Advance(b) \in Boots /\ SoundLoop(Advance(b), recorded')
    BY <2>2, <2>4, <2>5, AdvanceSound DEF b
  <2>7. LoopSound' /\ boot' \in [Replicas -> Boots]
    BY <2>1, <2>6, OneReplica
  <2>8. recorded' \subseteq Files /\ effects' \in [Files -> Nat]
    BY <1>a, <2>1, <2>3
  <2>9. \A g \in Files : effects'[g] = (IF g \in recorded' THEN 1 ELSE 0)
    BY <1>a, <2>1, <2>3 DEF BootIInv, SchemaInOrder
  <2>10. \A g \in recorded' : 1..g \subseteq recorded'
    <3>1. 1..f \subseteq recorded'
      BY <2>2, <2>3, <2>4 DEF Boots
    <3> QED BY <2>1, <3>1 DEF BootIInv, SchemaInOrder
  <2>11. \A q \in Replicas : boot'[q].at = "serving" => 1..boot'[q].release \subseteq recorded'
    BY <2>7 DEF LoopSound, SoundLoop
  <2> QED BY <1>a, <2>1, <2>7, <2>8, <2>9, <2>10, <2>11 DEF BootIInv, BootTypeOK, SchemaInOrder, Boots
<1>3. ASSUME NEW r \in Replicas, LoseRace(r) PROVE BootIInv'
  BY <1>a, <1>3, EndsSound DEF LoseRace
<1>4. ASSUME NEW r \in Replicas, MigrationFails(r) \/ Redeploy(r) PROVE BootIInv'
  <2>1. bootFails' \in 0..MaxBootFails
    BY <1>a, <1>4, BootFailsAssumption DEF MigrationFails, Redeploy
  <2> QED BY <1>4, <2>1, EndsSound DEF MigrationFails, Redeploy
<1>5. CASE UNCHANGED bootVars
  BY <1>5 DEF bootVars, BootIInv, BootTypeOK, SchemaInOrder, LoopSound
<1> QED BY <1>1, <1>2, <1>3, <1>4, <1>5 DEF BootNext, BootStep

LEMMA BootSpecInv == BootSpec => []BootIInv
BY BootInitInv, BootStepInv, PTL DEF BootSpec

(* Replicas and the schema table keep their shapes. *)
THEOREM BootTyped == BootSpec => []BootTypeOK
BY BootSpecInv, PTL DEF BootIInv

(* Any number of replicas, of any mix of releases, racing, failing and starting
   again, make the schema a single boot would have made; none serves without
   every file of its release. *)
THEOREM SchemaStaysInOrder == BootSpec => []SchemaInOrder
BY BootSpecInv, PTL DEF BootIInv

-----------------------------------------------------------------------------
(***************************************************************************)
(* The rotation of the master key, for any keys stored, saved, deleted and *)
(* resolved around any number of runs of the script.  KeysKeepTheirMaster  *)
(* is not inductive: it takes what a resolution may be about to stamp      *)
(* (StampsSound), what a plan has in it (LateSound) and that ids are never *)
(* given out again.                                                        *)
(***************************************************************************)
Rows == [id : 0..MaxRowId, under : Masters \cup {Unstamped}, stamp : Masters \cup {Unstamped}]

(* A row is under a master key and its fingerprint names no other; what has none
   is from before the rotation.  Ids are given out once. *)
RowsSound ==
  \A o \in Owners : Stored(o) =>
    /\ keyRow[o].under \in Masters
    /\ keyRow[o].stamp \in {Unstamped, keyRow[o].under}
    /\ keyRow[o].stamp = Unstamped => keyRow[o].under = "old"
    /\ keyRow[o].id \in used

(* What the gateway is about to stamp it read under the old key. *)
StampsSound == \A s \in stamps : s.key = "old"

(* A run that began late has every row under the old key in its plan, and one
   that ended left none. *)
LateSound ==
  /\ rotation.at = "planned" /\ rotation.late =>
       Swapped /\ \A o \in Owners : Stored(o) /\ keyRow[o].under = "old" => keyRow[o].id \in rotation.plan
  /\ rotated => Swapped /\ \A o \in Owners : Stored(o) => keyRow[o].under = "new"

RotationIInv == RotationTypeOK /\ RowsSound /\ StampsSound /\ LateSound

LEMMA RotationInitInv == RotationInit => RotationIInv
<1> SUFFICES ASSUME RotationInit PROVE RotationIInv
    OBVIOUS
<1>1. PICK legacy \in [Owners -> 0..MaxRowId] :
        /\ \A o, p \in Owners : o # p /\ legacy[o] # 0 => legacy[o] # legacy[p]
        /\ keyRow = [o \in Owners |->
             IF legacy[o] = 0 THEN NoRow ELSE [id |-> legacy[o], under |-> "old", stamp |-> Unstamped]]
        /\ used = {legacy[o] : o \in Owners} \ {0}
  BY DEF RotationInit
<1>2. \A o \in Owners : /\ keyRow[o] \in Rows
                        /\ Stored(o) => keyRow[o].id = legacy[o] /\ keyRow[o].under = "old" /\ keyRow[o].stamp = Unstamped
                        /\ ~Stored(o) => keyRow[o].id = 0
  BY <1>1, RowIdsAssumption DEF Rows, NoRow, Stored, Masters, Unstamped
<1>3. keyRow \in [Owners -> Rows]
  BY <1>1, <1>2
<1>4. \A o, p \in Owners : o # p /\ Stored(o) => keyRow[o].id # keyRow[p].id
  BY <1>1, <1>2 DEF Stored
<1>5. used \subseteq 1..MaxRowId /\ \A o \in Owners : Stored(o) => keyRow[o].id \in used
  <2>1. \A o \in Owners : legacy[o] \in 0..MaxRowId
    BY <1>1
  <2>2. used \subseteq 1..MaxRowId
    BY <1>1, <2>1, RowIdsAssumption
  <2>3. ASSUME NEW o \in Owners, Stored(o) PROVE keyRow[o].id \in used
    BY <1>1, <1>2, <2>3 DEF Stored
  <2> QED BY <2>2, <2>3
<1>6. RotationTypeOK
  BY <1>3, <1>4, <1>5, RowIdsAssumption DEF RotationInit, RotationTypeOK, Rows, Masters, NoRun
<1>7. RowsSound
  BY <1>2, <1>5 DEF RowsSound, Masters
<1> QED BY <1>6, <1>7 DEF RotationInit, RotationIInv, StampsSound, LateSound, NoRun

(* What a step that writes rows owes. *)
LEMMA RowsWritten ==
  ASSUME RotationTypeOK, RowsSound, keyRow' \in [Owners -> Rows], used' \subseteq 1..MaxRowId, used \subseteq used',
         \A o \in Owners : Stored(o)' =>
           \/ keyRow'[o] = keyRow[o]
           \/ keyRow'[o].id = keyRow[o].id /\ keyRow'[o].under \in Masters /\ keyRow'[o].stamp = keyRow'[o].under
           \/ /\ keyRow'[o].id \in used' \ used /\ keyRow'[o].under \in Masters /\ keyRow'[o].stamp = keyRow'[o].under
              /\ \A p \in Owners : p # o => keyRow'[p] = keyRow[p]
  PROVE  /\ RowsSound'
         /\ \A o, p \in Owners : o # p /\ Stored(o)' => keyRow'[o].id # keyRow'[p].id
<1>1. ASSUME NEW o \in Owners, NEW p \in Owners, o # p, Stored(o)', keyRow'[o].id = keyRow'[p].id
      PROVE  FALSE
  <2>0. Stored(p)'
    BY <1>1 DEF Stored
  <2>1. \A q \in Owners : Stored(q) => keyRow[q].id \in used
    BY DEF RowsSound
  <2>2. \A q \in {o, p} : keyRow'[q].id = keyRow[q].id \/ keyRow'[q].id \in used' \ used
    BY <1>1, <2>0
  <2>3. CASE keyRow'[o].id = keyRow[o].id /\ keyRow'[p].id = keyRow[p].id
    BY <1>1, <2>3 DEF RotationTypeOK, Stored
  <2>4. CASE keyRow'[o].id \in used' \ used
    <3>1. keyRow'[p] = keyRow[p]
      BY <1>1, <2>0, <2>1, <2>4 DEF Stored
    <3> QED BY <1>1, <2>0, <2>1, <2>4, <3>1 DEF Stored
  <2>5. CASE keyRow'[p].id \in used' \ used
    <3>1. keyRow'[o] = keyRow[o]
      BY <1>1, <2>0, <2>1, <2>5 DEF Stored
    <3> QED BY <1>1, <2>0, <2>1, <2>5, <3>1 DEF Stored
  <2> QED BY <2>2, <2>3, <2>4, <2>5
<1>2. RowsSound'
  <2> SUFFICES ASSUME NEW o \in Owners, Stored(o)'
               PROVE  /\ keyRow'[o].under \in Masters
                      /\ keyRow'[o].stamp \in {Unstamped, keyRow'[o].under}
                      /\ keyRow'[o].stamp = Unstamped => keyRow'[o].under = "old"
                      /\ keyRow'[o].id \in used'
    BY DEF RowsSound
  <2>1. CASE keyRow'[o] = keyRow[o]
    BY <2>1 DEF RowsSound, Stored
  <2>2. CASE keyRow'[o].id = keyRow[o].id /\ keyRow'[o].under \in Masters /\ keyRow'[o].stamp = keyRow'[o].under
    BY <2>2 DEF RowsSound, Stored, Masters, Unstamped
  <2>3. CASE keyRow'[o].id \in used' \ used /\ keyRow'[o].under \in Masters /\ keyRow'[o].stamp = keyRow'[o].under
    BY <2>3 DEF Masters, Unstamped
  <2> QED BY <2>1, <2>2, <2>3
<1> QED BY <1>1, <1>2

LEMMA RotationStepInv == RotationIInv /\ [RotationNext]_rotationVars => RotationIInv'
<1> SUFFICES ASSUME RotationIInv, [RotationNext]_rotationVars PROVE RotationIInv'
    OBVIOUS
<1> USE DEF RotationIInv
<1>a. /\ keyRow \in [Owners -> Rows] /\ used \subseteq 1..MaxRowId
      /\ master \in [{"dashboard", "gateway"} -> Masters]
      /\ stamps \subseteq [id : 1..MaxRowId, key : Masters]
      /\ rotation \in [at : {"idle", "planned", "done"}, plan : SUBSET (1..MaxRowId), late : BOOLEAN]
      /\ rotated \in BOOLEAN
  BY DEF RotationTypeOK, Rows
<1>1. ASSUME NEW o \in Owners, SaveKey(o) PROVE RotationIInv'
  <2> DEFINE m == master["dashboard"]
  <2>1. PICK id \in IF Stored(o) THEN {keyRow[o].id} ELSE (1..MaxRowId) \ used :
          /\ keyRow' = [keyRow EXCEPT ![o] = [id |-> id, under |-> m, stamp |-> m]]
          /\ used' = used \cup {id}
    BY <1>1 DEF SaveKey
  <2>2. UNCHANGED <<master, stamps, rotation, rotated>> /\ m \in Masters
    BY <1>1, <1>a DEF SaveKey
  <2>3. id \in 1..MaxRowId /\ (Stored(o) => id = keyRow[o].id) /\ (~Stored(o) => id \notin used)
    BY <1>a, <2>1, RowIdsAssumption DEF Stored, Rows
  <2>4. keyRow' \in [Owners -> Rows]
    BY <1>a, <2>1, <2>2, <2>3, RowIdsAssumption DEF Rows
  <2>5. keyRow'[o] = [id |-> id, under |-> m, stamp |-> m] /\ \A p \in Owners : p # o => keyRow'[p] = keyRow[p]
    BY <1>a, <2>1
  <2>6. used' \subseteq 1..MaxRowId /\ used \subseteq used' /\ (~Stored(o) => id \in used' \ used)
    BY <1>a, <2>1, <2>3
  <2> HIDE DEF m
  <2>7. RowsSound' /\ \A q, p \in Owners : q # p /\ Stored(q)' => keyRow'[q].id # keyRow'[p].id
    BY <2>2, <2>3, <2>4, <2>5, <2>6, RowsWritten
  <2>8. RotationTypeOK'
    BY <1>a, <2>2, <2>4, <2>6, <2>7 DEF RotationTypeOK, Rows
  <2>9. LateSound'
    <3>1. Swapped => m = "new"
      BY <1>a DEF Swapped, m
    <3> QED BY <2>2, <2>5, <3>1 DEF LateSound, Swapped, Stored
  <2> QED BY <2>2, <2>7, <2>8, <2>9 DEF StampsSound
<1>2. ASSUME NEW o \in Owners, DeleteKey(o) PROVE RotationIInv'
  <2>1. /\ keyRow'[o].id = 0 /\ \A p \in Owners : p # o => keyRow'[p] = keyRow[p]
        /\ keyRow' \in [Owners -> Rows] /\ UNCHANGED <<used, master, stamps, rotation, rotated>>
    BY <1>2, <1>a, RowIdsAssumption DEF DeleteKey, NoRow, Rows
  <2>2. \A p \in Owners : Stored(p)' => keyRow'[p] = keyRow[p]
    BY <2>1 DEF Stored
  <2>3. RowsSound' /\ \A q, p \in Owners : q # p /\ Stored(q)' => keyRow'[q].id # keyRow'[p].id
    BY <1>a, <2>1, <2>2, RowsWritten
  <2> QED BY <1>a, <2>1, <2>2, <2>3 DEF RotationTypeOK, Rows, StampsSound, LateSound, Swapped, Stored
<1>3. ASSUME NEW o \in Owners, ResolveUnstamped(o) PROVE RotationIInv'
  <2>1. /\ UNCHANGED <<keyRow, used, master, rotation, rotated>> /\ Stored(o)
        /\ stamps' = stamps \cup {[id |-> keyRow[o].id, key |-> master["gateway"]]}
        /\ keyRow[o].stamp = Unstamped /\ keyRow[o].under = master["gateway"]
    BY <1>3 DEF ResolveUnstamped, Readable
  <2>2. master["gateway"] = "old"
    BY <2>1 DEF RowsSound
  <2>3. keyRow[o].id \in 1..MaxRowId
    BY <1>a, <2>1, RowIdsAssumption DEF Stored, Rows
  <2>4. stamps' \subseteq [id : 1..MaxRowId, key : Masters]
    BY <1>a, <2>1, <2>2, <2>3 DEF Masters
  <2> QED BY <1>a, <2>1, <2>2, <2>4 DEF RotationTypeOK, RowsSound, StampsSound, LateSound, Swapped, Stored
<1>4. ASSUME NEW s \in stamps, Backfill(s) PROVE RotationIInv'
  <2>1. /\ UNCHANGED <<used, master, rotation, rotated>> /\ stamps' = stamps \ {s} /\ s.key = "old"
        /\ keyRow' = [o \in Owners |->
             IF keyRow[o].id = s.id /\ keyRow[o].stamp = Unstamped THEN [keyRow[o] EXCEPT !.stamp = s.key] ELSE keyRow[o]]
    BY <1>4 DEF Backfill, StampsSound
  <2>2. keyRow' \in [Owners -> Rows] /\ \A o \in Owners : keyRow'[o].id = keyRow[o].id /\ keyRow'[o].under = keyRow[o].under
    BY <1>a, <2>1 DEF Rows, Masters
  <2>3. \A o \in Owners : Stored(o)' =>
          keyRow'[o] = keyRow[o] \/ (keyRow'[o].under \in Masters /\ keyRow'[o].stamp = keyRow'[o].under)
    BY <1>a, <2>1, <2>2 DEF Rows, RowsSound, Stored, Masters
  <2>4. RowsSound' /\ \A q, p \in Owners : q # p /\ Stored(q)' => keyRow'[q].id # keyRow'[p].id
    BY <1>a, <2>1, <2>2, <2>3, RowsWritten
  <2> QED BY <1>a, <2>1, <2>2, <2>4 DEF RotationTypeOK, Rows, StampsSound, LateSound, Swapped, Stored
<1>5. ASSUME ReadRows PROVE RotationIInv'
  <2> DEFINE ids == {keyRow[o].id : o \in {p \in Candidates : keyRow[p].under = "old"}}
  <2>1. /\ UNCHANGED <<keyRow, used, master, stamps, rotated>>
        /\ rotation' = [at |-> "planned", late |-> Swapped, plan |-> ids]
    BY <1>5 DEF ReadRows
  <2>2. ids \in SUBSET (1..MaxRowId)
    BY <1>a, RowIdsAssumption DEF Candidates, Stored, Rows
  <2>3. \A o \in Owners : Stored(o) /\ keyRow[o].under = "old" => keyRow[o].id \in ids
    BY DEF RowsSound, Candidates, Unstamped
  <2> HIDE DEF ids
  <2>4. Swapped \in BOOLEAN
    BY DEF Swapped
  <2> QED BY <1>a, <2>1, <2>2, <2>3, <2>4 DEF RotationTypeOK, RowsSound, StampsSound, LateSound, Swapped, Stored
<1>6. ASSUME CommitRotation PROVE RotationIInv'
  <2>1. /\ UNCHANGED <<used, master, stamps>> /\ rotation.at = "planned"
        /\ keyRow' = [o \in Owners |->
             IF keyRow[o].id \in rotation.plan THEN [id |-> keyRow[o].id, under |-> "new", stamp |-> "new"] ELSE keyRow[o]]
        /\ rotated' = (rotated \/ rotation.late) /\ rotation' = [NoRun EXCEPT !.at = "done"]
    BY <1>6 DEF CommitRotation
  <2>2. keyRow' \in [Owners -> Rows] /\ \A o \in Owners : keyRow'[o].id = keyRow[o].id
    BY <1>a, <2>1 DEF Rows, Masters
  <2>3. \A o \in Owners :
          \/ keyRow'[o] = keyRow[o] /\ keyRow[o].id \notin rotation.plan
          \/ keyRow'[o].under = "new" /\ keyRow'[o].stamp = "new"
    BY <1>a, <2>1 DEF Rows
  <2>4. RowsSound' /\ \A q, p \in Owners : q # p /\ Stored(q)' => keyRow'[q].id # keyRow'[p].id
    BY <1>a, <2>1, <2>2, <2>3, RowsWritten DEF Masters
  <2>5. rotation' \in [at : {"idle", "planned", "done"}, plan : SUBSET (1..MaxRowId), late : BOOLEAN]
        /\ rotation'.at = "done" /\ rotated' \in BOOLEAN
    BY <1>a, <2>1 DEF NoRun
  <2>6. LateSound'
    <3>1. rotated' => Swapped
      BY <2>1 DEF LateSound
    <3>2. ASSUME rotated', NEW o \in Owners, Stored(o)' PROVE keyRow'[o].under = "new"
      <4>1. Stored(o) /\ keyRow[o].under \in Masters
        BY <2>2, <3>2 DEF Stored, RowsSound
      <4>2. keyRow[o].under = "old" => keyRow[o].id \in rotation.plan \/ rotated
        BY <2>1, <3>2, <4>1 DEF LateSound
      <4> QED BY <2>3, <3>2, <4>1, <4>2 DEF LateSound, Masters
    <3> QED BY <2>1, <2>5, <3>1, <3>2 DEF LateSound, Swapped
  <2> QED BY <1>a, <2>1, <2>2, <2>4, <2>5, <2>6 DEF RotationTypeOK, Rows, StampsSound
<1>7. ASSUME RotationFails \/ RunAgain PROVE RotationIInv'
  <2>1. /\ UNCHANGED <<keyRow, used, master, stamps, rotated>>
        /\ rotation' = [at |-> "idle", plan |-> {}, late |-> FALSE]
    BY <1>7 DEF RotationFails, RunAgain, NoRun
  <2>2. rotation' \in [at : {"idle", "planned", "done"}, plan : SUBSET (1..MaxRowId), late : BOOLEAN]
        /\ rotation'.at = "idle"
    BY <2>1
  <2> QED BY <1>a, <2>1, <2>2 DEF RotationTypeOK, RowsSound, StampsSound, LateSound, Swapped, Stored
<1>8. ASSUME NEW program \in DOMAIN master, Restart(program) PROVE RotationIInv'
  <2>1. /\ UNCHANGED <<keyRow, used, rotation, rotated>> /\ stamps' \subseteq stamps
        /\ rotation.at = "done" /\ master' = [master EXCEPT ![program] = "new"]
    BY <1>8 DEF Restart
  <2>2. master' \in [{"dashboard", "gateway"} -> Masters] /\ (Swapped => Swapped')
    BY <1>a, <2>1 DEF Swapped, Masters
  <2> QED BY <1>a, <2>1, <2>2 DEF RotationTypeOK, RowsSound, StampsSound, LateSound, Stored
<1>9. CASE UNCHANGED rotationVars
  BY <1>9 DEF rotationVars, RotationTypeOK, RowsSound, StampsSound, LateSound, Swapped, Stored
<1> QED BY <1>1, <1>2, <1>3, <1>4, <1>5, <1>6, <1>7, <1>8, <1>9 DEF RotationNext

LEMMA RotationSpecInv == RotationSpec => []RotationIInv
BY RotationInitInv, RotationStepInv, PTL DEF RotationSpec

(* The rows, the stamps and the script's run keep their types. *)
THEOREM RotationTyped == RotationSpec => []RotationTypeOK
BY RotationSpecInv, PTL DEF RotationIInv

(* No late stamp and no late write of the script names the wrong key, for any
   number of keys saved, deleted and resolved around any number of runs; and a
   run begun after both restarts leaves nothing under the old key. *)
THEOREM KeysStayReadable == RotationSpec => []KeysKeepTheirMaster
<1>1. RotationIInv => KeysKeepTheirMaster
  <2> SUFFICES ASSUME RotationIInv, NEW o \in Owners, Stored(o)
               PROVE  Readable(o, keyRow[o].under) /\ (rotated => Readable(o, master["gateway"]))
    BY DEF KeysKeepTheirMaster
  <2>1. Readable(o, keyRow[o].under)
    BY DEF RotationIInv, RowsSound, Readable
  <2>2. rotated => master["gateway"] = "new" /\ keyRow[o].under = "new"
    BY DEF RotationIInv, RotationTypeOK, LateSound, Swapped
  <2> QED BY <2>1, <2>2
<1> QED BY <1>1, RotationSpecInv, PTL

-----------------------------------------------------------------------------
(***************************************************************************)
(* The shared connection, for any number of requests.  All-or-nothing      *)
(* takes where the writes of a request are while its transaction is open   *)
(* (Placed).                                                               *)
(***************************************************************************)
(* Where the writes of a request are.  The transaction that is open is the
   holder's; what others wrote inside it they wrote as plain statements, and no
   write of a transaction is durable before its COMMIT. *)
InShimTx(c) == sqlCall[c] \in {"begun", "first", "second"}

HolderInv ==
  /\ \A c \in SqlCalls : InShimTx(c) <=> holder = c
  /\ holder = Nobody => open = {}

Placed(c) ==
    /\ \A i \in {1, 2} : <<c, i>> \in open => sqlCall[c] \in {"written", "first", "second"}
    /\ sqlCall[c] \in {"first", "second"} => <<c, 1>> \in open
    /\ sqlCall[c] = "second" => <<c, 2>> \in open
    /\ \A i \in {1, 2} : <<c, i>> \in durable => sqlCall[c] \in {"written", "committed"}

WritesInv == \A c \in SqlCalls : Placed(c)

ShimIInv == ShimTypeOK /\ HolderInv /\ WritesInv /\ SharedConnectionIsAtomic

LEMMA ShimInitInv == ShimInit => ShimIInv
<1> SUFFICES ASSUME ShimInit PROVE ShimIInv
    OBVIOUS
<1> USE NobodyAssumption DEF ShimInit
<1> QED BY DEF ShimIInv, Writes, ShimTypeOK, HolderInv, InShimTx, WritesInv, Placed, SharedConnectionIsAtomic

LEMMA ShimStepInv == ShimIInv /\ [ShimNext]_shimVars => ShimIInv'
<1> SUFFICES ASSUME ShimIInv, [ShimNext]_shimVars PROVE ShimIInv'
    OBVIOUS
<1> USE NobodyAssumption DEF ShimIInv, HolderInv, InShimTx, ShimTypeOK, Writes, Go
<1>1. ASSUME NEW c \in SqlCalls, PlainWrite(c) PROVE ShimIInv'
  <2>1. /\ sqlCall[c] = "idle" /\ sqlCall' = [sqlCall EXCEPT ![c] = "written"] /\ holder' = holder
        /\ open' \subseteq open \cup {<<c, 1>>} /\ durable' \subseteq durable \cup {<<c, 1>>}
        /\ open \subseteq open' /\ durable \subseteq durable'
        /\ bracketed \subseteq bracketed' /\ bracketed' \subseteq SqlCalls
        /\ \/ holder = Nobody /\ <<c, 1>> \in durable' /\ open' = open
           \/ holder # Nobody /\ c \in bracketed' /\ durable' = durable
    BY <1>1 DEF PlainWrite, Write
  <2>2. ShimTypeOK'
    BY <2>1
  <2>3. HolderInv'
    BY <2>1
  <2>4. ASSUME NEW x \in SqlCalls, x # c, NEW k \in {1, 2}
        PROVE  /\ sqlCall'[x] = sqlCall[x]
               /\ <<x, k>> \in open' <=> <<x, k>> \in open
               /\ <<x, k>> \in durable' <=> <<x, k>> \in durable
    <3>1. <<x, k>> # <<c, 1>>
      BY <2>4
    <3>2. sqlCall'[x] = sqlCall[x]
      BY <2>1, <2>4
    <3> QED BY <2>1, <3>1, <3>2
  <2>5. sqlCall'[c] = "written" /\ (c \in bracketed' \/ <<c, 1>> \in durable')
    BY <2>1
  <2>6. WritesInv'
    <3> SUFFICES ASSUME NEW x \in SqlCalls PROVE Placed(x)'
      BY DEF WritesInv
    <3>1. CASE x = c
      BY <2>5, <3>1 DEF Placed
    <3>2. CASE x # c
      BY <2>4, <3>2 DEF WritesInv, Placed
    <3> QED BY <3>1, <3>2
  <2>7. SharedConnectionIsAtomic'
    <3> SUFFICES ASSUME NEW x \in SqlCalls
                 PROVE  /\ sqlCall'[x] = "committed" => {<<x, 1>>, <<x, 2>>} \subseteq durable'
                        /\ sqlCall'[x] \in {"begun", "first", "second", "rolledback", "refused"} =>
                             {<<x, 1>>, <<x, 2>>} \cap durable' = {}
                        /\ sqlCall'[x] = "written" /\ x \notin bracketed' => <<x, 1>> \in durable'
      BY Zenon DEF SharedConnectionIsAtomic
    <3>1. CASE x = c
      BY <2>5, <3>1
    <3>2. CASE x # c
      <4>1. x \in bracketed => x \in bracketed'
        BY <2>1
      <4> QED BY <2>4, <3>2, <4>1 DEF SharedConnectionIsAtomic
    <3> QED BY <3>1, <3>2
  <2> QED BY <2>2, <2>3, <2>6, <2>7
<1>2. ASSUME NEW c \in SqlCalls, Begin(c) PROVE ShimIInv'
  BY <1>2 DEF Begin, WritesInv, Placed, SharedConnectionIsAtomic
<1>3. ASSUME NEW c \in SqlCalls, BeginFails(c) PROVE ShimIInv'
  BY <1>3 DEF BeginFails, WritesInv, Placed, SharedConnectionIsAtomic
<1>4. ASSUME NEW c \in SqlCalls, CommitTx(c) PROVE ShimIInv'
  BY <1>4 DEF CommitTx, WritesInv, Placed, SharedConnectionIsAtomic
<1>5. ASSUME NEW c \in SqlCalls, RollbackTx(c) PROVE ShimIInv'
  BY <1>5 DEF RollbackTx, WritesInv, Placed, SharedConnectionIsAtomic
<1>6. ASSUME NEW c \in SqlCalls, NEW i \in {1, 2}, TxWrite(c, i) PROVE ShimIInv'
  BY <1>6 DEF TxWrite, Write, WritesInv, Placed, SharedConnectionIsAtomic
<1>7. CASE UNCHANGED shimVars
  BY <1>7 DEF shimVars, WritesInv, Placed, SharedConnectionIsAtomic
<1> QED BY <1>1, <1>2, <1>3, <1>4, <1>5, <1>6, <1>7 DEF ShimNext

LEMMA ShimSpecInv == ShimSpec => []ShimIInv
BY ShimInitInv, ShimStepInv, PTL DEF ShimSpec

(* The shared connection's variables keep their types. *)
THEOREM ShimTyped == ShimSpec => []ShimTypeOK
BY ShimSpecInv, PTL DEF ShimIInv

(* Transactions of the shared connection are all or nothing for every number of
   requests that run inside or beside them. *)
THEOREM SharedConnectionStaysAtomic == ShimSpec => []SharedConnectionIsAtomic
BY ShimSpecInv, PTL DEF ShimIInv

-----------------------------------------------------------------------------
(***************************************************************************)
(* The parts side by side.  A behaviour of all of them is one of each: what *)
(* moves is one part, by a step of its own, and the others stutter.  So     *)
(* every theorem about a part is one about the whole.                       *)
(***************************************************************************)
(* A step moves a part by its own next-state relation or not at all. *)
LEMMA PartsStep ==
  ASSUME [PartsNext]_partsVars
  PROVE  /\ [KeyNext]_keyVars /\ [RouteNext]_routeVars /\ [CacheNext]_cacheVars
         /\ [LoopNext]_loopVars /\ [MonitorNext]_monitorVars /\ [BootNext]_bootVars
         /\ [RotationNext]_rotationVars /\ [BaselineNext]_baselineVars /\ [ShimNext]_shimVars
         /\ [OrgNext]_orgVars /\ [StripeNext]_stripeVars /\ [ReferralNext]_referralVars
         /\ UNCHANGED part /\ (part # "baseline" => UNCHANGED baselineVars)
<1>1. CASE UNCHANGED partsVars
  BY <1>1 DEF partsVars
<1>2. CASE PartsNext
  BY <1>2 DEF PartsNext, Still
<1> QED BY <1>1, <1>2

(* The composition implements the specification of every part but the policy
   that routes, which has a request only in the behaviours that move it. *)
THEOREM PartsImplementTheirSpecs ==
  PartsSteps => /\ KeySpec /\ RouteSpec /\ CacheSpec /\ LoopSpec /\ MonitorSpec /\ BootSpec
                /\ RotationSpec /\ ShimSpec /\ OrgSpec /\ StripeSpec /\ ReferralSpec
<1>1. PartsInit => /\ KeyInit /\ RouteInit /\ CacheInit /\ LoopInit /\ MonitorInit /\ BootInit
                   /\ RotationInit /\ ShimInit /\ OrgInit /\ StripeInit /\ ReferralInit
  BY DEF PartsInit
<1>2. [PartsNext]_partsVars
        => /\ [KeyNext]_keyVars /\ [RouteNext]_routeVars /\ [CacheNext]_cacheVars
           /\ [LoopNext]_loopVars /\ [MonitorNext]_monitorVars /\ [BootNext]_bootVars
           /\ [RotationNext]_rotationVars /\ [ShimNext]_shimVars
           /\ [OrgNext]_orgVars /\ [StripeNext]_stripeVars /\ [ReferralNext]_referralVars
  BY PartsStep
<1> QED
  BY <1>1, <1>2, PTL
     DEF PartsSteps, KeySpec, RouteSpec, CacheSpec, LoopSpec, MonitorSpec, BootSpec,
         RotationSpec, ShimSpec, OrgSpec, StripeSpec, ReferralSpec

(* The policy that routes: it moves by its own steps from a request, or rests. *)
LEMMA BaselineMovesOrRests ==
  PartsSteps => [](IF part = "baseline" THEN BaselineIInv ELSE RestingBaseline)
<1> DEFINE Inv == IF part = "baseline" THEN BaselineIInv ELSE RestingBaseline
<1>1. PartsInit => Inv
  BY BaselineInitInv DEF PartsInit
<1>2. Inv /\ [PartsNext]_partsVars => Inv'
  <2> SUFFICES ASSUME Inv, [PartsNext]_partsVars PROVE Inv'
    OBVIOUS
  <2>1. /\ [BaselineNext]_baselineVars /\ part' = part
        /\ part # "baseline" => UNCHANGED <<asked, excluded, routed>>
    BY PartsStep DEF baselineVars
  <2>2. CASE part = "baseline"
    BY <2>1, <2>2, BaselineStepInv
  <2>3. CASE part # "baseline"
    BY <2>1, <2>3 DEF RestingBaseline
  <2> QED BY <2>2, <2>3
<1> QED BY <1>1, <1>2, PTL DEF PartsSteps

(* Type correctness of all the parts, whichever moves. *)
THEOREM PartsTyped == PartsSpec => []PartsTypeOK
<1> DEFINE Routing == IF part = "baseline" THEN BaselineIInv ELSE RestingBaseline
<1>1. Routing => (part = "baseline" => BaselineTypeOK)
  BY DEF BaselineIInv
<1>2. PartsSteps => []Routing
  BY BaselineMovesOrRests
<1>3. /\ KeysTypeOK /\ RoutesTypeOK /\ CacheTypeOK /\ LoopTypeOK
      /\ MonitorTypeOK /\ BootTypeOK /\ RotationTypeOK /\ ShimTypeOK
      /\ OrgTypeOK /\ StripeTypeOK /\ ReferralTypeOK
      /\ (part = "baseline" => BaselineTypeOK)
      => PartsTypeOK
  BY DEF PartsTypeOK
<1> HIDE DEF Routing
<1> QED
  BY <1>1, <1>2, <1>3, PartsImplementTheirSpecs, KeysStayTyped, RoutesTyped, CacheTyped, LoopTyped,
     MonitorTyped, BootTyped, RotationTyped, ShimTyped, OrgTyped, StripeTyped, ReferralsTyped, PTL
     DEF PartsSpec

(* What every part promises holds of all of them side by side. *)
THEOREM PartsKeepTheirPromises ==
  PartsSpec =>
    /\ []KeyTurns /\ []NewestTurnKept /\ []HitOwnProject /\ []LoopSeen
    /\ []SchemaInOrder /\ []KeysKeepTheirMaster /\ []RewriteJustified
    /\ []SharedConnectionIsAtomic /\ []OneOwnerUnlessRaced /\ []PlanFollowsStripe
    /\ []CreditsNearCap /\ []GrantedOnce /\ AlertsApart /\ AdmittedByInvitation
<1> DEFINE Routing == IF part = "baseline" THEN BaselineIInv ELSE RestingBaseline
<1>1. Routing => RewriteJustified
  BY DEF BaselineIInv, RestingBaseline, RewriteJustified, Justified
<1>2. PartsSteps => []Routing
  BY BaselineMovesOrRests
<1> HIDE DEF Routing
<1> QED
  BY <1>1, <1>2, PartsImplementTheirSpecs, KeysTakeTurns, NewestTurnIsKept, HitsOwnProject, LoopsAreSeen,
     SchemaStaysInOrder, KeysStayReadable, SharedConnectionStaysAtomic, OneOwner, PlansFollowStripe,
     CreditsStayNearCap, CreditsGrantedOnce, AlertsStayApart, OnlyInvited, PTL
     DEF PartsSpec

=============================================================================
