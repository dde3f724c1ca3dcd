--------------------------- MODULE AnomalyMonitor ---------------------------
(***************************************************************************)
(* The cost-anomaly monitor of one gateway process                         *)
(* (apps/gateway/src/monitor.ts): a timer starts a scan whether or not the *)
(* one before has ended; a scan reads a project's cooldown, awaits the     *)
(* detector, and when it flags sets the cooldown to the time the scan      *)
(* began and dispatches the alert.  One project is modelled: projects of a *)
(* scan run side by side and share nothing.  Times are ages, in ticks.     *)
(***************************************************************************)
EXTENDS Integers, FiniteSets

CONSTANTS
  AlertCooldown,  \* COOLDOWN_MS, in ticks
  ScanLimit,      \* bound: ticks a detection may take
  MaxScans        \* bound: scans under way

ASSUME CooldownAssumption == AlertCooldown \in Nat /\ ScanLimit \in Nat

VARIABLES
  scans,        \* scans that await the detector: how long ago each began
  lastAlerted,  \* age of the cooldown's timestamp, AlertCooldown for none or longer
  alerts        \* alerts sent lately: when their scan began, and when it ended

monitorVars == <<scans, lastAlerted, alerts>>

Long == AlertCooldown + ScanLimit

MonitorInit ==
  /\ scans = {}
  /\ lastAlerted = AlertCooldown
  /\ alerts = {}

(* runOnce on the project.  While its cooldown runs, the scan is over. *)
StartScan ==
  /\ Cardinality(scans) < MaxScans
  /\ lastAlerted >= AlertCooldown
  /\ scans' = scans \cup {0}
  /\ UNCHANGED <<lastAlerted, alerts>>

(* The detector fails, or finds nothing. *)
Unflagged(began) ==
  /\ scans' = scans \ {began}
  /\ UNCHANGED <<lastAlerted, alerts>>

(* Mutant: the alert goes out, the cooldown stays as it was. *)
FlaggedForgetful(began) ==
  /\ scans' = scans \ {began}
  /\ alerts' = alerts \cup {[began |-> began, ended |-> 0]}
  /\ UNCHANGED lastAlerted

(* It flags: what the cooldown was set to meanwhile is not looked at. *)
Flagged(began) ==
  /\ scans' = scans \ {began}
  /\ lastAlerted' = IF began < AlertCooldown THEN began ELSE AlertCooldown
  /\ alerts' = alerts \cup {[began |-> began, ended |-> 0]}

Older(a) == IF a < Long THEN a + 1 ELSE Long
MonitorTick ==
  /\ \A began \in scans : began < ScanLimit
  /\ scans' = {began + 1 : began \in scans}
  /\ lastAlerted' = IF lastAlerted < AlertCooldown THEN lastAlerted + 1 ELSE AlertCooldown
  /\ alerts' = {a \in {[began |-> Older(a.began), ended |-> Older(a.ended)] : a \in alerts} : a.began < Long}

MonitorNext ==
  \/ StartScan \/ MonitorTick
  \/ \E began \in scans : Unflagged(began) \/ Flagged(began)

MonitorSpec == MonitorInit /\ [][MonitorNext]_monitorVars

-----------------------------------------------------------------------------
(* Properties *)

MonitorTypeOK ==
  /\ scans \subseteq 0..ScanLimit
  /\ lastAlerted \in 0..AlertCooldown
  /\ alerts \subseteq [began : 0..Long, ended : 0..Long]

(* "Don't re-alert the same project for 6h after we've flagged it."  Scans
   that overlap may alert one after the other, and the slow one even sets the
   cooldown back.  What remains true: of two alerts whose scans do not
   overlap, the later scan began at least a cooldown after the earlier one
   did, less the time one scan may take. *)
AlertsApart ==
  [][\A began \in scans :
       alerts' = alerts \cup {[began |-> began, ended |-> 0]} /\ alerts' # alerts
         => \A a \in alerts : a.ended > began => a.began - began >= AlertCooldown - ScanLimit]_monitorVars

=============================================================================
