----------------------- MODULE PlanReservationProofs -----------------------
(***************************************************************************)
(* Proofs about PlanReservation, for any number of requests, one cap or    *)
(* two, any limits, estimates and costs.                                   *)
(***************************************************************************)
EXTENDS PlanReservation, Sums, TLAPS

(* A transaction past pg_advisory_xact_lock holds the lock until it ends. *)
LockHeld == \A r \in Requests : pc[r] \in InTx => lock = r

(* The NOW() of a transaction is never ahead of the clock. *)
NowInPast == \A r \in Requests : now[r]["ttl"] \subseteq past["ttl"]

(* At every statement of an attempt, the reserved sums of the caps behind it,
   and at the decision the one of the cap at hand, hold every live row. *)
SlotsCountedSoFar ==
  \A r \in Requests : \A i \in DOMAIN Checks :
    pc[r] \in InTx /\ (i < check[r] \/ (i = check[r] /\ pc[r] = "check"))
      => Holding \subseteq seenReserved[r][Checks[i]]

(* The caps are walked from the first one. *)
FirstCapFirst == \A r \in Requests : pc[r] \in {"start", "begun"} => check[r] = 1

(* The row exists only after the last check, and a finished request let it go. *)
RowFollowsPhase ==
  \A r \in Requests :
    /\ pc[r] \in {"start", "begun", "rejected", "failed"} \cup InTx => resv[r] = "none"
    /\ pc[r] = "done" => resv[r] # "pending"

PlanInv ==
  /\ PlanTypeOK
  /\ LockHeld
  /\ NowInPast
  /\ FirstCapFirst
  /\ SlotsCountedSoFar
  /\ RowFollowsPhase

-----------------------------------------------------------------------------
(* Types *)

(* What the three possible sequences of caps have in common. *)
LEMMA ChecksRange ==
  /\ Len(Checks) \in Nat \ {0}
  /\ DOMAIN Checks = 1..Len(Checks)
  /\ \A i \in 1..Len(Checks) : Checks[i] \in Caps
<1>1. CASE Checks = <<"daily">>
  BY <1>1 DEF Caps
<1>2. CASE Checks = <<"monthly">>
  BY <1>2 DEF Caps
<1>3. CASE Checks = <<"daily", "monthly">>
  BY <1>3 DEF Caps
<1> QED
  BY <1>1, <1>2, <1>3, ChecksAssumption

(* The end of a transaction resets its own variables inside their types. *)
LEMMA EndTxTypes ==
  ASSUME PlanTypeOK, NEW r \in Requests, EndTx(r)
  PROVE  /\ lock' \in Requests \cup {None}
         /\ check' \in [Requests -> DOMAIN Checks]
         /\ seenUsed' \in [Requests -> [Caps -> SUBSET Requests]]
         /\ seenReserved' \in [Requests -> [Caps -> SUBSET Requests]]
         /\ now' \in [Requests -> [Clocks -> SUBSET Requests]]
<1>1. /\ 1 \in DOMAIN Checks
      /\ NoRows \in [Caps -> SUBSET Requests]
      /\ [c \in Clocks |-> {}] \in [Clocks -> SUBSET Requests]
  BY ChecksRange DEF NoRows
<1> QED
  BY <1>1 DEF PlanTypeOK, EndTx

(* A step that ends the transaction keeps every type when it keeps those of
   the phase and of the reservation. *)
LEMMA EndTxTypeOK ==
  ASSUME PlanTypeOK, NEW r \in Requests, EndTx(r),
         UNCHANGED <<amount, cost, ledger, past>>,
         pc' \in [Requests -> Phases],
         resv' \in [Requests -> {"none", "pending", "released"}]
  PROVE  PlanTypeOK'
<1>1. /\ amount' \in [Requests -> Amounts]
      /\ cost' \in [Requests -> Costs]
      /\ ledger' \in SUBSET Requests
      /\ past' \in [Clocks -> SUBSET Requests]
  BY DEF PlanTypeOK
<1> QED
  BY <1>1, EndTxTypes DEF PlanTypeOK

(* Every step keeps the variables in their types; the loop over the caps ends
   at the last one. *)
LEMMA StepPlanTypeOK == PlanTypeOK /\ [Next]_vars => PlanTypeOK'
<1> SUFFICES ASSUME PlanTypeOK, [Next]_vars
             PROVE  PlanTypeOK'
  OBVIOUS
<1> USE ChecksRange, AmountsAssumption, NoneAssumption
        DEF Phases, InTx, Over, NoRows, Clocks
<1>1. ASSUME NEW r \in Requests, BeginTx(r) PROVE PlanTypeOK'
  <2>1. PICK a \in Amounts : amount' = [amount EXCEPT ![r] = a]
    BY <1>1 DEF BeginTx
  <2>2. amount' \in [Requests -> Amounts]
    BY <2>1 DEF PlanTypeOK
  <2>3. now' \in [Requests -> [Clocks -> SUBSET Requests]]
    BY <1>1 DEF PlanTypeOK, BeginTx
  <2> QED
    BY <1>1, <2>2, <2>3 DEF PlanTypeOK, BeginTx, Goto
<1>2. ASSUME NEW r \in Requests, TakeLock(r) PROVE PlanTypeOK'
  BY <1>2 DEF PlanTypeOK, TakeLock, Goto, txVars
<1>3. ASSUME NEW r \in Requests, ReadUsed(r) PROVE PlanTypeOK'
  BY <1>3 DEF PlanTypeOK, ReadUsed, Goto, At
<1>4. ASSUME NEW r \in Requests, ReadReserved(r) PROVE PlanTypeOK'
  BY <1>4 DEF PlanTypeOK, ReadReserved, Goto, At, PendingRows
<1>5. ASSUME NEW r \in Requests, NextCheck(r) PROVE PlanTypeOK'
  BY <1>5 DEF PlanTypeOK, NextCheck, Goto
<1>6. ASSUME NEW r \in Requests, Admit(r) PROVE PlanTypeOK'
  <2>1. EndTx(r) /\ UNCHANGED <<amount, cost, ledger, past>>
    BY <1>6 DEF Admit
  <2>2. pc' \in [Requests -> Phases]
    BY <1>6 DEF PlanTypeOK, Admit, Goto
  <2>3. resv' \in [Requests -> {"none", "pending", "released"}]
    BY <1>6 DEF PlanTypeOK, Admit
  <2> QED
    BY <2>1, <2>2, <2>3, EndTxTypeOK
<1>7. ASSUME NEW r \in Requests, Reject(r) PROVE PlanTypeOK'
  <2>1. EndTx(r) /\ UNCHANGED <<amount, cost, ledger, past>>
    BY <1>7 DEF Reject
  <2>2. pc' \in [Requests -> Phases]
    BY <1>7 DEF PlanTypeOK, Reject, Goto
  <2>3. resv' \in [Requests -> {"none", "pending", "released"}]
    BY <1>7 DEF PlanTypeOK, Reject
  <2> QED
    BY <2>1, <2>2, <2>3, EndTxTypeOK
<1>8. ASSUME NEW r \in Requests, FailTx(r) PROVE PlanTypeOK'
  <2>1. EndTx(r) /\ UNCHANGED <<amount, cost, ledger, past>>
    BY <1>8 DEF FailTx
  <2>2. pc' \in [Requests -> Phases]
    BY <1>8 DEF PlanTypeOK, FailTx, Goto
  <2>3. resv' \in [Requests -> {"none", "pending", "released"}]
    BY <1>8 DEF PlanTypeOK, FailTx
  <2> QED
    BY <2>1, <2>2, <2>3, EndTxTypeOK
<1>9. ASSUME NEW r \in Requests, UpstreamEnds(r) PROVE PlanTypeOK'
  BY <1>9 DEF PlanTypeOK, UpstreamEnds, Goto, txVars
<1>10. ASSUME NEW r \in Requests, InsertRequest(r) PROVE PlanTypeOK'
  <2>1. PICK c \in Costs : cost' = [cost EXCEPT ![r] = c]
    BY <1>10 DEF InsertRequest
  <2>2. cost' \in [Requests -> Costs]
    BY <2>1 DEF PlanTypeOK
  <2> QED
    BY <1>10, <2>2 DEF PlanTypeOK, InsertRequest, Goto, txVars
<1>11. ASSUME NEW r \in Requests, InsertRequestFails(r) PROVE PlanTypeOK'
  BY <1>11 DEF PlanTypeOK, InsertRequestFails, Goto, txVars
<1>12. ASSUME NEW r \in Requests, Release(r) PROVE PlanTypeOK'
  BY <1>12 DEF PlanTypeOK, Release, Goto, txVars
<1>13. ASSUME NEW r \in Requests, ReleaseFails(r) PROVE PlanTypeOK'
  BY <1>13 DEF PlanTypeOK, ReleaseFails, Goto, txVars
<1>14. ASSUME NEW r \in Requests, Crash(r) PROVE PlanTypeOK'
  <2>1. EndTx(r) /\ UNCHANGED <<amount, cost, ledger, past>>
    BY <1>14 DEF Crash
  <2>2. pc' \in [Requests -> Phases]
    BY <1>14 DEF PlanTypeOK, Crash, Goto
  <2>3. resv' \in [Requests -> {"none", "pending", "released"}]
    BY <1>14 DEF PlanTypeOK, Crash
  <2> QED
    BY <2>1, <2>2, <2>3, EndTxTypeOK
<1>15. ASSUME NEW r \in Requests, Expire(r) PROVE PlanTypeOK'
  BY <1>15 DEF PlanTypeOK, Expire, Pass, txVars
<1>16. ASSUME NEW r \in Requests, NEW cap \in Caps, Age(r, cap) PROVE PlanTypeOK'
  BY <1>16 DEF PlanTypeOK, Age, Pass, txVars
<1>17. CASE UNCHANGED vars
  BY <1>17 DEF PlanTypeOK, vars, txVars
<1> QED
  BY <1>1, <1>2, <1>3, <1>4, <1>5, <1>6, <1>7, <1>8, <1>9, <1>10, <1>11,
     <1>12, <1>13, <1>14, <1>15, <1>16, <1>17
     DEF Next, Attempt

-----------------------------------------------------------------------------
(* The advisory lock and the clock *)

(* The lock is taken when nobody has it and given back when its holder's
   transaction ends. *)
LEMMA StepLockHeld == PlanTypeOK /\ LockHeld /\ [Next]_vars => LockHeld'
<1> SUFFICES ASSUME PlanTypeOK, LockHeld, [Next]_vars
             PROVE  LockHeld'
  OBVIOUS
<1> USE NoneAssumption DEF InTx, Over
<1>1. ASSUME NEW r \in Requests, BeginTx(r) PROVE LockHeld'
  BY <1>1 DEF PlanTypeOK, LockHeld, BeginTx, Goto
<1>2. ASSUME NEW r \in Requests, TakeLock(r) PROVE LockHeld'
  BY <1>2 DEF PlanTypeOK, LockHeld, TakeLock, Goto, txVars
<1>3. ASSUME NEW r \in Requests, ReadUsed(r) PROVE LockHeld'
  BY <1>3 DEF PlanTypeOK, LockHeld, ReadUsed, Goto, At
<1>4. ASSUME NEW r \in Requests, ReadReserved(r) PROVE LockHeld'
  BY <1>4 DEF PlanTypeOK, LockHeld, ReadReserved, Goto, At
<1>5. ASSUME NEW r \in Requests, NextCheck(r) PROVE LockHeld'
  BY <1>5 DEF PlanTypeOK, LockHeld, NextCheck, Goto
<1>6. ASSUME NEW r \in Requests, Admit(r) PROVE LockHeld'
  BY <1>6 DEF PlanTypeOK, LockHeld, Admit, EndTx, Goto
<1>7. ASSUME NEW r \in Requests, Reject(r) PROVE LockHeld'
  BY <1>7 DEF PlanTypeOK, LockHeld, Reject, EndTx, Goto
<1>8. ASSUME NEW r \in Requests, FailTx(r) PROVE LockHeld'
  BY <1>8 DEF PlanTypeOK, LockHeld, FailTx, EndTx, Goto
<1>9. ASSUME NEW r \in Requests, UpstreamEnds(r) PROVE LockHeld'
  BY <1>9 DEF PlanTypeOK, LockHeld, UpstreamEnds, Goto, txVars
<1>10. ASSUME NEW r \in Requests, InsertRequest(r) PROVE LockHeld'
  BY <1>10 DEF PlanTypeOK, LockHeld, InsertRequest, Goto, txVars
<1>11. ASSUME NEW r \in Requests, InsertRequestFails(r) PROVE LockHeld'
  BY <1>11 DEF PlanTypeOK, LockHeld, InsertRequestFails, Goto, txVars
<1>12. ASSUME NEW r \in Requests, Release(r) PROVE LockHeld'
  BY <1>12 DEF PlanTypeOK, LockHeld, Release, Goto, txVars
<1>13. ASSUME NEW r \in Requests, ReleaseFails(r) PROVE LockHeld'
  BY <1>13 DEF PlanTypeOK, LockHeld, ReleaseFails, Goto, txVars
<1>14. ASSUME NEW r \in Requests, Crash(r) PROVE LockHeld'
  BY <1>14 DEF PlanTypeOK, LockHeld, Crash, EndTx, Goto
<1>15. ASSUME NEW r \in Requests, Expire(r) PROVE LockHeld'
  BY <1>15 DEF PlanTypeOK, LockHeld, Expire, Pass, txVars
<1>16. ASSUME NEW r \in Requests, NEW cap \in Caps, Age(r, cap) PROVE LockHeld'
  BY <1>16 DEF PlanTypeOK, LockHeld, Age, Pass, txVars
<1>17. CASE UNCHANGED vars
  BY <1>17 DEF PlanTypeOK, LockHeld, vars, txVars
<1> QED
  BY <1>1, <1>2, <1>3, <1>4, <1>5, <1>6, <1>7, <1>8, <1>9, <1>10, <1>11,
     <1>12, <1>13, <1>14, <1>15, <1>16, <1>17
     DEF Next, Attempt

(* A transaction copies the clock when it begins, and the clock only advances. *)
LEMMA StepPlanNowInPast == PlanTypeOK /\ NowInPast /\ [Next]_vars => NowInPast'
<1> SUFFICES ASSUME PlanTypeOK, NowInPast, [Next]_vars
             PROVE  NowInPast'
  OBVIOUS
<1> USE DEF Clocks
<1>1. ASSUME NEW r \in Requests, BeginTx(r) PROVE NowInPast'
  BY <1>1 DEF PlanTypeOK, NowInPast, BeginTx, Goto
<1>2. ASSUME NEW r \in Requests, TakeLock(r) PROVE NowInPast'
  BY <1>2 DEF PlanTypeOK, NowInPast, TakeLock, Goto, txVars
<1>3. ASSUME NEW r \in Requests, ReadUsed(r) PROVE NowInPast'
  BY <1>3 DEF PlanTypeOK, NowInPast, ReadUsed, Goto, At
<1>4. ASSUME NEW r \in Requests, ReadReserved(r) PROVE NowInPast'
  BY <1>4 DEF PlanTypeOK, NowInPast, ReadReserved, Goto, At
<1>5. ASSUME NEW r \in Requests, NextCheck(r) PROVE NowInPast'
  BY <1>5 DEF PlanTypeOK, NowInPast, NextCheck, Goto
<1>6. ASSUME NEW r \in Requests, Admit(r) PROVE NowInPast'
  BY <1>6 DEF PlanTypeOK, NowInPast, Admit, EndTx, Goto
<1>7. ASSUME NEW r \in Requests, Reject(r) PROVE NowInPast'
  BY <1>7 DEF PlanTypeOK, NowInPast, Reject, EndTx, Goto
<1>8. ASSUME NEW r \in Requests, FailTx(r) PROVE NowInPast'
  BY <1>8 DEF PlanTypeOK, NowInPast, FailTx, EndTx, Goto
<1>9. ASSUME NEW r \in Requests, UpstreamEnds(r) PROVE NowInPast'
  BY <1>9 DEF PlanTypeOK, NowInPast, UpstreamEnds, Goto, txVars
<1>10. ASSUME NEW r \in Requests, InsertRequest(r) PROVE NowInPast'
  BY <1>10 DEF PlanTypeOK, NowInPast, InsertRequest, Goto, txVars
<1>11. ASSUME NEW r \in Requests, InsertRequestFails(r) PROVE NowInPast'
  BY <1>11 DEF PlanTypeOK, NowInPast, InsertRequestFails, Goto, txVars
<1>12. ASSUME NEW r \in Requests, Release(r) PROVE NowInPast'
  BY <1>12 DEF PlanTypeOK, NowInPast, Release, Goto, txVars
<1>13. ASSUME NEW r \in Requests, ReleaseFails(r) PROVE NowInPast'
  BY <1>13 DEF PlanTypeOK, NowInPast, ReleaseFails, Goto, txVars
<1>14. ASSUME NEW r \in Requests, Crash(r) PROVE NowInPast'
  BY <1>14 DEF PlanTypeOK, NowInPast, Crash, EndTx, Goto
<1>15. ASSUME NEW r \in Requests, Expire(r) PROVE NowInPast'
  BY <1>15 DEF PlanTypeOK, NowInPast, Expire, Pass, txVars
<1>16. ASSUME NEW r \in Requests, NEW cap \in Caps, Age(r, cap) PROVE NowInPast'
  BY <1>16 DEF PlanTypeOK, NowInPast, Age, Pass, txVars
<1>17. CASE UNCHANGED vars
  BY <1>17 DEF PlanTypeOK, NowInPast, vars, txVars
<1> QED
  BY <1>1, <1>2, <1>3, <1>4, <1>5, <1>6, <1>7, <1>8, <1>9, <1>10, <1>11,
     <1>12, <1>13, <1>14, <1>15, <1>16, <1>17
     DEF Next, Attempt

LEMMA StepFirstCapFirst ==
  PlanTypeOK /\ FirstCapFirst /\ [Next]_vars => FirstCapFirst'
<1> SUFFICES ASSUME PlanTypeOK, FirstCapFirst, [Next]_vars
             PROVE  FirstCapFirst'
  OBVIOUS
<1> USE DEF InTx, Over
<1>1. ASSUME NEW r \in Requests, BeginTx(r) PROVE FirstCapFirst'
  BY <1>1 DEF PlanTypeOK, FirstCapFirst, BeginTx, Goto
<1>2. ASSUME NEW r \in Requests, TakeLock(r) PROVE FirstCapFirst'
  BY <1>2 DEF PlanTypeOK, FirstCapFirst, TakeLock, Goto, txVars
<1>3. ASSUME NEW r \in Requests, ReadUsed(r) PROVE FirstCapFirst'
  BY <1>3 DEF PlanTypeOK, FirstCapFirst, ReadUsed, Goto, At
<1>4. ASSUME NEW r \in Requests, ReadReserved(r) PROVE FirstCapFirst'
  BY <1>4 DEF PlanTypeOK, FirstCapFirst, ReadReserved, Goto, At
<1>5. ASSUME NEW r \in Requests, NextCheck(r) PROVE FirstCapFirst'
  BY <1>5 DEF PlanTypeOK, FirstCapFirst, NextCheck, Goto
<1>6. ASSUME NEW r \in Requests, Admit(r) PROVE FirstCapFirst'
  BY <1>6 DEF PlanTypeOK, FirstCapFirst, Admit, EndTx, Goto
<1>7. ASSUME NEW r \in Requests, Reject(r) PROVE FirstCapFirst'
  BY <1>7 DEF PlanTypeOK, FirstCapFirst, Reject, EndTx, Goto
<1>8. ASSUME NEW r \in Requests, FailTx(r) PROVE FirstCapFirst'
  BY <1>8 DEF PlanTypeOK, FirstCapFirst, FailTx, EndTx, Goto
<1>9. ASSUME NEW r \in Requests, UpstreamEnds(r) PROVE FirstCapFirst'
  BY <1>9 DEF PlanTypeOK, FirstCapFirst, UpstreamEnds, Goto, txVars
<1>10. ASSUME NEW r \in Requests, InsertRequest(r) PROVE FirstCapFirst'
  BY <1>10 DEF PlanTypeOK, FirstCapFirst, InsertRequest, Goto, txVars
<1>11. ASSUME NEW r \in Requests, InsertRequestFails(r) PROVE FirstCapFirst'
  BY <1>11 DEF PlanTypeOK, FirstCapFirst, InsertRequestFails, Goto, txVars
<1>12. ASSUME NEW r \in Requests, Release(r) PROVE FirstCapFirst'
  BY <1>12 DEF PlanTypeOK, FirstCapFirst, Release, Goto, txVars
<1>13. ASSUME NEW r \in Requests, ReleaseFails(r) PROVE FirstCapFirst'
  BY <1>13 DEF PlanTypeOK, FirstCapFirst, ReleaseFails, Goto, txVars
<1>14. ASSUME NEW r \in Requests, Crash(r) PROVE FirstCapFirst'
  BY <1>14 DEF PlanTypeOK, FirstCapFirst, Crash, EndTx, Goto
<1>15. ASSUME NEW r \in Requests, Expire(r) PROVE FirstCapFirst'
  BY <1>15 DEF PlanTypeOK, FirstCapFirst, Expire, Pass, txVars
<1>16. ASSUME NEW r \in Requests, NEW cap \in Caps, Age(r, cap) PROVE FirstCapFirst'
  BY <1>16 DEF PlanTypeOK, FirstCapFirst, Age, Pass, txVars
<1>17. CASE UNCHANGED vars
  BY <1>17 DEF PlanTypeOK, FirstCapFirst, vars, txVars
<1> QED
  BY <1>1, <1>2, <1>3, <1>4, <1>5, <1>6, <1>7, <1>8, <1>9, <1>10, <1>11,
     <1>12, <1>13, <1>14, <1>15, <1>16, <1>17
     DEF Next, Attempt

-----------------------------------------------------------------------------
(* What an attempt has counted *)

(* A reserved read takes in every live row; until the lock is given back no
   other attempt of the user adds one, and rows only leave. *)
LEMMA StepSlotsCounted ==
  /\ PlanTypeOK /\ LockHeld /\ NowInPast /\ FirstCapFirst /\ SlotsCountedSoFar
  /\ [Next]_vars
  => SlotsCountedSoFar'
<1> SUFFICES ASSUME PlanTypeOK, LockHeld, NowInPast, FirstCapFirst,
                    SlotsCountedSoFar, [Next]_vars
             PROVE  SlotsCountedSoFar'
  OBVIOUS
<1> USE ChecksRange, NoneAssumption DEF InTx, Over, Holding, PendingRows, Clocks
<1>1. ASSUME NEW r \in Requests, BeginTx(r) PROVE SlotsCountedSoFar'
  BY <1>1 DEF PlanTypeOK, LockHeld, NowInPast, SlotsCountedSoFar, BeginTx, Goto
<1>2. ASSUME NEW r \in Requests, TakeLock(r) PROVE SlotsCountedSoFar'
  <2>1. check'[r] = 1 /\ pc'[r] = "used"
    BY <1>2 DEF PlanTypeOK, FirstCapFirst, TakeLock, Goto, txVars
  <2>2. ASSUME NEW q \in Requests, q # r
        PROVE  pc'[q] = pc[q] /\ check'[q] = check[q] /\ seenReserved'[q] = seenReserved[q]
    BY <1>2, <2>2 DEF PlanTypeOK, TakeLock, Goto, txVars
  <2>3. Holding' = Holding
    BY <1>2 DEF TakeLock
  <2> QED
    BY <2>1, <2>2, <2>3 DEF SlotsCountedSoFar
<1>3. ASSUME NEW r \in Requests, ReadUsed(r) PROVE SlotsCountedSoFar'
  BY <1>3 DEF PlanTypeOK, LockHeld, NowInPast, SlotsCountedSoFar, ReadUsed, Goto, At
<1>4. ASSUME NEW r \in Requests, ReadReserved(r) PROVE SlotsCountedSoFar'
  BY <1>4 DEF PlanTypeOK, LockHeld, NowInPast, SlotsCountedSoFar, ReadReserved, Goto, At
<1>5. ASSUME NEW r \in Requests, NextCheck(r) PROVE SlotsCountedSoFar'
  <2>1. check[r] \in Nat /\ check'[r] = check[r] + 1 /\ pc[r] = "check" /\ pc'[r] = "used"
    BY <1>5 DEF PlanTypeOK, NextCheck, Goto
  <2>2. ASSUME NEW q \in Requests, q # r
        PROVE  pc'[q] = pc[q] /\ check'[q] = check[q]
    BY <1>5, <2>2 DEF PlanTypeOK, NextCheck, Goto
  <2>3. Holding' = Holding /\ seenReserved' = seenReserved
    BY <1>5 DEF NextCheck
  <2>4. \A i \in DOMAIN Checks : i < check'[r] => i < check[r] \/ i = check[r]
    BY <2>1
  <2> QED
    BY <2>1, <2>2, <2>3, <2>4 DEF SlotsCountedSoFar
<1>6. ASSUME NEW r \in Requests, Admit(r) PROVE SlotsCountedSoFar'
  BY <1>6 DEF PlanTypeOK, LockHeld, NowInPast, SlotsCountedSoFar, Admit, EndTx, Goto
<1>7. ASSUME NEW r \in Requests, Reject(r) PROVE SlotsCountedSoFar'
  BY <1>7 DEF PlanTypeOK, LockHeld, NowInPast, SlotsCountedSoFar, Reject, EndTx, Goto
<1>8. ASSUME NEW r \in Requests, FailTx(r) PROVE SlotsCountedSoFar'
  BY <1>8 DEF PlanTypeOK, LockHeld, NowInPast, SlotsCountedSoFar, FailTx, EndTx, Goto
<1>9. ASSUME NEW r \in Requests, UpstreamEnds(r) PROVE SlotsCountedSoFar'
  BY <1>9 DEF PlanTypeOK, LockHeld, NowInPast, SlotsCountedSoFar, UpstreamEnds, Goto, txVars
<1>10. ASSUME NEW r \in Requests, InsertRequest(r) PROVE SlotsCountedSoFar'
  BY <1>10 DEF PlanTypeOK, LockHeld, NowInPast, SlotsCountedSoFar, InsertRequest, Goto, txVars
<1>11. ASSUME NEW r \in Requests, InsertRequestFails(r) PROVE SlotsCountedSoFar'
  BY <1>11 DEF PlanTypeOK, LockHeld, NowInPast, SlotsCountedSoFar, InsertRequestFails, Goto, txVars
<1>12. ASSUME NEW r \in Requests, Release(r) PROVE SlotsCountedSoFar'
  BY <1>12 DEF PlanTypeOK, LockHeld, NowInPast, SlotsCountedSoFar, Release, Goto, txVars
<1>13. ASSUME NEW r \in Requests, ReleaseFails(r) PROVE SlotsCountedSoFar'
  BY <1>13 DEF PlanTypeOK, LockHeld, NowInPast, SlotsCountedSoFar, ReleaseFails, Goto, txVars
<1>14. ASSUME NEW r \in Requests, Crash(r) PROVE SlotsCountedSoFar'
  BY <1>14 DEF PlanTypeOK, LockHeld, NowInPast, SlotsCountedSoFar, Crash, EndTx, Goto
<1>15. ASSUME NEW r \in Requests, Expire(r) PROVE SlotsCountedSoFar'
  BY <1>15 DEF PlanTypeOK, LockHeld, NowInPast, SlotsCountedSoFar, Expire, Pass, txVars
<1>16. ASSUME NEW r \in Requests, NEW cap \in Caps, Age(r, cap) PROVE SlotsCountedSoFar'
  BY <1>16 DEF PlanTypeOK, LockHeld, NowInPast, SlotsCountedSoFar, Age, Pass, txVars
<1>17. CASE UNCHANGED vars
  BY <1>17 DEF PlanTypeOK, LockHeld, NowInPast, SlotsCountedSoFar, vars, txVars
<1> QED
  BY <1>1, <1>2, <1>3, <1>4, <1>5, <1>6, <1>7, <1>8, <1>9, <1>10, <1>11,
     <1>12, <1>13, <1>14, <1>15, <1>16, <1>17
     DEF Next, Attempt

-----------------------------------------------------------------------------
(* What a finished request has let go of *)

LEMMA StepRowFollowsPhase ==
  PlanTypeOK /\ RowFollowsPhase /\ [Next]_vars => RowFollowsPhase'
<1> SUFFICES ASSUME PlanTypeOK, RowFollowsPhase, [Next]_vars
             PROVE  RowFollowsPhase'
  OBVIOUS
<1> USE DEF InTx, Over
<1>1. ASSUME NEW r \in Requests, BeginTx(r) PROVE RowFollowsPhase'
  BY <1>1 DEF PlanTypeOK, RowFollowsPhase, BeginTx, Goto
<1>2. ASSUME NEW r \in Requests, TakeLock(r) PROVE RowFollowsPhase'
  BY <1>2 DEF PlanTypeOK, RowFollowsPhase, TakeLock, Goto, txVars
<1>3. ASSUME NEW r \in Requests, ReadUsed(r) PROVE RowFollowsPhase'
  BY <1>3 DEF PlanTypeOK, RowFollowsPhase, ReadUsed, Goto, At
<1>4. ASSUME NEW r \in Requests, ReadReserved(r) PROVE RowFollowsPhase'
  BY <1>4 DEF PlanTypeOK, RowFollowsPhase, ReadReserved, Goto, At
<1>5. ASSUME NEW r \in Requests, NextCheck(r) PROVE RowFollowsPhase'
  BY <1>5 DEF PlanTypeOK, RowFollowsPhase, NextCheck, Goto
<1>6. ASSUME NEW r \in Requests, Admit(r) PROVE RowFollowsPhase'
  BY <1>6 DEF PlanTypeOK, RowFollowsPhase, Admit, EndTx, Goto
<1>7. ASSUME NEW r \in Requests, Reject(r) PROVE RowFollowsPhase'
  BY <1>7 DEF PlanTypeOK, RowFollowsPhase, Reject, EndTx, Goto
<1>8. ASSUME NEW r \in Requests, FailTx(r) PROVE RowFollowsPhase'
  BY <1>8 DEF PlanTypeOK, RowFollowsPhase, FailTx, EndTx, Goto
<1>9. ASSUME NEW r \in Requests, UpstreamEnds(r) PROVE RowFollowsPhase'
  BY <1>9 DEF PlanTypeOK, RowFollowsPhase, UpstreamEnds, Goto, txVars
<1>10. ASSUME NEW r \in Requests, InsertRequest(r) PROVE RowFollowsPhase'
  BY <1>10 DEF PlanTypeOK, RowFollowsPhase, InsertRequest, Goto, txVars
<1>11. ASSUME NEW r \in Requests, InsertRequestFails(r) PROVE RowFollowsPhase'
  BY <1>11 DEF PlanTypeOK, RowFollowsPhase, InsertRequestFails, Goto, txVars
<1>12. ASSUME NEW r \in Requests, Release(r) PROVE RowFollowsPhase'
  BY <1>12 DEF PlanTypeOK, RowFollowsPhase, Release, Goto, txVars
<1>13. ASSUME NEW r \in Requests, ReleaseFails(r) PROVE RowFollowsPhase'
  BY <1>13 DEF PlanTypeOK, RowFollowsPhase, ReleaseFails, Goto, txVars
<1>14. ASSUME NEW r \in Requests, Crash(r) PROVE RowFollowsPhase'
  BY <1>14 DEF PlanTypeOK, RowFollowsPhase, Crash, EndTx, Goto
<1>15. ASSUME NEW r \in Requests, Expire(r) PROVE RowFollowsPhase'
  BY <1>15 DEF PlanTypeOK, RowFollowsPhase, Expire, Pass, txVars
<1>16. ASSUME NEW r \in Requests, NEW cap \in Caps, Age(r, cap) PROVE RowFollowsPhase'
  BY <1>16 DEF PlanTypeOK, RowFollowsPhase, Age, Pass, txVars
<1>17. CASE UNCHANGED vars
  BY <1>17 DEF PlanTypeOK, RowFollowsPhase, vars, txVars
<1> QED
  BY <1>1, <1>2, <1>3, <1>4, <1>5, <1>6, <1>7, <1>8, <1>9, <1>10, <1>11,
     <1>12, <1>13, <1>14, <1>15, <1>16, <1>17
     DEF Next, Attempt

-----------------------------------------------------------------------------
(* The theorems *)

LEMMA InitPlanInv == Init => PlanInv
<1> SUFFICES ASSUME Init PROVE PlanInv
  OBVIOUS
<1> USE ChecksRange, AmountsAssumption, NoneAssumption DEF Init
<1>1. PlanTypeOK
  BY DEF PlanTypeOK, Phases, InTx, Over, NoRows, Clocks
<1>2. LockHeld /\ NowInPast /\ FirstCapFirst /\ SlotsCountedSoFar /\ RowFollowsPhase
  BY DEF LockHeld, NowInPast, FirstCapFirst, SlotsCountedSoFar, RowFollowsPhase, InTx, Clocks
<1> QED
  BY <1>1, <1>2 DEF PlanInv

LEMMA StepPlanInv == PlanInv /\ [Next]_vars => PlanInv'
BY StepPlanTypeOK, StepLockHeld, StepPlanNowInPast, StepFirstCapFirst, StepSlotsCounted,
   StepRowFollowsPhase
   DEF PlanInv

(* The inductive invariant: everything proved below follows from it. *)
THEOREM PlanInvariance == Spec => []PlanInv
BY InitPlanInv, StepPlanInv, PTL DEF Spec

(* Type correctness of the plan-tier protocol. *)
THEOREM PlanTypeCorrect == Spec => []PlanTypeOK
<1>1. PlanInv => PlanTypeOK
  BY DEF PlanInv
<1> QED
  BY <1>1, PlanInvariance, PTL

(* Two turns of one user are never granted the same slot or the same headroom:
   what was summed for the first cap is still complete when the second one is
   decided, whatever crashes, expires, ends or fails in between. *)
THEOREM EverySlotCounted == Spec => []SlotsCounted
<1>1. PlanInv => SlotsCounted
  <2> SUFFICES ASSUME PlanInv, NEW r \in Requests, pc[r] = "check", NEW i \in 1..check[r]
               PROVE  Holding \subseteq seenReserved[r][Checks[i]]
    BY DEF SlotsCounted
  <2>1. check[r] \in 1..Len(Checks)
    BY ChecksRange DEF PlanInv, PlanTypeOK
  <2>2. i \in DOMAIN Checks /\ (i < check[r] \/ i = check[r])
    BY <2>1, ChecksRange
  <2> QED
    BY <2>2 DEF PlanInv, SlotsCountedSoFar, InTx
<1> QED
  BY <1>1, PlanInvariance, PTL

(* A request that finished, was rejected or failed in its reservation keeps no
   slot. *)
THEOREM NoSlotKept == Spec => []EndedHoldsNothing
<1>1. PlanInv => EndedHoldsNothing
  BY DEF PlanInv, RowFollowsPhase, EndedHoldsNothing, InTx
<1> QED
  BY <1>1, PlanInvariance, PTL

-----------------------------------------------------------------------------
(* The abstract gate.  The protocol looks at one cap after the other and     *)
(* writes after the last one: the COMMIT is an admission only because what   *)
(* an earlier cap was granted against is still what it was.                  *)

(* Rows and clocks: only reservations that were inserted expire, a request is
   in the ledger only after it settled, only ledger rows age, and a
   transaction's NOW() is never ahead of any clock. *)
RowsSettle ==
  /\ \A r \in Requests :
       /\ r \in past["ttl"] => resv[r] # "none"
       /\ r \in ledger => pc[r] \in {"release"} \cup Over
       /\ \A c \in Clocks : now[r][c] \subseteq past[c]
  /\ \A cap \in Caps : past[cap] \subseteq ledger

(* What a read selected is settled: ledger rows whose cost is final, reservation
   rows whose amount is. *)
SeenIsFinal ==
  \A r \in Requests, cap \in Caps :
    /\ seenUsed[r][cap] \subseteq ledger
    /\ \A q \in seenReserved[r][cap] : resv[q] # "none"

(* The caps an attempt has passed still have room for it. *)
PassedCaps ==
  \A r \in Requests : \A i \in DOMAIN Checks :
    pc[r] \in InTx /\ i < check[r] => ~WouldExceed(r, Checks[i])

LEMMA CapsAreNoTtl == "ttl" \notin Caps
BY ChecksAssumption DEF Caps

LEMMA StepRowsSettle ==
  PlanTypeOK /\ RowsSettle /\ [Next]_vars => RowsSettle'
<1> SUFFICES ASSUME PlanTypeOK, RowsSettle, [Next]_vars
             PROVE  RowsSettle'
  OBVIOUS
<1> USE CapsAreNoTtl, ChecksRange DEF Over, InTx, Clocks
<1>1. ASSUME NEW r \in Requests, BeginTx(r) PROVE RowsSettle'
  BY <1>1 DEF PlanTypeOK, RowsSettle, BeginTx, Goto
<1>2. ASSUME NEW r \in Requests, TakeLock(r) PROVE RowsSettle'
  BY <1>2 DEF PlanTypeOK, RowsSettle, TakeLock, Goto, txVars
<1>3. ASSUME NEW r \in Requests, ReadUsed(r) PROVE RowsSettle'
  BY <1>3 DEF PlanTypeOK, RowsSettle, ReadUsed, Goto, At
<1>4. ASSUME NEW r \in Requests, ReadReserved(r) PROVE RowsSettle'
  BY <1>4 DEF PlanTypeOK, RowsSettle, ReadReserved, Goto, At, PendingRows
<1>5. ASSUME NEW r \in Requests, NextCheck(r) PROVE RowsSettle'
  BY <1>5 DEF PlanTypeOK, RowsSettle, NextCheck, Goto
<1>6. ASSUME NEW r \in Requests, Admit(r) PROVE RowsSettle'
  BY <1>6 DEF PlanTypeOK, RowsSettle, Admit, EndTx, NoRows, Goto
<1>7. ASSUME NEW r \in Requests, Reject(r) PROVE RowsSettle'
  BY <1>7 DEF PlanTypeOK, RowsSettle, Reject, EndTx, NoRows, Goto
<1>8. ASSUME NEW r \in Requests, FailTx(r) PROVE RowsSettle'
  BY <1>8 DEF PlanTypeOK, RowsSettle, FailTx, EndTx, NoRows, Goto
<1>9. ASSUME NEW r \in Requests, UpstreamEnds(r) PROVE RowsSettle'
  BY <1>9 DEF PlanTypeOK, RowsSettle, UpstreamEnds, Goto, txVars
<1>10. ASSUME NEW r \in Requests, InsertRequest(r) PROVE RowsSettle'
  BY <1>10 DEF PlanTypeOK, RowsSettle, InsertRequest, Goto, txVars
<1>11. ASSUME NEW r \in Requests, InsertRequestFails(r) PROVE RowsSettle'
  BY <1>11 DEF PlanTypeOK, RowsSettle, InsertRequestFails, Goto, txVars
<1>12. ASSUME NEW r \in Requests, Release(r) PROVE RowsSettle'
  BY <1>12 DEF PlanTypeOK, RowsSettle, Release, Goto, txVars
<1>13. ASSUME NEW r \in Requests, ReleaseFails(r) PROVE RowsSettle'
  BY <1>13 DEF PlanTypeOK, RowsSettle, ReleaseFails, Goto, txVars
<1>14. ASSUME NEW r \in Requests, Crash(r) PROVE RowsSettle'
  BY <1>14 DEF PlanTypeOK, RowsSettle, Crash, EndTx, NoRows, Goto
<1>15. ASSUME NEW r \in Requests, Expire(r) PROVE RowsSettle'
  BY <1>15 DEF PlanTypeOK, RowsSettle, Expire, Pass, txVars
<1>16. ASSUME NEW r \in Requests, NEW cap \in Caps, Age(r, cap) PROVE RowsSettle'
  BY <1>16 DEF PlanTypeOK, RowsSettle, Age, Pass, txVars
<1>17. CASE UNCHANGED vars
  BY <1>17 DEF PlanTypeOK, RowsSettle, vars, txVars
<1> QED
  BY <1>1, <1>2, <1>3, <1>4, <1>5, <1>6, <1>7, <1>8, <1>9, <1>10, <1>11,
     <1>12, <1>13, <1>14, <1>15, <1>16, <1>17
     DEF Next, Attempt

LEMMA StepSeenIsFinal ==
  PlanTypeOK /\ SeenIsFinal /\ [Next]_vars => SeenIsFinal'
<1> SUFFICES ASSUME PlanTypeOK, SeenIsFinal, [Next]_vars
             PROVE  SeenIsFinal'
  OBVIOUS
<1> USE ChecksRange
<1>1. ASSUME NEW r \in Requests, BeginTx(r) PROVE SeenIsFinal'
  BY <1>1 DEF PlanTypeOK, SeenIsFinal, BeginTx, Goto
<1>2. ASSUME NEW r \in Requests, TakeLock(r) PROVE SeenIsFinal'
  BY <1>2 DEF PlanTypeOK, SeenIsFinal, TakeLock, Goto, txVars
<1>3. ASSUME NEW r \in Requests, ReadUsed(r) PROVE SeenIsFinal'
  BY <1>3 DEF PlanTypeOK, SeenIsFinal, ReadUsed, Goto, At
<1>4. ASSUME NEW r \in Requests, ReadReserved(r) PROVE SeenIsFinal'
  BY <1>4 DEF PlanTypeOK, SeenIsFinal, ReadReserved, Goto, At, PendingRows
<1>5. ASSUME NEW r \in Requests, NextCheck(r) PROVE SeenIsFinal'
  BY <1>5 DEF PlanTypeOK, SeenIsFinal, NextCheck, Goto
<1>6. ASSUME NEW r \in Requests, Admit(r) PROVE SeenIsFinal'
  BY <1>6 DEF PlanTypeOK, SeenIsFinal, Admit, EndTx, NoRows, Goto
<1>7. ASSUME NEW r \in Requests, Reject(r) PROVE SeenIsFinal'
  BY <1>7 DEF PlanTypeOK, SeenIsFinal, Reject, EndTx, NoRows, Goto
<1>8. ASSUME NEW r \in Requests, FailTx(r) PROVE SeenIsFinal'
  BY <1>8 DEF PlanTypeOK, SeenIsFinal, FailTx, EndTx, NoRows, Goto
<1>9. ASSUME NEW r \in Requests, UpstreamEnds(r) PROVE SeenIsFinal'
  BY <1>9 DEF PlanTypeOK, SeenIsFinal, UpstreamEnds, Goto, txVars
<1>10. ASSUME NEW r \in Requests, InsertRequest(r) PROVE SeenIsFinal'
  BY <1>10 DEF PlanTypeOK, SeenIsFinal, InsertRequest, Goto, txVars
<1>11. ASSUME NEW r \in Requests, InsertRequestFails(r) PROVE SeenIsFinal'
  BY <1>11 DEF PlanTypeOK, SeenIsFinal, InsertRequestFails, Goto, txVars
<1>12. ASSUME NEW r \in Requests, Release(r) PROVE SeenIsFinal'
  BY <1>12 DEF PlanTypeOK, SeenIsFinal, Release, Goto, txVars
<1>13. ASSUME NEW r \in Requests, ReleaseFails(r) PROVE SeenIsFinal'
  BY <1>13 DEF PlanTypeOK, SeenIsFinal, ReleaseFails, Goto, txVars
<1>14. ASSUME NEW r \in Requests, Crash(r) PROVE SeenIsFinal'
  BY <1>14 DEF PlanTypeOK, SeenIsFinal, Crash, EndTx, NoRows, Goto
<1>15. ASSUME NEW r \in Requests, Expire(r) PROVE SeenIsFinal'
  BY <1>15 DEF PlanTypeOK, SeenIsFinal, Expire, Pass, txVars
<1>16. ASSUME NEW r \in Requests, NEW cap \in Caps, Age(r, cap) PROVE SeenIsFinal'
  BY <1>16 DEF PlanTypeOK, SeenIsFinal, Age, Pass, txVars
<1>17. CASE UNCHANGED vars
  BY <1>17 DEF PlanTypeOK, SeenIsFinal, vars, txVars
<1> QED
  BY <1>1, <1>2, <1>3, <1>4, <1>5, <1>6, <1>7, <1>8, <1>9, <1>10, <1>11,
     <1>12, <1>13, <1>14, <1>15, <1>16, <1>17
     DEF Next, Attempt

LEMMA ChecksDistinct ==
  ASSUME NEW i \in DOMAIN Checks, NEW j \in DOMAIN Checks, i < j
  PROVE  Checks[i] # Checks[j]
<1>1. Checks = <<"daily", "monthly">>
  <2>1. Len(Checks) # 1
    BY ChecksRange
  <2> QED BY <2>1, ChecksAssumption
<1> QED BY <1>1

(* An answer about a cap stands while what it summed does. *)
LEMMA AnswerStands ==
  ASSUME PlanTypeOK, NEW r \in Requests, NEW cap \in Caps, ~WouldExceed(r, cap),
         seenUsed'[r][cap] = seenUsed[r][cap],
         seenReserved'[r][cap] = seenReserved[r][cap],
         amount'[r] = amount[r],
         \A q \in seenUsed[r][cap] : cost'[q] = cost[q],
         \A q \in seenReserved[r][cap] : amount'[q] = amount[q]
  PROVE  ~WouldExceed(r, cap)'
<1> DEFINE Used == seenUsed[r][cap]
           Res == seenReserved[r][cap]
<1>1. IsFiniteSet(Used) /\ IsFiniteSet(Res) /\ Used \subseteq Requests /\ Res \subseteq Requests
  BY RequestsAssumption, FS_Subset DEF PlanTypeOK
<1>2. /\ \A q \in Used : Weigh(cost', cap)[q] = Weigh(cost, cap)[q]
      /\ \A q \in Res : Weigh(amount', cap)[q] = Weigh(amount, cap)[q]
      /\ Weigh(amount', cap)[r] = Weigh(amount, cap)[r]
  BY DEF Weigh
<1>3. ASSUME NEW f, NEW S PROVE Total(f, S) = Sum(f, S)
  BY DEF Total, Sum, FoldFunctionOnSet, MapThenFoldSet
<1>4. /\ Total(Weigh(cost', cap), Used) = Total(Weigh(cost, cap), Used)
      /\ Total(Weigh(amount', cap), Res) = Total(Weigh(amount, cap), Res)
  <2> HIDE DEF Used, Res
  <2>1. Sum(Weigh(cost', cap), Used) = Sum(Weigh(cost, cap), Used)
    BY <1>1, <1>2, SumSame
  <2>2. Sum(Weigh(amount', cap), Res) = Sum(Weigh(amount, cap), Res)
    BY <1>1, <1>2, SumSame
  <2> QED BY <2>1, <2>2, <1>3
<1> QED BY <1>2, <1>4 DEF WouldExceed

(* The step that could grow a passed cap's sums is the one that reads it. *)
LEMMA StepPassedCaps ==
  PlanInv /\ RowsSettle /\ SeenIsFinal /\ PassedCaps /\ [Next]_vars => PassedCaps'
<1> SUFFICES ASSUME PlanInv, RowsSettle, SeenIsFinal, PassedCaps, [Next]_vars,
                    NEW q \in Requests, NEW i \in DOMAIN Checks,
                    pc'[q] \in InTx, i < check'[q]
             PROVE  ~WouldExceed(q, Checks[i])'
  BY DEF PassedCaps
<1> USE ChecksRange DEF PlanInv
<1> DEFINE cap == Checks[i]
           Same == /\ pc[q] \in InTx
                   /\ seenUsed'[q][cap] = seenUsed[q][cap]
                   /\ seenReserved'[q][cap] = seenReserved[q][cap]
                   /\ amount'[q] = amount[q]
                   /\ \A p \in seenUsed[q][cap] : cost'[p] = cost[p]
                   /\ \A p \in seenReserved[q][cap] : amount'[p] = amount[p]
<1>0. cap \in Caps /\ seenUsed[q][cap] \subseteq Requests /\ seenReserved[q][cap] \subseteq Requests
  BY DEF PlanTypeOK
<1>1. ASSUME NEW r \in Requests, BeginTx(r) PROVE Same /\ i < check[q]
  <2>1. pc[r] = "start" /\ resv[r] = "none" /\ q # r
    BY <1>1 DEF BeginTx, RowFollowsPhase, Goto, PlanTypeOK, InTx
  <2>2. r \notin seenReserved[q][cap]
    BY <1>0, <2>1 DEF SeenIsFinal
  <2> QED BY <1>1, <2>1, <2>2, <1>0 DEF BeginTx, Goto, PlanTypeOK, InTx
<1>2. ASSUME NEW r \in Requests, TakeLock(r) PROVE Same /\ i < check[q]
  <2>1. q # r
    BY <1>2 DEF TakeLock, FirstCapFirst, PlanTypeOK, txVars
  <2> QED BY <1>2, <2>1, <1>0 DEF TakeLock, Goto, PlanTypeOK, InTx, txVars
<1>3. ASSUME NEW r \in Requests, ReadUsed(r) PROVE Same /\ i < check[q]
  <2>1. q = r => cap # At(r)
    BY <1>3, ChecksDistinct DEF ReadUsed, At, PlanTypeOK
  <2> QED BY <1>3, <2>1, <1>0 DEF ReadUsed, Goto, PlanTypeOK, InTx
<1>4. ASSUME NEW r \in Requests, ReadReserved(r) PROVE Same /\ i < check[q]
  <2>1. q = r => cap # At(r)
    BY <1>4, ChecksDistinct DEF ReadReserved, At, PlanTypeOK
  <2> QED BY <1>4, <2>1, <1>0 DEF ReadReserved, Goto, PlanTypeOK, InTx
<1>5. ASSUME NEW r \in Requests, NextCheck(r) PROVE Same /\ (i < check[q] \/ ~WouldExceed(q, cap))
  <2>1. Same
    BY <1>5 DEF NextCheck, PlanTypeOK, InTx, Goto
  <2>2. CASE q = r /\ i = check[r]
    BY <1>5, <2>1, <2>2 DEF NextCheck, At
  <2>3. CASE ~(q = r /\ i = check[r])
    <3>1. check' = [check EXCEPT ![r] = check[r] + 1]
      BY <1>5 DEF NextCheck
    <3> HIDE DEF Same
    <3> QED BY <2>1, <2>3, <3>1 DEF PlanTypeOK
  <2> QED BY <2>2, <2>3, <2>1
<1>6. ASSUME NEW r \in Requests, Admit(r) PROVE Same /\ i < check[q]
  BY <1>6, <1>0 DEF Admit, EndTx, NoRows, Goto, PlanTypeOK, InTx, Over
<1>7. ASSUME NEW r \in Requests, Reject(r) PROVE Same /\ i < check[q]
  BY <1>7, <1>0 DEF Reject, EndTx, NoRows, Goto, PlanTypeOK, InTx, Over
<1>8. ASSUME NEW r \in Requests, FailTx(r) PROVE Same /\ i < check[q]
  BY <1>8, <1>0 DEF FailTx, EndTx, NoRows, Goto, PlanTypeOK, InTx, Over
<1>9. ASSUME NEW r \in Requests, UpstreamEnds(r) PROVE Same /\ i < check[q]
  BY <1>9, <1>0 DEF UpstreamEnds, Goto, txVars, PlanTypeOK, InTx, Over
<1>10. ASSUME NEW r \in Requests, InsertRequest(r) PROVE Same /\ i < check[q]
  <2>1. r \notin ledger /\ q # r
    BY <1>10 DEF InsertRequest, RowsSettle, Over, Goto, PlanTypeOK, InTx
  <2>2. r \notin seenUsed[q][cap]
    BY <1>0, <2>1 DEF SeenIsFinal
  <2> QED BY <1>10, <2>1, <2>2, <1>0 DEF InsertRequest, Goto, PlanTypeOK, InTx, txVars
<1>11. ASSUME NEW r \in Requests, InsertRequestFails(r) PROVE Same /\ i < check[q]
  BY <1>11, <1>0 DEF InsertRequestFails, Goto, txVars, PlanTypeOK, InTx, Over
<1>12. ASSUME NEW r \in Requests, Release(r) PROVE Same /\ i < check[q]
  BY <1>12, <1>0 DEF Release, Goto, txVars, PlanTypeOK, InTx, Over
<1>13. ASSUME NEW r \in Requests, ReleaseFails(r) PROVE Same /\ i < check[q]
  BY <1>13, <1>0 DEF ReleaseFails, Goto, txVars, PlanTypeOK, InTx, Over
<1>14. ASSUME NEW r \in Requests, Crash(r) PROVE Same /\ i < check[q]
  BY <1>14, <1>0 DEF Crash, EndTx, NoRows, Goto, PlanTypeOK, InTx, Over
<1>15. ASSUME NEW r \in Requests, Expire(r) PROVE Same /\ i < check[q]
  BY <1>15, <1>0 DEF Expire, Pass, txVars, PlanTypeOK, InTx, Over
<1>16. ASSUME NEW r \in Requests, NEW c \in Caps, Age(r, c) PROVE Same /\ i < check[q]
  BY <1>16 DEF Age, Pass, txVars
<1>17. ASSUME UNCHANGED vars PROVE Same /\ i < check[q]
  BY <1>17 DEF vars, txVars
<1> HIDE DEF Same
<1>18. Same /\ (i < check[q] \/ ~WouldExceed(q, cap))
  BY <1>1, <1>2, <1>3, <1>4, <1>5, <1>6, <1>7, <1>8, <1>9, <1>10, <1>11,
     <1>12, <1>13, <1>14, <1>15, <1>16, <1>17
     DEF Next, Attempt
<1>19. ~WouldExceed(q, cap)
  BY <1>18 DEF PassedCaps, Same
<1> QED BY <1>0, <1>18, <1>19, AnswerStands DEF Same

-----------------------------------------------------------------------------
(* The refinement mapping of PlanReservation, by name *)

Promise == [r \in Requests |-> [cap \in Caps |->
              IF resv[r] = "none" THEN 0 ELSE Weigh(amount, cap)[r]]]
Charge == [r \in Requests |-> [cap \in Caps |->
             IF r \in ledger THEN Weigh(cost, cap)[r] ELSE 0]]

GateInv == PlanInv /\ RowsSettle /\ SeenIsFinal /\ PassedCaps

LEMMA WeighType ==
  ASSUME PlanTypeOK, NEW cap, NEW r \in Requests
  PROVE  /\ Weigh(amount, cap)[r] \in Nat /\ Weigh(amount, cap)[r] \in Amounts \cup {1}
         /\ Weigh(cost, cap)[r] \in Nat /\ Weigh(cost, cap)[r] \in Costs \cup {1}
BY AmountsAssumption DEF Weigh, PlanTypeOK

(* The gate's sums over the mapped tables are the sums of the queries. *)
LEMMA PlanGateTotals ==
  ASSUME PlanTypeOK, SeenIsFinal, NEW cap \in Caps, NEW r \in Requests,
         Holding \subseteq seenReserved[r][cap]
  PROVE  /\ Gate!Total(Charge, cap, seenUsed[r][cap])
              = Total(Weigh(cost, cap), seenUsed[r][cap])
         /\ Gate!Total(Promise, cap, Holding) = Total(Weigh(amount, cap), Holding)
         /\ Total(Weigh(amount, cap), Holding)
              <= Total(Weigh(amount, cap), seenReserved[r][cap])
         /\ Total(Weigh(amount, cap), Holding) \in Nat
         /\ Total(Weigh(amount, cap), seenReserved[r][cap]) \in Nat
         /\ Total(Weigh(cost, cap), seenUsed[r][cap]) \in Nat
<1> DEFINE H == Holding
           Seen == seenUsed[r][cap]
           Res == seenReserved[r][cap]
           A == Weigh(amount, cap)
           C == Weigh(cost, cap)
<1>1. /\ Seen \subseteq Requests /\ Res \subseteq Requests /\ H \subseteq Res
      /\ IsFiniteSet(Seen) /\ IsFiniteSet(Res) /\ IsFiniteSet(H)
  <2>1. Seen \subseteq Requests /\ Res \subseteq Requests /\ H \subseteq Res
    BY DEF PlanTypeOK
  <2> QED BY <2>1, RequestsAssumption, FS_Subset
<1>2. \A q \in Requests : A[q] \in Nat /\ C[q] \in Nat
  BY WeighType
<1>3. \A q \in Seen : [p \in Seen |-> Charge[p][cap]][q] = C[q]
  BY <1>1 DEF SeenIsFinal, Charge
<1>4. \A q \in H : [p \in H |-> Promise[p][cap]][q] = A[q]
  BY <1>1 DEF Holding, PendingRows, Promise
<1>5. ASSUME NEW f, NEW S PROVE Total(f, S) = Sum(f, S)
  BY DEF Total, Sum, FoldFunctionOnSet, MapThenFoldSet
<1>6. ASSUME NEW f, NEW S PROVE Gate!Total(f, cap, S) = Sum([q \in S |-> f[q][cap]], S)
  BY DEF Gate!Total, Gate!FoldFunctionOnSet, Gate!MapThenFoldSet,
         Sum, FoldFunctionOnSet, MapThenFoldSet
<1> HIDE DEF H, Seen, Res, A, C
<1>7. Gate!Total(Charge, cap, Seen) = Total(C, Seen)
  <2>1. Sum([p \in Seen |-> Charge[p][cap]], Seen) = Sum(C, Seen)
    BY <1>1, <1>3, SumSame
  <2> QED BY <2>1, <1>5, <1>6
<1>8. Gate!Total(Promise, cap, H) = Total(A, H)
  <2>1. Sum([p \in H |-> Promise[p][cap]], H) = Sum(A, H)
    BY <1>1, <1>4, SumSame
  <2> QED BY <2>1, <1>5, <1>6
<1>9. /\ Sum(A, H) <= Sum(A, Res)
      /\ Sum(A, H) \in Nat /\ Sum(A, Res) \in Nat /\ Sum(C, Seen) \in Nat
  <2>1. /\ \A q \in H : A[q] \in Nat
        /\ \A q \in Res : A[q] \in Nat
        /\ \A q \in Seen : C[q] \in Nat
    BY <1>1, <1>2
  <2> QED BY <2>1, <1>1, SumMonotone, SumType
<1> QED BY <1>5, <1>7, <1>8, <1>9 DEF H, Seen, Res, A, C

LEMMA PlanGateInit == Init => Gate!Init
<1> SUFFICES ASSUME Init PROVE Gate!Init
  OBVIOUS
<1>1. Holding = {}
  BY DEF Init, Holding, PendingRows
<1>2. \A cap \in Caps : ledger \ past[cap] = {}
  BY DEF Init
<1>3. Limit \in [Caps -> {Limit[cap] : cap \in Caps}]
  BY LimitAssumption
<1> QED BY <1>1, <1>2, <1>3 DEF Init, Gate!Init, Gate!Zero, Gate!Nothing, NoRows

(* When the last cap has room, all have it at once. *)
LEMMA PlanGateAdmits ==
  ASSUME GateInv, NEW r \in Requests, Admit(r)
  PROVE  Gate!Admit(r)
<1> DEFINE w == [cap \in Caps |-> Weigh(amount, cap)[r]]
<1> USE ChecksRange DEF GateInv, PlanInv
<1>1. /\ pc[r] = "check" /\ check[r] = Len(Checks) /\ resv[r] = "none"
      /\ resv' = [resv EXCEPT ![r] = "pending"]
      /\ seenUsed' = [seenUsed EXCEPT ![r] = NoRows]
      /\ UNCHANGED <<amount, cost, ledger, past>>
  BY DEF Admit, EndTx, RowFollowsPhase, InTx
<1>2. r \notin past["ttl"]
  BY <1>1 DEF RowsSettle
<1>3. ASSUME NEW cap \in Caps
      PROVE  Gate!Total(Charge, cap, seenUsed[r][cap])
               + Gate!Total(Promise, cap, Holding) + w[cap] <= Limit[cap]
  <2>1. PICK i \in DOMAIN Checks : cap = Checks[i]
    BY DEF Caps
  <2>2. i < check[r] \/ i = check[r]
    BY <1>1
  <2>3. ~WouldExceed(r, cap)
    BY <1>1, <2>1, <2>2 DEF PassedCaps, InTx, Admit, At
  <2>4. Holding \subseteq seenReserved[r][cap]
    BY <1>1, <2>1, <2>2 DEF SlotsCountedSoFar, InTx
  <2>5. /\ Gate!Total(Charge, cap, seenUsed[r][cap])
              = Total(Weigh(cost, cap), seenUsed[r][cap])
        /\ Gate!Total(Promise, cap, Holding) = Total(Weigh(amount, cap), Holding)
        /\ Total(Weigh(amount, cap), Holding)
              <= Total(Weigh(amount, cap), seenReserved[r][cap])
        /\ Total(Weigh(amount, cap), Holding) \in Nat
        /\ Total(Weigh(amount, cap), seenReserved[r][cap]) \in Nat
        /\ Total(Weigh(cost, cap), seenUsed[r][cap]) \in Nat
    BY <2>4, PlanGateTotals
  <2>6. Weigh(amount, cap)[r] \in Nat /\ Limit[cap] \in Nat
    BY WeighType, LimitAssumption
  <2>7. ~(Total(Weigh(cost, cap), seenUsed[r][cap])
            + Total(Weigh(amount, cap), seenReserved[r][cap])
            + Weigh(amount, cap)[r] > Limit[cap])
    BY <2>3 DEF WouldExceed
  <2>8. w[cap] = Weigh(amount, cap)[r]
    OBVIOUS
  <2> DEFINE wanted == Weigh(amount, cap)[r]
             used == Total(Weigh(cost, cap), seenUsed[r][cap])
             held == Total(Weigh(amount, cap), Holding)
             seen == Total(Weigh(amount, cap), seenReserved[r][cap])
  <2>9. /\ used \in Nat /\ held \in Nat /\ seen \in Nat /\ wanted \in Nat /\ Limit[cap] \in Nat
        /\ held <= seen /\ ~(used + seen + wanted > Limit[cap])
    BY <2>5, <2>6, <2>7
  <2>10. /\ Gate!Total(Charge, cap, seenUsed[r][cap]) = used
         /\ Gate!Total(Promise, cap, Holding) = held /\ w[cap] = wanted
    BY <2>5, <2>8
  <2> HIDE DEF w, wanted, used, held, seen
  <2> QED BY <2>9, <2>10
<1>4. Promise[r] = Gate!Zero
  BY <1>1 DEF Gate!Zero, Promise
<1>5. w \in [Caps -> Amounts \cup {1}]
  BY WeighType
<1>6. Promise' = [Promise EXCEPT ![r] = w]
  <2>1. ASSUME NEW q \in Requests PROVE Promise'[q] = [Promise EXCEPT ![r] = w][q]
    BY <1>1 DEF Promise, PlanTypeOK
  <2>2. Promise' = [q \in Requests |-> Promise'[q]]
    BY DEF Promise
  <2>3. [Promise EXCEPT ![r] = w] = [q \in Requests |-> [Promise EXCEPT ![r] = w][q]]
    BY DEF Promise
  <2> HIDE DEF w
  <2> QED BY <2>1, <2>2, <2>3
<1>7. Holding' = Holding \cup {r}
  BY <1>1, <1>2 DEF Holding, PendingRows, PlanTypeOK
<1>8. seenUsed' = [seenUsed EXCEPT ![r] = Gate!Nothing]
  BY <1>1 DEF NoRows, Gate!Nothing
<1>9. UNCHANGED <<Limit, Charge, [cap \in Caps |-> ledger \ past[cap]]>>
  BY <1>1 DEF Charge, Weigh
<1> HIDE DEF w
<1> QED BY <1>3, <1>4, <1>5, <1>6, <1>7, <1>8, <1>9 DEF Gate!Admit, Promise, Charge

LEMMA PlanGateSettles ==
  ASSUME GateInv, NEW r \in Requests, InsertRequest(r)
  PROVE  Gate!Settle(r)
<1> USE DEF GateInv, PlanInv
<1>1. PICK c \in Costs : cost' = [cost EXCEPT ![r] = c]
  BY DEF InsertRequest
<1> DEFINE d == [cap \in Caps |-> IF cap = "daily" THEN c ELSE 1]
<1>2. /\ ledger' = ledger \cup {r} /\ r \notin ledger
      /\ UNCHANGED <<amount, seenUsed, past, resv>>
  BY DEF InsertRequest, RowsSettle, Over, txVars
<1>3. \A cap \in Caps : r \notin past[cap]
  BY <1>2 DEF RowsSettle
<1>4. Charge' = [Charge EXCEPT ![r] = d]
  <2>1. ASSUME NEW q \in Requests PROVE Charge'[q] = [Charge EXCEPT ![r] = d][q]
    BY <1>1, <1>2 DEF Charge, PlanTypeOK, Weigh
  <2>2. Charge' = [q \in Requests |-> Charge'[q]]
    BY DEF Charge
  <2>3. [Charge EXCEPT ![r] = d] = [q \in Requests |-> [Charge EXCEPT ![r] = d][q]]
    BY DEF Charge
  <2> HIDE DEF d
  <2> QED BY <2>1, <2>2, <2>3
<1>5. d \in [Caps -> Costs \cup {1}]
  OBVIOUS
<1>6. [cap \in Caps |-> ledger' \ past'[cap]]
        = [cap \in Caps |-> [k \in Caps |-> ledger \ past[k]][cap] \cup {r}]
  BY <1>2, <1>3
<1>7. UNCHANGED <<Limit, Promise, Holding, seenUsed>>
  BY <1>2 DEF Promise, Weigh, Holding, PendingRows
<1> HIDE DEF d
<1> QED BY <1>2, <1>4, <1>5, <1>6, <1>7 DEF Gate!Settle, Promise, Charge

(* Every step of the protocol is one of the gate, or leaves its state alone. *)
LEMMA PlanGateStep == GateInv /\ [Next]_vars => [Gate!Next]_(Gate!vars)
<1> SUFFICES ASSUME GateInv, [Next]_vars PROVE [Gate!Next]_(Gate!vars)
  OBVIOUS
<1> USE ChecksRange DEF GateInv, PlanInv
<1> DEFINE Quiet == UNCHANGED <<amount, cost, resv, past, ledger, seenUsed>>
<1>0. ASSUME Quiet PROVE UNCHANGED Gate!vars
  BY <1>0 DEF Gate!vars, Holding, PendingRows, Weigh
<1>1. ASSUME NEW r \in Requests, BeginTx(r) PROVE UNCHANGED Gate!vars
  <2>1. resv[r] = "none"
    BY <1>1 DEF BeginTx, RowFollowsPhase
  <2>2. \A q \in Requests \ {r} : amount'[q] = amount[q]
    BY <1>1 DEF BeginTx, PlanTypeOK
  <2>3. UNCHANGED <<cost, resv, past, ledger, seenUsed>>
    BY <1>1 DEF BeginTx
  <2> QED BY <2>1, <2>2, <2>3 DEF Gate!vars, Holding, PendingRows, Weigh
<1>2. ASSUME NEW r \in Requests, TakeLock(r) PROVE Quiet
  BY <1>2 DEF TakeLock, txVars
<1>3. ASSUME NEW r \in Requests, ReadUsed(r) PROVE At(r) \in Caps /\ Gate!Observe(r, At(r))
  <2>1. At(r) \in Caps
    BY DEF At, PlanTypeOK
  <2>2. /\ seenUsed' = [seenUsed EXCEPT ![r][At(r)] = ledger \ now[r][At(r)]]
        /\ UNCHANGED <<amount, cost, resv, past, ledger>>
    BY <1>3 DEF ReadUsed
  <2>3. ledger \ now[r][At(r)] \in SUBSET Requests
    BY DEF PlanTypeOK
  <2>4. ledger \ past[At(r)] \subseteq ledger \ now[r][At(r)]
    BY <2>1 DEF RowsSettle, Clocks
  <2>5. UNCHANGED <<Limit, Promise, Charge, [cap \in Caps |-> Holding],
                    [cap \in Caps |-> ledger \ past[cap]]>>
    BY <2>2 DEF Promise, Charge, Holding, PendingRows, Weigh
  <2> QED BY <2>1, <2>2, <2>3, <2>4, <2>5 DEF Gate!Observe, Promise, Charge
<1>4. ASSUME NEW r \in Requests, ReadReserved(r) PROVE Quiet
  BY <1>4 DEF ReadReserved
<1>5. ASSUME NEW r \in Requests, NextCheck(r) PROVE Quiet
  BY <1>5 DEF NextCheck
<1>6. ASSUME NEW r \in Requests, Admit(r) PROVE Gate!Admit(r)
  BY <1>6, PlanGateAdmits
<1>7. ASSUME NEW r \in Requests, Reject(r) \/ FailTx(r) \/ Crash(r) PROVE Gate!Abandon(r)
  BY <1>7 DEF Reject, FailTx, Crash, EndTx, Gate!Abandon, Gate!Nothing, NoRows, Holding,
              PendingRows, Weigh
<1>8. ASSUME NEW r \in Requests, UpstreamEnds(r) PROVE Quiet
  BY <1>8 DEF UpstreamEnds, txVars
<1>9. ASSUME NEW r \in Requests, InsertRequest(r) PROVE Gate!Settle(r)
  BY <1>9, PlanGateSettles
<1>10. ASSUME NEW r \in Requests, InsertRequestFails(r) \/ ReleaseFails(r) PROVE Quiet
  BY <1>10 DEF InsertRequestFails, ReleaseFails, txVars
<1>11. ASSUME NEW r \in Requests, Release(r) \/ Expire(r) PROVE Gate!Free(r)
  <2>1. Holding' = Holding \ {r}
    BY <1>11 DEF Release, Expire, Pass, Holding, PendingRows, PlanTypeOK, Clocks
  <2>2. UNCHANGED <<amount, cost, ledger, seenUsed>> /\ \A cap \in Caps : past'[cap] = past[cap]
    BY <1>11, CapsAreNoTtl DEF Release, Expire, Pass, txVars, PlanTypeOK, Clocks
  <2>3. \A q \in Requests : resv'[q] = "none" <=> resv[q] = "none"
    BY <1>11 DEF Release, Expire, Pass, PlanTypeOK
  <2>4. UNCHANGED <<Limit, Promise, Charge, [cap \in Caps |-> ledger \ past[cap]], seenUsed>>
    BY <2>2, <2>3 DEF Promise, Charge, Weigh
  <2>5. \E gone \in SUBSET Caps :
          [cap \in Caps |-> Holding]' =
            [cap \in Caps |-> IF cap \in gone THEN [k \in Caps |-> Holding][cap] \ {r}
                                              ELSE [k \in Caps |-> Holding][cap]]
    <3>1. Caps \in SUBSET Caps
      OBVIOUS
    <3> WITNESS Caps \in SUBSET Caps
    <3> QED BY <2>1
  <2> QED BY <2>4, <2>5 DEF Gate!Free, Promise, Charge
<1>12. ASSUME NEW r \in Requests, NEW cap \in Caps, Age(r, cap) PROVE Gate!Forget(cap)
  <2>1. /\ past' = [past EXCEPT ![cap] = @ \cup {r}]
        /\ UNCHANGED <<amount, cost, ledger, seenUsed, resv>>
    BY <1>12 DEF Age, Pass, txVars
  <2>2. [k \in Caps |-> ledger \ past[k]]'
          = [[k \in Caps |-> ledger \ past[k]] EXCEPT ![cap] = (ledger \ past[cap]) \ {r}]
    BY <2>1 DEF PlanTypeOK, Clocks
  <2>3. UNCHANGED <<Limit, Promise, Charge, [k \in Caps |-> Holding], seenUsed>>
    <3>1. past'["ttl"] = past["ttl"]
      BY <2>1, CapsAreNoTtl DEF PlanTypeOK, Clocks
    <3> QED BY <2>1, <3>1 DEF Promise, Charge, Weigh, Holding, PendingRows
  <2>4. (ledger \ past[cap]) \ {r} \in SUBSET ([k \in Caps |-> ledger \ past[k]][cap])
    OBVIOUS
  <2> QED BY <2>2, <2>3, <2>4 DEF Gate!Forget, Promise, Charge
<1>13. CASE UNCHANGED vars
  BY <1>0, <1>13 DEF vars, txVars
<1>14. ASSUME NEW r \in Requests,
             \/ Gate!Admit(r) \/ Gate!Abandon(r) \/ Gate!Settle(r) \/ Gate!Free(r)
             \/ \E cap \in Caps : Gate!Observe(r, cap) \/ Gate!Forget(cap)
      PROVE Gate!Next
  BY <1>14 DEF Gate!Next
<1> HIDE DEF Quiet
<1>15. ASSUME NEW r \in Requests,
              \/ BeginTx(r) \/ Attempt(r) \/ FailTx(r) \/ UpstreamEnds(r) \/ InsertRequest(r)
              \/ InsertRequestFails(r) \/ Release(r) \/ ReleaseFails(r) \/ Crash(r) \/ Expire(r)
              \/ \E cap \in Caps : Age(r, cap)
       PROVE  [Gate!Next]_(Gate!vars)
  BY <1>0, <1>1, <1>2, <1>3, <1>4, <1>5, <1>6, <1>7, <1>8, <1>9, <1>10, <1>11, <1>12,
     <1>14, <1>15 DEF Attempt
<1> QED BY <1>13, <1>15 DEF Next

LEMMA GateInvHolds == Spec => []GateInv
<1>1. Init => GateInv
  <2>1. Init => PlanInv
    BY InitPlanInv
  <2>2. Init => RowsSettle /\ SeenIsFinal /\ PassedCaps
    BY DEF Init, RowsSettle, SeenIsFinal, PassedCaps, NoRows, InTx, Clocks
  <2> QED BY <2>1, <2>2 DEF GateInv
<1>2. GateInv /\ [Next]_vars => GateInv'
  BY StepPlanInv, StepRowsSettle, StepSeenIsFinal, StepPassedCaps DEF GateInv, PlanInv
<1> QED BY <1>1, <1>2, PTL DEF Spec

(* The plan tiers' protocol, two caps one after the other, implements the same
   one-step gate as the project budgets: what the first cap was granted against
   still stands when the second one admits. *)
THEOREM PlanReservationImplementsGate == Spec => ImplementsPlanGate
<1>1. Init => Gate!Init
  BY PlanGateInit
<1>2. GateInv /\ [Next]_vars => [Gate!Next]_(Gate!vars)
  BY PlanGateStep
<1> QED BY <1>1, <1>2, GateInvHolds, PTL DEF Spec, ImplementsPlanGate, Gate!Spec

-----------------------------------------------------------------------------
(* The caps themselves.  As for a project budget, the exposure of a cap is   *)
(* what counts against it and what holders of a slot may still charge it.    *)

LEMMA TotalIsSum == ASSUME NEW f, NEW S PROVE Total(f, S) = Sum(f, S)
BY DEF Total, Sum, FoldFunctionOnSet, MapThenFoldSet

(* The columns and the rows of one cap. *)
LEMMA Columns ==
  ASSUME PlanTypeOK, NEW cap \in Caps
  PROVE  /\ \A q \in Requests : Weigh(cost, cap)[q] \in Nat /\ Weigh(amount, cap)[q] \in Nat
         /\ Limit[cap] \in Nat
         /\ Counted(cap) \in SUBSET Requests /\ Owed \in SUBSET Requests
         /\ IsFiniteSet(Counted(cap)) /\ IsFiniteSet(Owed)
         /\ \A r \in Requests : /\ seenUsed[r][cap] \in SUBSET Requests
                               /\ seenReserved[r][cap] \in SUBSET Requests
<1>1. Counted(cap) \in SUBSET Requests /\ Owed \in SUBSET Requests
  BY DEF PlanTypeOK, Counted, Owed, Holding, PendingRows
<1>2. \A r \in Requests : seenUsed[r][cap] \in SUBSET Requests /\ seenReserved[r][cap] \in SUBSET Requests
  BY DEF PlanTypeOK
<1>3. \A q \in Requests : Weigh(cost, cap)[q] \in Nat /\ Weigh(amount, cap)[q] \in Nat
  BY WeighType
<1>4. IsFiniteSet(Counted(cap)) /\ IsFiniteSet(Owed)
  BY <1>1, RequestsAssumption, FS_Subset
<1> QED BY <1>1, <1>2, <1>3, <1>4, LimitAssumption

(* A step that charges and admits nobody keeps a covered cap covered. *)
AddsNothing(cap) ==
  /\ Counted(cap)' \subseteq Counted(cap) /\ \A q \in Counted(cap)' : cost'[q] = cost[q]
  /\ Owed' \subseteq Owed /\ \A q \in Owed' : amount'[q] = amount[q]

LEMMA NothingAdded ==
  ASSUME PlanTypeOK, NEW cap \in Caps, AddsNothing(cap), Covered(cap)
  PROVE  Covered(cap)'
<1> USE DEF AddsNothing
<1> DEFINE f == Weigh(cost, cap)
           g == Weigh(amount, cap)
           f2 == Weigh(cost', cap)
           g2 == Weigh(amount', cap)
           L == Counted(cap)
           O == Owed
           L2 == Counted(cap)'
           O2 == Owed'
<1>1. /\ L \in SUBSET Requests /\ O \in SUBSET Requests /\ Limit[cap] \in Nat
      /\ Summable(f, Requests) /\ Summable(g, Requests)
  BY Columns DEF Summable
<1>2. L2 \in SUBSET L /\ O2 \in SUBSET O
  OBVIOUS
<1>3. (\A x \in L2 : f2[x] = f[x]) /\ (\A x \in O2 : g2[x] = g[x])
  BY <1>1 DEF Weigh
<1>4. Exposure(cap) = Sum(f, L) + Sum(g, O)
  BY TotalIsSum DEF Exposure
<1>5. Exposure(cap)' = Sum(f2, L2) + Sum(g2, O2)
  BY TotalIsSum DEF Exposure
<1> HIDE DEF L, O, L2, O2, f, g, f2, g2
<1>6. Sum(f2, L2) = Sum(f, L2) /\ Sum(g2, O2) = Sum(g, O2)
  <2>1. IsFiniteSet(L2) /\ IsFiniteSet(O2)
    BY <1>1, <1>2, RequestsAssumption, FS_Subset
  <2> QED BY <1>3, <2>1, SumSame
<1>7. Sum(f, L2) <= Sum(f, L) /\ Sum(f, L2) \in Nat /\ Sum(f, L) \in Nat
  BY <1>1, <1>2, RequestsAssumption, FewerIsLess
<1>8. Sum(g, O2) <= Sum(g, O) /\ Sum(g, O2) \in Nat /\ Sum(g, O) \in Nat
  BY <1>1, <1>2, RequestsAssumption, FewerIsLess
<1> QED BY <1>1, <1>4, <1>5, <1>6, <1>7, <1>8 DEF Covered

(* An admission leaves every cap covered, the one decided first included, when
   its two sums overlooked no charge. *)
LEMMA AdmissionCovers ==
  ASSUME GateInv, NEW r \in Requests, Admit(r), pc'[r] = "upstream",
         NEW cap \in Caps, ~Overlooked(cap)
  PROVE  Covered(cap)'
<1> USE DEF GateInv, PlanInv
<1>1. /\ pc[r] = "check" /\ check[r] = Len(Checks) /\ resv[r] = "none"
      /\ pc' = [pc EXCEPT ![r] = "upstream"]
      /\ resv' = [resv EXCEPT ![r] = "pending"]
      /\ UNCHANGED <<amount, cost, ledger, past>>
  BY DEF Admit, Goto, RowFollowsPhase, InTx, PlanTypeOK
<1>2. r \notin past["ttl"]
  BY <1>1 DEF RowsSettle
<1>3. r \notin Owed /\ Owed' = Owed \cup {r}
  BY <1>1, <1>2 DEF PlanTypeOK, Owed, Holding, PendingRows
<1> DEFINE f == Weigh(cost, cap)
           g == Weigh(amount, cap)
           L == Counted(cap)
           O == Owed
           A == seenUsed[r][cap]
           R == seenReserved[r][cap]
<1>4. /\ L \in SUBSET Requests /\ O \in SUBSET Requests
      /\ A \in SUBSET Requests /\ R \in SUBSET Requests
      /\ IsFiniteSet(O) /\ Limit[cap] \in Nat
      /\ \A q \in Requests : f[q] \in Nat /\ g[q] \in Nat
  BY Columns
<1>5. ~WouldExceed(r, cap) /\ O \subseteq R
  <2>1. PICK i \in DOMAIN Checks : cap = Checks[i]
    BY DEF Caps
  <2>2. i < check[r] \/ i = check[r]
    BY <1>1, <2>1, ChecksRange
  <2>3. ~WouldExceed(r, cap)
    BY <1>1, <2>1, <2>2 DEF PassedCaps, InTx, Admit, At
  <2>4. Holding \subseteq R
    BY <1>1, <2>1, <2>2 DEF SlotsCountedSoFar, InTx
  <2> QED BY <2>3, <2>4 DEF Owed
<1>6. O \cap L = {}
  <2> SUFFICES ASSUME NEW q \in O \cap L PROVE FALSE
    OBVIOUS
  <2>1. q \in Requests /\ pc[q] \in {"upstream", "settle"} /\ q \in ledger
    BY DEF Owed, Holding, PendingRows, Counted
  <2> QED BY <2>1 DEF RowsSettle, Over
<1>7. \A q \in L \ A : f[q] <= IF q \in R THEN g[q] ELSE 0
  <2>1. \A q \in L \ A : ~(f[q] > Promised(q, cap, R))
    BY <1>3 DEF Overlooked
  <2>2. \A q \in L \ A : ~(f[q] > IF q \in R THEN g[q] ELSE 0)
    BY <2>1 DEF Promised
  <2> HIDE DEF f, g
  <2> QED BY <1>4, <2>2
<1>8. Exposure(cap)' = Sum(f, L) + Sum(g, O \cup {r})
  <2>1. Counted(cap)' = L /\ Weigh(cost', cap) = f /\ Weigh(amount', cap) = g
    BY <1>1 DEF Counted
  <2> QED BY <1>3, <2>1, TotalIsSum DEF Exposure
<1>9. ~(Sum(f, A) + Sum(g, R) + g[r] > Limit[cap])
  BY <1>5, TotalIsSum DEF WouldExceed
<1> HIDE DEF f, g, L, O, A, R
<1>10. Sum(f, L) + Sum(g, O) <= Sum(f, A) + Sum(g, R)
  BY <1>4, <1>5, <1>6, <1>7, RequestsAssumption, SumCovers
<1>11. Sum(g, O \cup {r}) = Sum(g, O) + g[r]
  <2>1. r \notin O /\ \A q \in O \cup {r} : g[q] \in Nat
    BY <1>3, <1>4 DEF O
  <2> QED BY <1>4, <2>1, SumAdd
<1>12. /\ Sum(f, L) \in Nat /\ Sum(g, O) \in Nat
       /\ Sum(f, A) \in Nat /\ Sum(g, R) \in Nat
  <2>1. Summable(f, Requests) /\ Summable(g, Requests)
    BY <1>4 DEF Summable
  <2> QED BY <1>4, <2>1, RequestsAssumption, FewerIsLess
<1>13. g[r] \in Nat
  BY <1>4
<1> QED BY <1>4, <1>8, <1>9, <1>10, <1>11, <1>12, <1>13 DEF Covered

(* A charge that the request had promised leaves every cap covered. *)
LEMMA ChargeCovers ==
  ASSUME GateInv, NEW r \in Requests, InsertRequest(r), NEW cap \in Caps,
         Covered(cap), ~Overcharged(cap)
  PROVE  Covered(cap)'
<1> USE DEF GateInv, PlanInv
<1>1. PICK charged \in Costs : cost' = [cost EXCEPT ![r] = charged]
  BY DEF InsertRequest
<1>2. /\ pc[r] = "settle" /\ pc' = [pc EXCEPT ![r] = "release"]
      /\ ledger' = ledger \cup {r}
      /\ UNCHANGED <<amount, resv, past>>
  BY DEF InsertRequest, Goto
<1> DEFINE f == Weigh(cost, cap)
           f2 == Weigh(cost', cap)
           g == Weigh(amount, cap)
           c == f2[r]
           L == Counted(cap)
           O == Owed
<1>3. /\ L \in SUBSET Requests /\ O \in SUBSET Requests
      /\ IsFiniteSet(L) /\ IsFiniteSet(O) /\ Limit[cap] \in Nat
      /\ \A q \in Requests : f[q] \in Nat /\ g[q] \in Nat
  BY Columns
<1>4. c \in Nat /\ \A q \in Requests \ {r} : f2[q] = f[q]
  BY <1>1, AmountsAssumption DEF PlanTypeOK, Weigh
<1>5. r \notin ledger /\ r \notin L
  BY <1>2 DEF RowsSettle, Over, Counted
<1>6. Owed' = O \ {r} /\ Counted(cap)' = L \cup {r}
  <2>1. r \notin past[cap]
    BY <1>5 DEF RowsSettle
  <2>2. Counted(cap)' = L \cup {r}
    BY <1>2, <2>1 DEF Counted
  <2>3. Owed' = O \ {r}
    BY <1>2 DEF PlanTypeOK, Owed, Holding, PendingRows
  <2> QED BY <2>2, <2>3
<1>7. ~(c > IF r \in O THEN g[r] ELSE 0)
  BY <1>2, <1>5 DEF Overcharged, Promised
<1>8. Exposure(cap)' = Sum(f2, L \cup {r}) + Sum(g, O \ {r})
  <2>1. Weigh(amount', cap) = g
    BY <1>2
  <2> QED BY <1>6, <2>1, TotalIsSum DEF Exposure
<1>9. Sum(f, L) + Sum(g, O) <= Limit[cap]
  BY TotalIsSum DEF Covered, Exposure
<1> HIDE DEF f, f2, g, c, L, O
<1>10. Sum(f2, L \cup {r}) = Sum(f, L) + c
  <2>1. \A q \in L \cup {r} : f2[q] \in Nat
    BY <1>3, <1>4 DEF c
  <2>2. \A q \in L : f2[q] = f[q]
    BY <1>3, <1>4, <1>5
  <2>3. Sum(f2, L \cup {r}) = Sum(f2, L) + f2[r]
    BY <1>3, <1>5, <2>1, SumAdd
  <2>4. Sum(f2, L) = Sum(f, L)
    BY <1>3, <2>2, SumSame
  <2> QED BY <2>3, <2>4 DEF c
<1>11. Summable(f, Requests) /\ Summable(g, Requests)
  BY <1>3 DEF Summable
<1>12. Sum(f, L) \in Nat /\ Sum(g, O) \in Nat /\ Sum(g, O \ {r}) \in Nat
  <2>1. O \ {r} \in SUBSET Requests
    BY <1>3
  <2> QED BY <1>3, <1>11, <2>1, RequestsAssumption, FewerIsLess
<1>13. c + Sum(g, O \ {r}) <= Sum(g, O)
  <2>1. CASE r \in O
    <3>1. \A q \in O : g[q] \in Nat
      BY <1>3
    <3>2. Sum(g, O) = g[r] + Sum(g, O \ {r})
      BY <1>3, <2>1, <3>1, SumRemove
    <3> QED BY <1>3, <1>4, <1>7, <1>12, <2>1, <3>2
  <2>2. CASE r \notin O
    <3>1. O \ {r} = O /\ c = 0
      BY <1>4, <1>7, <2>2
    <3> QED BY <1>12, <3>1
  <2> QED BY <2>1, <2>2
<1> QED BY <1>3, <1>4, <1>8, <1>9, <1>10, <1>12, <1>13 DEF Covered

LEMMA StepCovered ==
  ASSUME GateInv, [Next]_vars, NEW cap \in Caps,
         Covered(cap), ~Overcharged(cap), ~Overlooked(cap)
  PROVE  Covered(cap)'
<1> USE DEF GateInv, PlanInv
<1> DEFINE Same == UNCHANGED <<amount, cost, ledger, resv, past>>
<1>a. ASSUME NEW r \in Requests, Same, NEW phase, phase \notin {"upstream", "settle"}, Goto(r, phase)
      PROVE  AddsNothing(cap)
  BY <1>a DEF PlanTypeOK, AddsNothing, Counted, Owed, Holding, PendingRows, Goto
<1>1. ASSUME NEW r \in Requests, BeginTx(r) PROVE AddsNothing(cap)
  <2>1. pc[r] = "start" /\ pc' = [pc EXCEPT ![r] = "begun"]
    BY <1>1 DEF BeginTx, Goto
  <2>2. (\A q \in Requests \ {r} : amount'[q] = amount[q]) /\ UNCHANGED <<cost, ledger, resv, past>>
    BY <1>1 DEF BeginTx, PlanTypeOK
  <2> QED BY <2>1, <2>2 DEF PlanTypeOK, AddsNothing, Counted, Owed, Holding, PendingRows
<1>2. ASSUME NEW r \in Requests, TakeLock(r) PROVE AddsNothing(cap)
  BY <1>2, <1>a DEF TakeLock
<1>3. ASSUME NEW r \in Requests, ReadUsed(r) PROVE AddsNothing(cap)
  BY <1>3, <1>a DEF ReadUsed
<1>4. ASSUME NEW r \in Requests, ReadReserved(r) PROVE AddsNothing(cap)
  BY <1>4, <1>a DEF ReadReserved
<1>5. ASSUME NEW r \in Requests, NextCheck(r) PROVE AddsNothing(cap)
  BY <1>5, <1>a DEF NextCheck
<1>6. ASSUME NEW r \in Requests, Admit(r) PROVE Covered(cap)' \/ AddsNothing(cap)
  <2>1. CASE pc'[r] = "upstream"
    BY <1>6, <2>1, AdmissionCovers
  <2>2. CASE pc'[r] # "upstream"
    <3>1. pc' = [pc EXCEPT ![r] = "leaked"] /\ pc[r] = "check"
      <4>1. PICK phase \in {"upstream", "leaked"} : pc' = [pc EXCEPT ![r] = phase]
        BY <1>6 DEF Admit, Goto
      <4>2. phase = "leaked"
        BY <2>2, <4>1 DEF PlanTypeOK
      <4> QED BY <1>6, <4>1, <4>2 DEF Admit
    <3>2. /\ \A q \in Requests \ {r} : resv'[q] = resv[q]
          /\ UNCHANGED <<amount, cost, ledger, past>>
      BY <1>6 DEF Admit, PlanTypeOK
    <3> QED BY <3>1, <3>2 DEF PlanTypeOK, AddsNothing, Counted, Owed, Holding, PendingRows
  <2> QED BY <2>1, <2>2
<1>7. ASSUME NEW r \in Requests, Reject(r) \/ FailTx(r) \/ Crash(r) PROVE AddsNothing(cap)
  BY <1>7, <1>a DEF Reject, FailTx, Crash
<1>8. ASSUME NEW r \in Requests, UpstreamEnds(r) PROVE AddsNothing(cap)
  <2>1. Same /\ pc[r] = "upstream" /\ \A q \in Requests \ {r} : pc'[q] = pc[q]
    BY <1>8 DEF UpstreamEnds, Goto, PlanTypeOK
  <2> QED BY <2>1 DEF PlanTypeOK, AddsNothing, Counted, Owed, Holding, PendingRows
<1>9. ASSUME NEW r \in Requests, InsertRequest(r) PROVE Covered(cap)'
  BY <1>9, ChargeCovers
<1>10. ASSUME NEW r \in Requests, InsertRequestFails(r) \/ ReleaseFails(r) PROVE AddsNothing(cap)
  BY <1>10, <1>a DEF InsertRequestFails, ReleaseFails
<1>11. ASSUME NEW r \in Requests, Release(r) PROVE AddsNothing(cap)
  <2>1. /\ pc[r] = "release" /\ pc'[r] = "done"
        /\ \A q \in Requests \ {r} : pc'[q] = pc[q] /\ resv'[q] = resv[q]
        /\ UNCHANGED <<amount, cost, ledger, past>>
    BY <1>11 DEF Release, Goto, PlanTypeOK
  <2> QED BY <2>1 DEF PlanTypeOK, AddsNothing, Counted, Owed, Holding, PendingRows
<1>12. ASSUME NEW r \in Requests, NEW c \in Clocks, Pass(r, c) PROVE AddsNothing(cap)
  <2>1. UNCHANGED <<pc, amount, cost, ledger, resv>>
    BY <1>12 DEF Pass
  <2>2. past[cap] \subseteq past'[cap] /\ past["ttl"] \subseteq past'["ttl"]
    BY <1>12 DEF Pass, PlanTypeOK, Clocks
  <2> QED BY <2>1, <2>2 DEF AddsNothing, Counted, Owed, Holding, PendingRows
<1>13. ASSUME NEW r \in Requests, Expire(r) PROVE AddsNothing(cap)
  BY <1>12, <1>13 DEF Expire, Clocks
<1>14. ASSUME NEW r \in Requests, NEW c \in Caps, Age(r, c) PROVE AddsNothing(cap)
  BY <1>12, <1>14 DEF Age, Clocks
<1>15. ASSUME UNCHANGED vars PROVE AddsNothing(cap)
  BY <1>15 DEF vars, AddsNothing, Counted, Owed, Holding, PendingRows
<1> HIDE DEF Same
<1>16. CASE AddsNothing(cap)
  BY <1>16, NothingAdded
<1> QED
  BY <1>1, <1>2, <1>3, <1>4, <1>5, <1>6, <1>7, <1>8, <1>9, <1>10, <1>11,
     <1>13, <1>14, <1>15, <1>16
     DEF Next, Attempt

(* Past a cap of a plan lead two ways only: a charge nobody promised, and an
   admission that overlooked one between its two reads. *)
THEOREM SlotsAreKept == Spec => SlotsKept
<1>1. ASSUME GateInv, [Next]_vars
      PROVE  [\A cap \in Caps : Covered(cap) /\ ~Covered(cap)'
                => Overcharged(cap) \/ Overlooked(cap)]_vars
  BY <1>1, StepCovered
<1> QED BY <1>1, GateInvHolds, PTL DEF Spec, SlotsKept

(* Where they never happen, the requests of a window stay within the monthly
   cap: the promise of the plan tiers, with the conditions it needs. *)
KeptClear == \A cap \in Caps : ~Overcharged(cap) /\ ~Overlooked(cap)

THEOREM MonthStaysWithinLimit == Spec /\ [][KeptClear]_vars => []MonthlyWithinLimit
<1> DEFINE AllCovered == \A cap \in Caps : Covered(cap)
<1>1. Init => AllCovered
  <2> SUFFICES ASSUME Init, NEW cap \in Caps PROVE Covered(cap)
    OBVIOUS
  <2>1. Counted(cap) = {} /\ Owed = {} /\ Limit[cap] \in Nat
    BY LimitAssumption DEF Init, Counted, Owed, Holding, PendingRows
  <2>2. Exposure(cap) = 0 + 0
    BY <2>1, TotalIsSum, SumEmpty DEF Exposure
  <2> QED BY <2>1, <2>2 DEF Covered
<1>2. GateInv /\ AllCovered /\ [Next]_vars /\ [KeptClear]_vars => AllCovered'
  <2>1. ASSUME GateInv, AllCovered, [Next]_vars, KeptClear PROVE AllCovered'
    BY <2>1, StepCovered DEF KeptClear
  <2>2. ASSUME GateInv, AllCovered, UNCHANGED vars PROVE AllCovered'
    <3> SUFFICES ASSUME NEW cap \in Caps PROVE Covered(cap)'
      OBVIOUS
    <3>1. AddsNothing(cap)
      BY <2>2 DEF vars, AddsNothing, Counted, Owed, Holding, PendingRows
    <3> QED BY <2>2, <3>1, NothingAdded DEF GateInv, PlanInv
  <2> HIDE DEF AllCovered
  <2> QED BY <2>1, <2>2
<1>3. GateInv /\ AllCovered => MonthlyWithinLimit
  <2> SUFFICES ASSUME GateInv, "monthly" \in Caps, Covered("monthly")
               PROVE  Cardinality(Counted("monthly")) <= Limit["monthly"]
    BY DEF MonthlyWithinLimit, Counted
  <2> DEFINE f == Weigh(cost, "monthly")
             g == Weigh(amount, "monthly")
             L == Counted("monthly")
  <2>1. /\ L \in SUBSET Requests /\ IsFiniteSet(L) /\ Owed \in SUBSET Requests
        /\ Limit["monthly"] \in Nat
        /\ Summable(f, Requests) /\ Summable(g, Requests)
    BY Columns DEF GateInv, PlanInv, Summable
  <2>2. \A q \in L : f[q] = 1
    BY <2>1 DEF Weigh
  <2>3. Sum(f, L) + Sum(g, Owed) <= Limit["monthly"]
    BY TotalIsSum DEF Covered, Exposure
  <2> HIDE DEF f, g, L
  <2>4. Sum(f, L) \in Nat /\ Sum(g, Owed) \in Nat
    BY <2>1, RequestsAssumption, FewerIsLess
  <2>5. Sum(f, L) = Cardinality(L)
    BY <2>1, <2>2, SumOfOnes
  <2>6. Cardinality(L) <= Limit["monthly"]
    BY <2>1, <2>3, <2>4, <2>5
  <2> QED BY <2>6 DEF L
<1> HIDE DEF AllCovered
<1> QED BY <1>1, <1>2, <1>3, GateInvHolds, PTL DEF Spec

=============================================================================
